---------------------------- MODULE AgentStream -----------------------------
(***************************************************************************)
(* One run of an agent, from Execute of the chat, completion or ReAct      *)
(* agent to the end of executeAgent: the iterator of Eino's runner is      *)
(* drained and what it yields becomes calls on the AgentExecutor.  The two *)
(* handlers of stream_handler.go are one here, told apart by `handler`.    *)
(* A single goroutine makes these steps; only the context changes under    *)
(* it.  The iterator, the streams and the tools are external.              *)
(***************************************************************************)
EXTENDS Naturals, Sequences, SequencesExt

CONSTANTS
    Texts,           \* non-empty contents of a message
    Usages,          \* token usages
    Empty, NoUsage,
    MaxYields        \* bound: what the iterator and its streams yield

ASSUME StreamAssumption ==
    Empty \notin Texts /\ NoUsage \notin Usages /\ MaxYields \in Nat

VARIABLES
    handler,         \* "plain" or "tools"
    ctx,             \* the execution's context: "live" or "done"
    pc,              \* "next", "recv", "complete", "unwind", "done"
    content, usage,  \* fullContent and usage of the handler
    cause,           \* what stopped the iterator: "none", "canceled", "other", "panic"
    status, output,  \* of the executor
    events,          \* what was published, in order
    said, reported,  \* history: texts and usages the iterator yielded
    calls, results,  \* history: tool calls the model made, results it was given
    yields

vars == <<handler, ctx, pc, content, usage, cause, status, output, events,
          said, reported, calls, results, yields>>
execVars == <<status, output, events>>
histVars == <<said, reported, calls, results>>

\* A message, or the piece of one a stream yields.  The first piece of a tool
\* call names it, later pieces carry more of its arguments only.
Pieces == [text: Texts \cup {Empty}, call: {"none", "named", "more"}, usage: Usages \cup {NoUsage}]
Ev(type, data) == [type |-> type, data |-> data]
NoOutput == [content |-> <<>>, usage |-> NoUsage]

Init ==
    /\ handler \in {"plain", "tools"} /\ ctx = "live" /\ pc = "next"
    /\ content = <<>> /\ usage = NoUsage /\ cause = "none"
    /\ status = "running" /\ output = NoOutput /\ events = <<>>
    /\ said = <<>> /\ reported = <<>> /\ calls = 0 /\ results = 0
    /\ yields = 0

-----------------------------------------------------------------------------
(* The executor, as AgentExecutor has it: an ended execution is not ended  *)
(* again.                                                                  *)

Ended == status # "running"

End(newStatus, out) ==
    IF Ended THEN UNCHANGED execVars
    ELSE /\ status' = newStatus /\ output' = out
         /\ events' = Append(events, Ev(newStatus, NoUsage))

\* Faulty: a cancellation is reported as a failure.
FailAlways(e) == End("failed", NoOutput)

FailIfNotCanceled(e) == IF e = "canceled" THEN UNCHANGED execVars ELSE End("failed", NoOutput)

-----------------------------------------------------------------------------
(* What the iterator may do.                                               *)

Yield == yields < MaxYields /\ yields' = yields + 1

\* The library reports context.Canceled only when the context is done; then it
\* may also report another error, or go on to the end.
Errors == {"other"} \cup (IF ctx = "done" THEN {"canceled"} ELSE {})

\* Faulty: tool calls are not announced; the first usage is kept; a text that
\* comes with a tool call is not.
AnnounceNot(p) == <<>>
KeepFirstUsage(p) == IF usage = NoUsage THEN p.usage ELSE usage
KeepIfNoCall(p) ==
    IF p.text = Empty \/ p.call # "none" THEN content ELSE Append(content, p.text)

\* tool.call, by the handler that knows of tools.
Announce(p) ==
    IF handler = "tools" /\ p.call # "none" THEN <<Ev("tool.call", p.call)>> ELSE <<>>

KeepUsage(p) == IF p.usage = NoUsage THEN usage ELSE p.usage
KeepText(p) == IF p.text = Empty THEN content ELSE Append(content, p.text)

\* A piece of what the assistant says: tool calls, then text, then usage.
Handle(p) ==
    /\ events' = events \o Announce(p)
                        \o (IF p.text = Empty THEN <<>> ELSE <<Ev("chunk", p.text)>>)
    /\ content' = KeepText(p) /\ usage' = KeepUsage(p)
    /\ said' = IF p.text = Empty THEN said ELSE Append(said, p.text)
    /\ reported' = IF p.usage = NoUsage THEN reported ELSE Append(reported, p.usage)
    /\ calls' = IF handler = "tools" /\ p.call = "named" THEN calls + 1 ELSE calls
    /\ UNCHANGED <<handler, ctx, cause, status, output, results>>

\* A whole message from the assistant.
NextMessage(p) ==
    /\ pc = "next" /\ p.call # "more" /\ Yield /\ Handle(p) /\ pc' = pc

\* A message that comes as a stream, to be received piece by piece.
NextStream ==
    /\ pc = "next" /\ Yield /\ pc' = "recv"
    /\ UNCHANGED <<handler, ctx, content, usage, cause, execVars, histVars>>

Recv(p) ==
    /\ pc = "recv" /\ (p.call = "more" => calls > 0)
    /\ Yield /\ Handle(p) /\ pc' = pc

RecvEOF ==
    /\ pc = "recv" /\ pc' = "next"
    /\ UNCHANGED <<handler, ctx, content, usage, cause, execVars, histVars, yields>>

\* An event without output, or a nil message: skipped.
NextEmpty ==
    /\ pc \in {"next", "recv"} /\ Yield
    /\ UNCHANGED <<handler, ctx, pc, content, usage, cause, execVars, histVars>>

\* What a tool answered, whole or concatenated from a stream.  The content of
\* the answer is the tool's, not the assistant's.
ToolResult(u) ==
    /\ pc = "next" /\ handler = "tools" /\ results < calls /\ Yield
    /\ events' = Append(events, Ev("tool.result", "none"))
    /\ usage' = IF u = NoUsage THEN usage ELSE u
    /\ reported' = IF u = NoUsage THEN reported ELSE Append(reported, u)
    /\ results' = results + 1
    /\ UNCHANGED <<handler, ctx, pc, content, cause, status, output, said, calls>>

Stop(e) ==
    /\ cause' = e /\ pc' = "unwind"
    /\ UNCHANGED <<handler, ctx, content, usage, histVars, yields>>

\* An error from the iterator, a stream or the concatenation of one.
Fails == pc \in {"next", "recv"} /\ \E e \in Errors : Stop(e) /\ FailIfNotCanceled(e)

\* A tool cannot parse its arguments or returns an error: the iterator yields it.
ToolFails ==
    /\ pc = "next" /\ handler = "tools" /\ results < calls
    /\ Stop("other") /\ FailIfNotCanceled("other")

\* A panic in the library unwinds the handler; executeAgent recovers it.
Panics == pc \in {"next", "recv"} /\ Stop("panic") /\ UNCHANGED execVars

\* The iterator is exhausted: the usage first.
NextEnds ==
    /\ pc = "next" /\ pc' = "complete"
    /\ events' = IF usage = NoUsage THEN events ELSE Append(events, Ev("token.usage", usage))
    /\ UNCHANGED <<handler, ctx, content, usage, cause, status, output, histVars, yields>>

Complete ==
    /\ pc = "complete" /\ pc' = "unwind"
    /\ End("completed", [content |-> content, usage |-> usage])
    /\ UNCHANGED <<handler, ctx, content, usage, cause, histVars, yields>>

\* executeAgent, with the error Execute returned: Cancel or Fail.
ExecuteAgent ==
    /\ pc = "unwind" /\ pc' = "done"
    /\ CASE cause = "none"     -> UNCHANGED execVars
         [] cause = "canceled" -> End("cancelled", NoOutput)
         [] OTHER              -> End("failed", NoOutput)
    /\ UNCHANGED <<handler, ctx, content, usage, cause, histVars, yields>>

\* The task is cancelled, or the request its context hangs on has ended.
CtxDone ==
    /\ ctx = "live" /\ pc # "done" /\ ctx' = "done"
    /\ UNCHANGED <<handler, pc, content, usage, cause, execVars, histVars, yields>>

-----------------------------------------------------------------------------
Iterate ==
    \/ \E p \in Pieces : NextMessage(p) \/ Recv(p)
    \/ NextStream \/ RecvEOF \/ NextEmpty
    \/ \E u \in Usages \cup {NoUsage} : ToolResult(u)
    \/ NextEnds \/ Fails \/ ToolFails \/ Panics

Next == Iterate \/ Complete \/ ExecuteAgent \/ CtxDone

(***************************************************************************)
(* The goroutine runs.  A model may never answer: the iterator moves for   *)
(* sure only once its context is done.                                     *)
(***************************************************************************)
Fairness ==
    /\ WF_vars(Complete) /\ WF_vars(ExecuteAgent)
    /\ WF_vars(ctx = "done" /\ Iterate)

Spec == Init /\ [][Next]_vars /\ Fairness

-----------------------------------------------------------------------------
\* The positions of the events of a type, of named calls, and how many of some
\* positions there are up to one.
At(log, type) == {n \in DOMAIN log : log[n].type = type}
Named(log) == {n \in At(log, "tool.call") : log[n].data = "named"}
UpTo(positions, n) == Cardinality({k \in positions : k <= n})

\* Types.
StreamTypeOK ==
    /\ handler \in {"plain", "tools"} /\ ctx \in {"live", "done"}
    /\ pc \in {"next", "recv", "complete", "unwind", "done"}
    /\ content \in Seq(Texts) /\ said \in Seq(Texts)
    /\ usage \in Usages \cup {NoUsage} /\ reported \in Seq(Usages)
    /\ cause \in {"none", "canceled", "other", "panic"}
    /\ status \in {"running", "completed", "failed", "cancelled"}
    /\ output \in [content: Seq(Texts), usage: Usages \cup {NoUsage}]
    /\ calls \in Nat /\ results \in 0..calls /\ yields \in 0..MaxYields

\* The chunks of a log are these texts, in their order.
Tells(log, texts) ==
    /\ Cardinality(At(log, "chunk")) = Len(texts)
    /\ \A n \in At(log, "chunk") : log[n].data = texts[UpTo(At(log, "chunk"), n)]

\* No result in a log is without an earlier named call of its own.
Answers(log) ==
    \A n \in At(log, "tool.result") : UpTo(At(log, "tool.result"), n) <= UpTo(Named(log), n)

\* What the assistant says reaches the stream piece by piece and, when the run
\* completes, the output: both tell the same text and no tool's answer in it,
\* whole messages and streams alike; a run that stops short keeps what was said.
ContentTold == Tells(events, said) /\ (status = "completed" => output.content = said)

\* The usage is told in an event right before the end and in the output, and
\* never by a run that did not complete.  It is the last one reported: that of
\* an agent's earlier turns is not in it.
UsageTold ==
    LET told == At(events, "token.usage")
        last == IF reported = <<>> THEN NoUsage ELSE Last(reported)
    IN  /\ status = "completed" =>
            /\ told = IF reported = <<>> THEN {} ELSE {Len(events) - 1}
            /\ \A n \in told : events[n].data = last
            /\ output.usage = last
        /\ status \in {"failed", "cancelled"} => told = {}

\* A result never comes before the call it answers, and each call the model made
\* is named once (the later pieces of a streamed call are announced too, unnamed).
CallsBeforeResults == Cardinality(Named(events)) = calls /\ Answers(events)

Run == INSTANCE AgentRun WITH
    Contents <- {"chunk", "tool.call", "tool.result", "token.usage"},
    Causes <- {"canceled", "other", "panic"},
    log <- [n \in DOMAIN events |-> events[n].type]

\* One last event ends the run, told by the handler or by executeAgent but not
\* by both, and it tells why the run stopped: a cancellation is no failure, a
\* failure no cancellation, and a panic fails it.  A run that stopped short does
\* end: no error is lost between the handler and executeAgent.
ImplementsRun == Run!Spec
=============================================================================
