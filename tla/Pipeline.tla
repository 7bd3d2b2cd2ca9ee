------------------------------ MODULE Pipeline ------------------------------
(***************************************************************************)
(* Pipeline of internal/infrastructure/pkg/errors: functions run one after *)
(* another, all at once in the pipeline's errgroup, or a few at a time in  *)
(* an errgroup of the call's own, then the finalizers.  A pipeline can be  *)
(* executed again; its errgroup keeps its error and its context.           *)
(***************************************************************************)
EXTENDS Naturals, FiniteSets

CONSTANTS
    N,               \* functions added with Then
    Finalizers,      \* how many were added with Finally
    Limits,          \* arguments of ExecuteParallelWithLimit
    MaxCalls         \* bound

ASSUME PipelineAssumption ==
    N \in Nat /\ Finalizers \in Nat /\ Limits \subseteq Nat /\ MaxCalls \in Nat

VARIABLES
    mode, limit,     \* how the pipeline is being executed
    pc,              \* "idle", "run", "finally"
    next,            \* the next function to start
    fn,              \* per function: "new", "running", "ok", "err", "panic"
    ctx,             \* p.ctx: "live" or "done"
    gerr, lerr,      \* first error of p.g, and of the call's own group
    answer,
    ran,             \* finalizers run in this call
    calls

vars == <<mode, limit, pc, next, fn, ctx, gerr, lerr, answer, ran, calls>>

Fns == 1..N
NoErr == 0           \* an error is known by the function that returned it
CtxErr == N + 1
PanicErr == N + 2

Running == {i \in Fns : fn[i] = "running"}

Init ==
    /\ mode = "sequential" /\ limit = 0 /\ pc = "idle" /\ next = 1
    /\ fn = [i \in Fns |-> "new"]
    /\ ctx = "live" /\ gerr = NoErr /\ lerr = NoErr /\ answer = NoErr
    /\ ran = 0 /\ calls = 0

Begin(m, l) ==
    /\ pc = "idle" /\ calls < MaxCalls
    /\ pc' = "run" /\ mode' = m /\ limit' = l /\ next' = 1 /\ calls' = calls + 1
    /\ fn' = [i \in Fns |-> "new"]
    /\ lerr' = NoErr /\ answer' = NoErr /\ ran' = 0
    /\ UNCHANGED <<ctx, gerr>>

Answer(e) == answer' = e /\ pc' = "finally"

-----------------------------------------------------------------------------
Run(i) ==
    /\ pc = "run" /\ next = i
    /\ fn' = [fn EXCEPT ![i] = "running"] /\ next' = i + 1
    /\ UNCHANGED <<mode, limit, pc, ctx, gerr, lerr, answer, ran, calls>>

\* Execute: one at a time, while nothing has failed and the context lives.
RunNext(i) == mode = "sequential" /\ Running = {} /\ ctx = "live" /\ Run(i)

\* errgroup.Go waits for a slot; a failure stops no later Go.
Go(i) == mode # "sequential" /\ (mode = "limited" => Cardinality(Running) < limit) /\ Run(i)

\* Faulty: a context that is done keeps functions from starting, nothing more.
ExecuteEndsAtEnd ==
    /\ pc = "run" /\ mode = "sequential" /\ Running = {}
    /\ next > N /\ Answer(NoErr)
    /\ UNCHANGED <<mode, limit, next, fn, ctx, gerr, lerr, ran, calls>>

ExecuteEnds ==
    /\ pc = "run" /\ mode = "sequential" /\ Running = {}
    /\ next > N \/ ctx = "done"
    /\ Answer(IF next > N THEN NoErr ELSE CtxErr)
    /\ UNCHANGED <<mode, limit, next, fn, ctx, gerr, lerr, ran, calls>>

\* errOnce
FirstError(e, i) == IF e = NoErr THEN i ELSE e

Succeeds(i) ==
    /\ fn[i] = "running" /\ fn' = [fn EXCEPT ![i] = "ok"]
    /\ UNCHANGED <<mode, limit, pc, next, ctx, gerr, lerr, answer, ran, calls>>

\* Faulty: the next function runs all the same.
FailsAndGoesOn(i) ==
    /\ fn[i] = "running" /\ mode = "sequential"
    /\ fn' = [fn EXCEPT ![i] = "err"]
    /\ UNCHANGED <<mode, limit, pc, next, ctx, gerr, lerr, answer, ran, calls>>

FailsAlone(i) ==
    /\ fn[i] = "running" /\ mode = "sequential"
    /\ \/ fn' = [fn EXCEPT ![i] = "err"] /\ Answer(i)
       \/ fn' = [fn EXCEPT ![i] = "panic"] /\ Answer(PanicErr)
    /\ UNCHANGED <<mode, limit, next, ctx, gerr, lerr, ran, calls>>

\* In the pipeline's group the first error ends the context.
FailsInGroup(i) ==
    /\ fn[i] = "running" /\ mode # "sequential"
    /\ fn' = [fn EXCEPT ![i] = "err"]
    /\ IF mode = "parallel"
       THEN gerr' = FirstError(gerr, i) /\ ctx' = "done" /\ UNCHANGED lerr
       ELSE lerr' = FirstError(lerr, i) /\ UNCHANGED <<gerr, ctx>>
    /\ UNCHANGED <<mode, limit, pc, next, answer, ran, calls>>

\* Faulty: the call does not wait for the functions that still run.
WaitNot ==
    /\ pc = "run" /\ mode # "sequential" /\ next > N
    /\ Answer(IF mode = "parallel" THEN gerr ELSE lerr)
    /\ ctx' = IF mode = "parallel" THEN "done" ELSE ctx
    /\ UNCHANGED <<mode, limit, next, fn, gerr, lerr, ran, calls>>

\* Wait ends the context of the pipeline's group, error or none.
Wait ==
    /\ pc = "run" /\ mode # "sequential" /\ next > N /\ Running = {}
    /\ Answer(IF mode = "parallel" THEN gerr ELSE lerr)
    /\ ctx' = IF mode = "parallel" THEN "done" ELSE ctx
    /\ UNCHANGED <<mode, limit, next, fn, gerr, lerr, ran, calls>>

\* runFinally, deferred: whatever way the call ends.
RunFinally ==
    /\ pc = "finally"
    /\ IF ran < Finalizers THEN ran' = ran + 1 /\ UNCHANGED pc
                           ELSE pc' = "idle" /\ UNCHANGED ran
    /\ UNCHANGED <<mode, limit, next, fn, ctx, gerr, lerr, answer, calls>>

\* The context the pipeline was made with ends.
ParentDone ==
    /\ ctx = "live" /\ ctx' = "done"
    /\ UNCHANGED <<mode, limit, pc, next, fn, gerr, lerr, answer, ran, calls>>

Calls ==
    \/ Begin("sequential", 0) \/ Begin("parallel", 0)
    \/ \E l \in Limits : Begin("limited", l)

Steps ==
    \/ \E i \in Fns : RunNext(i) \/ Go(i)
    \/ ExecuteEnds \/ Wait \/ RunFinally

Next ==
    \/ Calls \/ Steps \/ ParentDone
    \/ \E i \in Fns : Succeeds(i) \/ FailsAlone(i) \/ FailsInGroup(i)

\* The caller's functions return, one way or the other.
Fairness ==
    /\ WF_vars(Steps)
    /\ \A i \in Fns : WF_vars(Succeeds(i) \/ FailsAlone(i) \/ FailsInGroup(i))

Spec == Init /\ [][Next]_vars /\ Fairness

-----------------------------------------------------------------------------
\* Types.
PipelineTypeOK ==
    /\ mode \in {"sequential", "parallel", "limited"} /\ limit \in Limits \cup {0}
    /\ pc \in {"idle", "run", "finally"} /\ next \in 1..(N + 1)
    /\ fn \in [Fns -> {"new", "running", "ok", "err", "panic"}]
    /\ ctx \in {"live", "done"} /\ gerr \in 0..N /\ lerr \in 0..N
    /\ answer \in 0..(N + 2) /\ ran \in 0..Finalizers /\ calls \in 0..MaxCalls

\* Finalizers clean up after the functions: none of them runs, or the call
\* returns, while a function still runs.
FinalizersLast == pc # "run" => Running = {}

\* No error means that every function ran and succeeded.  An error is that of a
\* function that failed, in this call or, in the group all calls share, in an
\* earlier one; one after another, no function ran after it.
AnswerTruthful ==
    pc = "finally" =>
        /\ answer = NoErr => \A i \in Fns : fn[i] = "ok"
        /\ answer \in Fns => fn[answer] = "err" \/ (mode = "parallel" /\ calls > 1)
        /\ answer = CtxErr => mode = "sequential" /\ ctx = "done"
        /\ mode = "sequential" =>
             \A i, j \in Fns : i < j /\ fn[i] # "ok" => fn[j] = "new"

\* An error once told by the pipeline's group stays what it is, whatever fails later.
FirstErrorStays == [][gerr # NoErr => gerr' = gerr]_vars

\* No more functions run at a time than the limit allows.
WithinLimit == mode = "limited" => Cardinality(Running) <= limit

\* Every call returns if its functions do, except with a limit of 0, which lets
\* none of them start.
CallReturns == (pc = "run" /\ (mode = "limited" => limit > 0)) ~> (pc = "idle")
=============================================================================
