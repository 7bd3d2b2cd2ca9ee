--------------------------- MODULE PipelineProofs ---------------------------
(***************************************************************************)
(* What holds of every pipeline: any number of functions and finalizers,   *)
(* any limits, executed any number of times.                               *)
(***************************************************************************)
EXTENDS Pipeline, FiniteSetTheorems, TLAPS

LEMMA TypeInit == Init => PipelineTypeOK
  BY PipelineAssumption DEF Init, PipelineTypeOK, Fns, NoErr

LEMMA TypeNext == PipelineTypeOK /\ [Next]_vars => PipelineTypeOK'
  <1> SUFFICES ASSUME PipelineTypeOK, [Next]_vars PROVE PipelineTypeOK'
    OBVIOUS
  <1> USE PipelineAssumption DEF PipelineTypeOK, Fns, NoErr
  <1>1. CASE Calls
    BY <1>1 DEF Calls, Begin
  <1>2. ASSUME NEW i \in Fns, RunNext(i) \/ Go(i) PROVE PipelineTypeOK'
    BY <1>2 DEF RunNext, Go, Run
  <1>3. CASE ExecuteEnds
    BY <1>3 DEF ExecuteEnds, Answer, CtxErr
  <1>4. CASE Wait
    <2>1. gerr \in 0..(N + 2) /\ lerr \in 0..(N + 2)
      OBVIOUS
    <2> QED
      BY <1>4, <2>1 DEF Wait, Answer
  <1>5. CASE RunFinally
    BY <1>5 DEF RunFinally
  <1>6. CASE ParentDone
    BY <1>6 DEF ParentDone
  <1>7. ASSUME NEW i \in Fns, Succeeds(i) \/ FailsAlone(i) \/ FailsInGroup(i)
        PROVE  PipelineTypeOK'
    <2>1. i \in 0..N /\ i \in 0..(N + 2) /\ PanicErr \in 0..(N + 2)
      BY DEF PanicErr
    <2>2. CASE Succeeds(i)
      BY <2>2 DEF Succeeds
    <2>3. CASE FailsAlone(i)
      BY <2>1, <2>3 DEF FailsAlone, Answer
    <2>4. CASE FailsInGroup(i)
      BY <2>1, <2>4 DEF FailsInGroup, FirstError
    <2> QED
      BY <1>7, <2>2, <2>3, <2>4
  <1>8. CASE UNCHANGED vars
    BY <1>8 DEF vars
  <1> QED
    BY <1>1, <1>2, <1>3, <1>4, <1>5, <1>6, <1>7, <1>8 DEF Next, Steps

\* Every variable of a pipeline stays in its range.
THEOREM PipelineTypeCorrect == Spec => []PipelineTypeOK
  BY TypeInit, TypeNext, PTL DEF Spec

-----------------------------------------------------------------------------
\* One after another means one at a time.
OneAtATime ==
    mode = "sequential" =>
        \A i, j \in Fns : fn[i] = "running" /\ fn[j] = "running" => i = j

LastInv == PipelineTypeOK /\ FinalizersLast /\ OneAtATime

LEMMA LastInit == Init => LastInv
  BY TypeInit DEF Init, LastInv, FinalizersLast, OneAtATime, Running

LEMMA LastNext == LastInv /\ [Next]_vars => LastInv'
  <1> SUFFICES ASSUME LastInv, [Next]_vars PROVE (FinalizersLast /\ OneAtATime)'
    BY TypeNext DEF LastInv
  <1> USE DEF LastInv, FinalizersLast, OneAtATime, Running, PipelineTypeOK
  <1>1. CASE Calls
    BY <1>1 DEF Calls, Begin
  <1>2. ASSUME NEW i \in Fns, RunNext(i) PROVE (FinalizersLast /\ OneAtATime)'
    BY <1>2 DEF RunNext, Run
  <1>3. ASSUME NEW i \in Fns, Go(i) PROVE (FinalizersLast /\ OneAtATime)'
    BY <1>3 DEF Go, Run
  <1>4. CASE ExecuteEnds \/ Wait \/ RunFinally \/ ParentDone
    BY <1>4 DEF ExecuteEnds, Answer, Wait, RunFinally, ParentDone
  <1>5. ASSUME NEW i \in Fns, Succeeds(i) \/ FailsAlone(i) \/ FailsInGroup(i)
        PROVE  (FinalizersLast /\ OneAtATime)'
    <2>1. /\ \A j \in Fns : fn'[j] = "running" => fn[j] = "running" /\ j # i
          /\ fn[i] = "running" /\ mode' = mode /\ i \in Running
      BY <1>5 DEF Succeeds, FailsAlone, FailsInGroup
    <2>2. pc = "run"
      BY <2>1
    <2>3. OneAtATime'
      BY <2>1
    <2>4. CASE mode = "sequential"
      BY <2>1, <2>3, <2>4
    <2>5. CASE mode # "sequential"
      BY <1>5, <2>2, <2>3, <2>5 DEF Succeeds, FailsAlone, FailsInGroup
    <2> QED
      BY <2>4, <2>5
  <1>6. CASE UNCHANGED vars
    BY <1>6 DEF vars
  <1> QED
    BY <1>1, <1>2, <1>3, <1>4, <1>5, <1>6 DEF Next, Steps

\* No finalizer runs, and no call returns, while a function still runs.
THEOREM FinalizersComeLast == Spec => []FinalizersLast
  <1>1. LastInv => FinalizersLast
    BY DEF LastInv
  <1> QED
    BY <1>1, LastInit, LastNext, PTL DEF Spec

-----------------------------------------------------------------------------
\* The functions that run are finitely many, so they can be counted.
LEMMA RunningIsFinite == IsFiniteSet(Running) /\ Cardinality(Running) \in Nat
  <1>1. IsFiniteSet(Fns)
    BY PipelineAssumption, FS_Interval DEF Fns
  <1> QED
    BY <1>1, FS_Subset, FS_CardinalityType DEF Running

LEMMA LimitNext == PipelineTypeOK /\ WithinLimit /\ [Next]_vars => WithinLimit'
  <1> SUFFICES ASSUME PipelineTypeOK, WithinLimit, [Next]_vars, mode' = "limited"
               PROVE  Cardinality(Running') <= limit'
    BY DEF WithinLimit
  <1>1. CASE Calls
    <2>1. Running' = {}
      BY <1>1 DEF Calls, Begin, Running
    <2>2. limit' \in Nat
      BY <1>1, PipelineAssumption DEF Calls, Begin
    <2> QED
      BY <2>1, <2>2, FS_EmptySet
  <1>2. ASSUME NEW i \in Fns, RunNext(i) \/ Go(i)
        PROVE  Cardinality(Running') <= limit'
    <2>1. mode = "limited" /\ limit' = limit /\ Cardinality(Running) < limit
      BY <1>2 DEF RunNext, Go, Run
    <2>2. Running' = Running \cup {i}
      BY <1>2 DEF RunNext, Go, Run, Running, PipelineTypeOK
    <2>3. Cardinality(Running') <= Cardinality(Running) + 1
      BY <2>2, RunningIsFinite, FS_AddElement
    <2>4. limit \in Nat /\ Cardinality(Running') \in Nat
      BY <2>2, RunningIsFinite, FS_AddElement, PipelineAssumption DEF PipelineTypeOK
    <2> QED
      BY <2>1, <2>3, <2>4, RunningIsFinite
  <1>3. CASE ~Calls /\ ~(\E i \in Fns : RunNext(i) \/ Go(i))
    <2>1. Running' \subseteq Running /\ limit' = limit /\ mode' = mode
      BY <1>3 DEF Next, Steps, ExecuteEnds, Answer, Wait, RunFinally, ParentDone,
         Succeeds, FailsAlone, FailsInGroup, vars, Running, PipelineTypeOK
    <2>2. Cardinality(Running') <= Cardinality(Running)
      BY <2>1, RunningIsFinite, FS_Subset
    <2>3. Cardinality(Running') \in Nat /\ limit \in Nat
      BY <2>1, RunningIsFinite, FS_Subset, FS_CardinalityType, PipelineAssumption
         DEF PipelineTypeOK
    <2> QED
      BY <2>1, <2>2, <2>3, RunningIsFinite DEF WithinLimit
  <1> QED
    BY <1>1, <1>2, <1>3

\* A limited call never runs more functions at a time than its limit.
THEOREM LimitHolds == Spec => []WithinLimit
  <1>1. Init => WithinLimit
    BY DEF Init, WithinLimit
  <1> QED
    BY <1>1, LimitNext, PipelineTypeCorrect, PTL DEF Spec

\* The pipeline's group never forgets nor replaces its first error.
THEOREM FirstErrorIsKept == Spec => FirstErrorStays
  <1>1. [Next]_vars => [gerr # NoErr => gerr' = gerr]_vars
    BY DEF Next, Calls, Begin, Steps, RunNext, Go, Run, ExecuteEnds, Wait, RunFinally,
       ParentDone, Succeeds, FailsAlone, FailsInGroup, FirstError, vars
  <1> QED
    BY <1>1, PTL DEF Spec, FirstErrorStays

-----------------------------------------------------------------------------
\* What every call, whatever its mode, has made of the functions so far.
Started ==
    pc = "run" => \A i \in Fns : i >= next <=> fn[i] = "new"

\* One after another: nothing starts after a function that has not succeeded.
InSequence ==
    mode = "sequential" =>
        /\ \A i, j \in Fns : i < j /\ fn[i] # "ok" => fn[j] = "new"
        /\ pc = "run" => \A i \in Fns : fn[i] \in {"new", "running", "ok"}

\* A group knows of a failure, and only of one that happened.
GroupsKnow ==
    /\ calls = 0 => gerr = NoErr /\ pc = "idle"
    /\ calls = 1 /\ gerr # NoErr => fn[gerr] = "err"
    /\ lerr # NoErr => fn[lerr] = "err"
    /\ mode # "sequential" => \A i \in Fns : fn[i] # "panic"
    /\ mode = "parallel" /\ gerr = NoErr => \A i \in Fns : fn[i] # "err"
    /\ mode = "limited" /\ lerr = NoErr => \A i \in Fns : fn[i] # "err"

TruthInv == LastInv /\ Started /\ InSequence /\ GroupsKnow /\ AnswerTruthful

LEMMA TruthInit == Init => TruthInv
  BY LastInit, PipelineAssumption
  DEF Init, TruthInv, Started, InSequence, GroupsKnow, AnswerTruthful, Fns, NoErr

\* A function that starts.
LEMMA TruthRun ==
    ASSUME TruthInv, NEW i \in Fns, RunNext(i) \/ Go(i)
    PROVE  (Started /\ InSequence /\ GroupsKnow /\ AnswerTruthful)'
  <1> USE PipelineAssumption DEF TruthInv, LastInv, PipelineTypeOK, Fns, NoErr
  <1>1. /\ pc = "run" /\ pc' = "run" /\ next = i /\ next' = i + 1 /\ fn[i] = "new"
        /\ fn' = [fn EXCEPT ![i] = "running"]
        /\ UNCHANGED <<mode, ctx, gerr, lerr, answer, calls>>
    BY DEF RunNext, Go, Run, Started
  <1>2. Started'
    BY <1>1 DEF Started
  <1>3. InSequence'
    <2>1. CASE mode = "sequential"
      <3>1. \A j \in Fns : fn[j] # "running"
        BY <2>1 DEF RunNext, Go, Running
      <3> QED
        BY <1>1, <2>1, <3>1 DEF InSequence, Started
    <2> QED
      BY <1>1, <2>1 DEF InSequence
  <1>4. GroupsKnow'
    BY <1>1 DEF GroupsKnow
  <1> QED
    BY <1>1, <1>2, <1>3, <1>4 DEF AnswerTruthful

\* A function that returns, or panics.
LEMMA TruthReturn ==
    ASSUME TruthInv, NEW i \in Fns, Succeeds(i) \/ FailsAlone(i) \/ FailsInGroup(i)
    PROVE  (Started /\ InSequence /\ GroupsKnow /\ AnswerTruthful)'
  <1> USE PipelineAssumption DEF TruthInv, LastInv, PipelineTypeOK, Fns, NoErr
  <1>1. pc = "run" /\ fn[i] = "running"
    BY DEF Succeeds, FailsAlone, FailsInGroup, FinalizersLast, Running
  <1>2. CASE Succeeds(i)
    BY <1>1, <1>2 DEF Succeeds, Started, InSequence, GroupsKnow, AnswerTruthful
  <1>3. CASE FailsAlone(i)
    <2>1. /\ mode = "sequential" /\ pc' = "finally" /\ answer' \in {i, PanicErr}
          /\ \E e \in {"err", "panic"} : fn' = [fn EXCEPT ![i] = e]
          /\ answer' = i => fn'[i] = "err"
          /\ UNCHANGED <<mode, next, ctx, gerr, lerr, calls>>
      BY <1>3 DEF FailsAlone, Answer, PanicErr
    <2>2. InSequence'
      BY <1>1, <2>1 DEF InSequence
    <2>3. GroupsKnow'
      BY <1>1, <2>1 DEF GroupsKnow
    <2>4. AnswerTruthful'
      BY <2>1, <2>2 DEF AnswerTruthful, InSequence, PanicErr, CtxErr
    <2> QED
      BY <2>1, <2>2, <2>3, <2>4 DEF Started
  <1>4. CASE FailsInGroup(i)
    <2>1. /\ mode # "sequential" /\ fn' = [fn EXCEPT ![i] = "err"]
          /\ UNCHANGED <<mode, pc, next, answer, calls>>
      BY <1>4 DEF FailsInGroup
    <2>2. GroupsKnow'
      <3>1. CASE mode = "parallel"
        BY <1>1, <1>4, <2>1, <3>1 DEF FailsInGroup, FirstError, GroupsKnow
      <3>2. CASE mode = "limited"
        BY <1>1, <1>4, <2>1, <3>2 DEF FailsInGroup, FirstError, GroupsKnow
      <3> QED
        BY <2>1, <3>1, <3>2
    <2> QED
      BY <1>1, <2>1, <2>2 DEF Started, InSequence, AnswerTruthful
  <1> QED
    BY <1>2, <1>3, <1>4

\* A call that has no function left to wait for.
LEMMA TruthEnd ==
    ASSUME TruthInv, ExecuteEnds \/ Wait
    PROVE  (Started /\ InSequence /\ GroupsKnow /\ AnswerTruthful)'
  <1> USE PipelineAssumption DEF TruthInv, LastInv, PipelineTypeOK, Fns, NoErr
  <1>1. /\ pc = "run" /\ pc' = "finally" /\ \A i \in Fns : fn[i] # "running"
        /\ UNCHANGED <<mode, next, fn, gerr, lerr, calls>>
    BY DEF ExecuteEnds, Wait, Answer, Running
  <1>2. Started' /\ InSequence' /\ GroupsKnow'
    BY <1>1 DEF Started, InSequence, GroupsKnow
  <1>3. CASE ExecuteEnds
    <2>1. /\ mode = "sequential" /\ ctx' = ctx
          /\ \/ next > N /\ answer' = NoErr
             \/ ctx = "done" /\ answer' = CtxErr
      BY <1>3 DEF ExecuteEnds, Answer
    <2>2. next > N => \A i \in Fns : fn[i] = "ok"
      BY <1>1, <2>1 DEF Started, InSequence
    <2> QED
      BY <1>1, <1>2, <2>1, <2>2 DEF AnswerTruthful, InSequence, CtxErr
  <1>4. CASE Wait
    <2>1. mode # "sequential" /\ next > N /\ answer' = IF mode = "parallel" THEN gerr ELSE lerr
      BY <1>4 DEF Wait, Answer
    <2>2. answer' = NoErr => \A i \in Fns : fn[i] = "ok"
      BY <1>1, <2>1 DEF Started, GroupsKnow
    <2>3. answer' \in Fns => fn[answer'] = "err" \/ (mode = "parallel" /\ calls > 1)
      BY <1>1, <2>1 DEF GroupsKnow
    <2>4. answer' # CtxErr
      BY <2>1 DEF CtxErr
    <2> QED
      BY <1>1, <1>2, <2>1, <2>2, <2>3, <2>4 DEF AnswerTruthful
  <1> QED
    BY <1>3, <1>4

LEMMA TruthNext == TruthInv /\ [Next]_vars => TruthInv'
  <1> SUFFICES ASSUME TruthInv, [Next]_vars
               PROVE  (Started /\ InSequence /\ GroupsKnow /\ AnswerTruthful)'
    BY LastNext DEF TruthInv
  <1>1. CASE Calls
    BY <1>1, PipelineAssumption DEF Calls, Begin, TruthInv, LastInv, PipelineTypeOK, Fns, NoErr,
       Started, InSequence, GroupsKnow, AnswerTruthful
  <1>2. CASE RunFinally \/ ParentDone \/ UNCHANGED vars
    BY <1>2 DEF RunFinally, ParentDone, vars, TruthInv,
       Started, InSequence, GroupsKnow, AnswerTruthful
  <1> QED
    BY <1>1, <1>2, TruthRun, TruthReturn, TruthEnd DEF Next, Steps

\* What a call answers is true: no error only if every function succeeded, and
\* an error only of a function that failed or a context that ended.
THEOREM AnswersAreTruthful == Spec => []AnswerTruthful
  <1>1. TruthInv => AnswerTruthful
    BY DEF TruthInv
  <1> QED
    BY <1>1, TruthInit, TruthNext, PTL DEF Spec
=============================================================================
