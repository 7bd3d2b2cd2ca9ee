--------------------------- MODULE ChatTaskProofs ---------------------------
(***************************************************************************)
(* What holds of every chat task, and of every client that reconnects to   *)
(* one, for any number of channels, any capacity, any log and all faults   *)
(* of Redis.                                                               *)
(*                                                                         *)
(* The executor's methods check next to nothing; that the goroutines call  *)
(* them in order is in Phase, which relates where the two goroutines are   *)
(* to the status.  From it every step of the task is a step of             *)
(* AgentExecutor, whose invariants then hold here.  A reconnected client   *)
(* is one more reader: the invariants of the task are proved of steps that *)
(* another reader may make (Move), and so serve both specifications.       *)
(***************************************************************************)
EXTENDS SSEReconnect, AgentExecutorProofs, SequenceTheorems, WellFoundedInduction

OtherReader ==
    /\ \E s \in Subscribers : Subscribe(s) \/ Receive(s)
    /\ UNCHANGED <<reqVars, agent, regVars>>

Move == TaskNext \/ OtherReader \/ UNCHANGED taskVars

Before == {"building", "built", "registered", "started"}
Reads  == {"reading", "draining", "awaiting"}

\* Types of the task's own variables.
TaskTypes ==
    /\ mode \in {"streaming", "blocking"}
    /\ req \in Before \cup Reads \cup {"launched", "drained", "done"}
    /\ cur \in Subscribers \cup {NoChannel}
    /\ reply \in {"none", "rejected", "streamed", "gone", "error", "nooutput", "success"}
    /\ agent \in {"off", "running", "unwinding", "unregistering", "gone"}
    /\ taskReg \in BOOLEAN /\ execReg \in BOOLEAN
    /\ regTimer \in 0..RegistryDelay
    /\ canceller \in {"idle", "holding"}
    /\ ctx \in {"live", "done"} /\ execCtx \in {"nil", "live", "done"} /\ hasStore \in BOOLEAN

\* How far the goroutines are, and what the executor was told so far.
Phase ==
    /\ reply = "none" <=> req # "done"
    /\ execCtx = "nil" <=> req \in {"building", "built"} \/ reply = "rejected"
    /\ status = "pending" <=> req \in Before \ {"started"} \/ reply = "rejected"
    /\ agent = "off" <=> req \in Before \/ reply = "rejected"
    /\ req = "started" \/ agent = "running" => status = "running"
    /\ agent \in {"unwinding", "unregistering", "gone"} => IsTerminated
    /\ req \in Reads => cur \in Subscribers

\* What the registries hold.
Registered ==
    /\ agent = "off" => ~execReg
    /\ agent \in {"running", "unwinding"} => execReg
    /\ agent \notin {"unregistering", "gone"} => regTimer = 0
    /\ req \in {"registered", "started"} \/ agent \in {"running", "unwinding", "unregistering"} =>
         taskReg \/ canceller = "holding" \/ execCtx = "done"
    /\ taskReg \/ canceller = "holding" => execCtx # "nil"
    /\ canceller = "holding" => ~taskReg
    /\ hasStore /\ taskReg => execCtx = "live"

TaskInv == TaskTypes /\ Phase /\ Registered

LEMMA TaskInvInit == TaskInit => TaskInv
  <1> SUFFICES ASSUME TaskInit PROVE TaskInv
    OBVIOUS
  <1>1. TaskTypes
    <2>1. taskReg \in BOOLEAN /\ execReg \in BOOLEAN /\ hasStore \in BOOLEAN
      BY Zenon DEF TaskInit, Init
    <2> QED
      BY <2>1, TaskAssumption DEF TaskInit, Init, TaskTypes, Before
  <1>2. Phase
    BY DEF TaskInit, Init, Phase, Before, Reads, IsTerminated
  <1>3. Registered
    BY DEF TaskInit, Init, Registered
  <1> QED
    BY <1>1, <1>2, <1>3 DEF TaskInv

\* What a step of the executor does to the variables Phase speaks of.
LEMMA StatusOfEnd ==
    ASSUME NEW st \in {"completed", "failed", "cancelled"}, End(st)
    PROVE  status' = st /\ IsTerminated' /\ UNCHANGED ctxVars
  BY DEF End, Finish, IsTerminated

LEMMA RequestKeeps ==
    ASSUME TaskInv, RequestSteps \/ RequestCtxDone
    PROVE  TaskInv'
  <1> USE DEF TaskInv, TaskTypes, Phase, Registered, Before, Reads, IsTerminated,
              vars, ctxVars, resultVars, reqVars, regVars
  <1>1. CASE Build
    BY <1>1 DEF Build
  <1>2. CASE RegisterTask
    <2>1. UNCHANGED <<status, hasStore, ctx, mode, cur, reply, agent, execReg, regTimer, canceller>>
          /\ execCtx' = (IF hasStore THEN "live" ELSE ctx) /\ taskReg' = TRUE
          /\ req = "built" /\ req' = "registered"
      BY <1>2 DEF RegisterTask, SetExecContext
    <2> QED
      BY <2>1
  <1>3. CASE StartTask
    <2>1. status' = "running" /\ UNCHANGED <<ctxVars, mode, cur, reply, agent, regVars>>
          /\ req = "registered" /\ req' = "started"
      BY <1>3 DEF StartTask, Start
    <2> QED
      BY <2>1
  <1>4. CASE Launch
    BY <1>4 DEF Launch
  <1>5. CASE Open
    <2>1. UNCHANGED <<status, ctxVars, mode, reply, agent, regVars>> /\ cur' \in Subscribers
          /\ req \in {"launched", "drained"} /\ req' \in Reads
      BY <1>5 DEF Open, Subscribe
    <2> QED
      BY <2>1
  <1>6. CASE Read
    <2>1. UNCHANGED <<status, ctxVars, reqVars, agent, regVars>>
      BY <1>6 DEF Read, Receive
    <2> QED
      BY <2>1
  <1>7. CASE StreamEnds \/ StreamLeaves
    BY <1>7 DEF StreamEnds, StreamLeaves
  <1>8. CASE ExecuteReturns \/ BlockingReply
    BY <1>8 DEF ExecuteReturns, BlockingReply
  <1>9. CASE RequestCtxDone
    <2>1. UNCHANGED <<status, hasStore, reqVars, agent, regVars>> /\ ctx' = "done"
          /\ execCtx' = (IF execCtx = "live" /\ ~hasStore THEN "done" ELSE execCtx)
      BY <1>9 DEF RequestCtxDone, CtxDone
    <2> QED
      BY <2>1
  <1> QED
    BY <1>1, <1>2, <1>3, <1>4, <1>5, <1>6, <1>7, <1>8, <1>9 DEF RequestSteps

LEMMA AgentKeeps ==
    ASSUME TaskInv,
           (\E type \in ContentTypes : AgentPublish(type)) \/ AgentReturns \/ ArmUnregister \/ UnregisterTask
    PROVE  TaskInv'
  <1> USE DEF TaskInv, TaskTypes, Phase, Registered, Before, Reads, IsTerminated,
              vars, ctxVars, resultVars, reqVars, regVars
  <1>1. ASSUME NEW type \in ContentTypes, AgentPublish(type)
        PROVE  TaskInv'
    <2>1. UNCHANGED <<status, ctxVars, reqVars, agent, regVars>>
      BY <1>1 DEF AgentPublish, Publish
    <2> QED
      BY <2>1
  <1>2. CASE AgentReturns
    <2>1. PICK st \in {"completed", "failed", "cancelled"} : End(st)
      BY <1>2 DEF AgentReturns, AgentCompletes, AgentFails, AgentCancelled, Complete, Fail, Cancel
    <2>2. agent = "running" /\ agent' = "unwinding" /\ UNCHANGED <<reqVars, regVars>>
      BY <1>2 DEF AgentReturns, AgentCompletes, AgentFails, AgentCancelled
    <2> QED
      BY <2>1, <2>2, StatusOfEnd
  <1>3. CASE ArmUnregister
    BY <1>3, TaskAssumption DEF ArmUnregister
  <1>4. CASE UnregisterTask
    <2>1. TaskTypes'
      BY <1>4 DEF UnregisterTask
    <2>2. Phase'
      BY <1>4 DEF UnregisterTask
    <2>3. Registered'
      BY <1>4 DEF UnregisterTask
    <2> QED
      BY <2>1, <2>2, <2>3
  <1> QED
    BY <1>1, <1>2, <1>3, <1>4

LEMMA OthersKeep ==
    ASSUME TaskInv, CancelLoads \/ CancelCalls \/ Clock \/ OtherReader \/ UNCHANGED taskVars
    PROVE  TaskInv'
  <1> USE DEF TaskInv, TaskTypes, Phase, Registered, Before, Reads, IsTerminated,
              vars, ctxVars, resultVars, reqVars, regVars
  <1>1. CASE CancelLoads
    <2>1. TaskTypes'
      BY <1>1 DEF CancelLoads
    <2>2. Phase'
      BY <1>1 DEF CancelLoads
    <2>3. Registered'
      BY <1>1 DEF CancelLoads
    <2> QED
      BY <2>1, <2>2, <2>3
  <1>2. CASE CancelCalls
    <2>1. UNCHANGED <<status, hasStore, ctx, reqVars, agent, taskReg, execReg, regTimer>>
          /\ execCtx' = (IF execCtx = "live" THEN "done" ELSE execCtx)
          /\ canceller = "holding" /\ canceller' = "idle"
      BY <1>2 DEF CancelCalls, ExecCtxDone
    <2> QED
      BY <2>1
  <1>3. CASE Clock
    <2>1. UNCHANGED <<status, ctxVars, reqVars, agent, taskReg, canceller>>
          /\ regTimer' = (IF regTimer = 0 THEN 0 ELSE regTimer - 1)
          /\ execReg' = (execReg /\ regTimer # 1)
      BY <1>3 DEF Clock, Tick
    <2> QED
      BY <2>1, TaskAssumption
  <1>4. CASE OtherReader
    <2>1. UNCHANGED <<status, ctxVars, reqVars, agent, regVars>>
      BY <1>4 DEF OtherReader, Subscribe, Receive
    <2> QED
      BY <2>1
  <1>5. CASE UNCHANGED taskVars
    BY <1>5 DEF taskVars
  <1> QED
    BY <1>1, <1>2, <1>3, <1>4, <1>5

LEMMA TaskInvNext == TaskInv /\ Move => TaskInv'
  BY RequestKeeps, AgentKeeps, OthersKeep DEF Move, TaskNext

-----------------------------------------------------------------------------
\* The task calls the executor as its contract asks.
LEMMA MoveIsStep == TaskInv /\ Move => [Next]_vars
  <1> SUFFICES ASSUME TaskInv, Move PROVE [Next]_vars
    OBVIOUS
  <1> USE DEF vars
  <1>1. CASE Build \/ Launch \/ StreamEnds \/ StreamLeaves \/ ExecuteReturns \/ BlockingReply
             \/ ArmUnregister \/ UnregisterTask \/ CancelLoads
    BY <1>1 DEF Build, Launch, StreamEnds, StreamLeaves, ExecuteReturns, BlockingReply,
                ArmUnregister, UnregisterTask, CancelLoads
  <1>2. CASE RegisterTask
    <2>1. execCtx = "nil" /\ \E c \in {"live", ctx} : SetExecContext(c)
      BY <1>2 DEF RegisterTask, TaskInv, Phase
    <2> QED
      BY <2>1 DEF SetExecContextOnce, Next
  <1>3. CASE StartTask
    <2>1. status = "pending" /\ Start
      BY <1>3 DEF StartTask, TaskInv, Phase, Before
    <2> QED
      BY <2>1 DEF StartOnce, Next
  <1>4. CASE Open \/ OtherReader
    BY <1>4 DEF Open, OtherReader, Next
  <1>5. CASE Read
    BY <1>5 DEF Read, Reads, TaskInv, Phase, Next
  <1>6. CASE RequestCtxDone
    BY <1>6 DEF RequestCtxDone, Next
  <1>7. ASSUME NEW type \in ContentTypes, AgentPublish(type)
        PROVE  Next
    <2>1. PublishRunning(type)
      BY <1>7 DEF AgentPublish, PublishRunning, TaskInv, Phase
    <2> QED
      BY <2>1 DEF Next
  <1>8. CASE AgentReturns
    BY <1>8 DEF AgentReturns, AgentCompletes, AgentFails, AgentCancelled, Next
  <1>9. CASE CancelCalls
    BY <1>9 DEF CancelCalls, Next
  <1>10. CASE Clock
    BY <1>10 DEF Clock, Next
  <1>11. CASE UNCHANGED taskVars
    BY <1>11 DEF taskVars
  <1> QED
    BY <1>1, <1>2, <1>3, <1>4, <1>5, <1>6, <1>7, <1>8, <1>9, <1>10, <1>11
    DEF Move, TaskNext, RequestSteps

\* The orchestrator, the agent goroutine and the cancel requests keep the
\* contract no method of the executor checks: in every interleaving the executor
\* is started once, and nothing is published before the start or after the end.
THEOREM ContractKept == TaskSpec => ExecutorContract
  <1>1. TaskInit => TaskInv /\ Init
    BY TaskInvInit DEF TaskInit
  <1>2. [TaskNext]_taskVars => Move
    BY DEF Move
  <1> QED
    BY <1>1, <1>2, TaskInvNext, MoveIsStep, PTL DEF TaskSpec, ExecutorContract, Spec

-----------------------------------------------------------------------------
(***************************************************************************)
(* Replies.  They are read off an execution that has ended, which nothing  *)
(* changes any more; the channel of a stream that ended at its close stays *)
(* closed and drained.                                                     *)
(***************************************************************************)
Answers ==
    /\ reply = "success"  => status = "completed" /\ output \in Outputs
    /\ reply = "error"    => status = "failed" /\ err \in Errors
    /\ reply = "nooutput" => status = "cancelled"
    /\ reply = "streamed" => cur \in Subscribers /\ Drained(cur)

FullInv == TaskInv /\ DrainInv /\ StoredInv /\ Answers

LEMMA FullInit == TaskInit => FullInv
  <1> SUFFICES ASSUME TaskInit PROVE FullInv
    OBVIOUS
  <1>1. Init /\ TaskInv /\ reply = "none"
    BY TaskInvInit DEF TaskInit
  <1> QED
    BY <1>1, DrainInit, StoredInit DEF FullInv, Answers

\* A reader that has drained its channel may rely on the end of the execution.
LEMMA DrainedMeansEnded ==
    ASSUME DrainInv, NEW s \in Subscribers, Drained(s)
    PROVE  IsTerminated
  BY DEF DrainInv, ChannelInv, ClosedIffEnded, Drained

\* What was answered stays true of an ended execution.
LEMMA AnswersStay ==
    ASSUME FullInv, Move, UNCHANGED <<reply, cur>>
    PROVE  Answers'
  <1>1. TypeOK /\ [Next]_vars
    BY MoveIsStep DEF FullInv, StoredInv
  <1>2. CASE reply \in {"success", "error", "nooutput"}
    <2>1. IsTerminated
      BY <1>2 DEF FullInv, Answers, IsTerminated
    <2>2. UNCHANGED <<status, output, err>>
      BY <1>1, <2>1, FinalStep
    <2> QED
      BY <1>2, <2>2 DEF FullInv, Answers
  <1>3. CASE reply = "streamed"
    <2>1. cur \in Subscribers /\ Drained(cur) /\ IsTerminated
      BY <1>3, DrainedMeansEnded DEF FullInv, Answers
    <2>2. chst'[cur] = "closed" /\ Len(buf'[cur]) <= Len(buf[cur])
      BY <1>1, <2>1, FinalStep DEF Drained
    <2>3. buf'[cur] = <<>>
      <3>1. buf'[cur] \in Seq(Events)
        BY <1>1, <2>1, NextType DEF TypeOK
      <3> QED
        BY <2>1, <2>2, <3>1 DEF Drained
    <2> QED
      BY <1>3, <2>1, <2>2, <2>3 DEF Answers, Drained
  <1>4. CASE reply \notin {"success", "error", "nooutput", "streamed"}
    BY <1>4 DEF Answers
  <1> QED
    BY <1>2, <1>3, <1>4

LEMMA AnswersNext ==
    ASSUME FullInv, Move
    PROVE  Answers'
  <1>1. CASE Build \/ StreamLeaves
    BY <1>1, AnswersStay DEF Build, StreamLeaves, Answers, vars, resultVars
  <1>2. CASE StreamEnds
    <2>1. cur \in Subscribers /\ Drained(cur)
      BY <1>2 DEF StreamEnds, FullInv, TaskInv, Phase, Reads
    <2> QED
      BY <1>2, <2>1 DEF StreamEnds, Answers, Drained, vars, channelVars
  <1>3. CASE ExecuteReturns \/ BlockingReply
    <2>1. /\ UNCHANGED vars /\ cur \in Subscribers /\ Drained(cur)
          /\ reply' \in {reply, "error", "success", "nooutput"}
          /\ reply = "none"
          /\ reply' = "error" => err # NoError
          /\ reply' = "success" => output # NoOutput
          /\ reply' = "nooutput" => output = NoOutput /\ err = NoError
      BY <1>3 DEF ExecuteReturns, BlockingReply, FullInv, TaskInv, Phase, Reads
    <2>2. IsTerminated
      BY <2>1, DrainedMeansEnded DEF FullInv
    <2>3. (output # NoOutput <=> status = "completed") /\ (err # NoError <=> status = "failed")
      BY DEF FullInv, DrainInv, OutcomeInv, OneOutcome
    <2>4. output \in Outputs \cup {NoOutput} /\ err \in Errors \cup {NoError}
      BY DEF FullInv, StoredInv, TypeOK
    <2> QED
      BY <2>1, <2>2, <2>3, <2>4 DEF Answers, IsTerminated, vars, resultVars
  <1>4. CASE Open
    <2>1. reply = "none" /\ reply' = reply
      BY <1>4 DEF Open, FullInv, TaskInv, Phase
    <2> QED
      BY <2>1 DEF Answers
  <1>5. CASE UNCHANGED <<reply, cur>>
    BY <1>5, AnswersStay
  <1> QED
    BY <1>1, <1>2, <1>3, <1>4, <1>5
    DEF Move, TaskNext, RequestSteps, RegisterTask, StartTask, Launch, Read, RequestCtxDone, AgentPublish,
        AgentReturns, AgentCompletes, AgentFails, AgentCancelled, ArmUnregister, UnregisterTask,
        CancelLoads, CancelCalls, Clock, OtherReader, reqVars, taskVars

LEMMA FullNext == FullInv /\ Move => FullInv'
  BY TaskInvNext, MoveIsStep, DrainNext, StoredNext, AnswersNext DEF FullInv

LEMMA TaskInvariant == TaskSpec => []FullInv
  <1>1. [TaskNext]_taskVars => Move
    BY DEF Move
  <1> QED
    BY <1>1, FullInit, FullNext, PTL DEF TaskSpec

LEMMA TaskTypesHold == FullInv => TaskTypeOK
  BY DEF FullInv, StoredInv, TaskInv, TaskTypes, TaskTypeOK, Before, Reads

\* Every variable of a task keeps its type.
THEOREM TaskTypeCorrect == TaskSpec => []TaskTypeOK
  BY TaskTypesHold, TaskInvariant, PTL

\* A blocking reply tells the outcome the execution really had, however the
\* agent, a cancel and the two drained channels interleave.
THEOREM BlockingTellsTruth == TaskSpec => []BlockingReplyTruthful
  <1>1. FullInv => BlockingReplyTruthful
    BY DEF FullInv, Answers, BlockingReplyTruthful
  <1> QED
    BY <1>1, TaskInvariant, PTL

\* A stream that ended at the close of its channel told the client the outcome,
\* but for a full channel or a cancellation before the handler subscribed.
THEOREM StreamToldOutcome == TaskSpec => []StreamTellsOutcome
  <1>1. FullInv => StreamTellsOutcome
    <2> SUFFICES ASSUME FullInv, reply = "streamed"
                 PROVE  \/ Len(emitted) \in lost[cur]
                        \/ status = "cancelled" /\ join[cur] = Len(emitted)
                        \/ /\ got[cur] # <<>>
                           /\ got[cur][Len(got[cur])].type = emitted[Len(emitted)].type
      BY DEF StreamTellsOutcome
    <2>1. cur \in Subscribers /\ Drained(cur) /\ DrainInv
      BY DEF FullInv, Answers
    <2>2. join[cur] \in Nat /\ Len(emitted) \in Nat /\ join[cur] <= Len(emitted)
      BY <2>1 DEF DrainInv, AccountInv, FeedInv, DeliveryInv, TypeOK
    <2>3. DrainedKnowsOutcome
      BY <2>1, DrainKnows
    <2> QED
      BY <2>1, <2>2, <2>3 DEF DrainedKnowsOutcome
  <1> QED
    BY <1>1, TaskInvariant, PTL

\* A running agent is found by a reconnect, and by a cancel unless it is being
\* cancelled; and no execution that has not started is found.
THEOREM AgentReachable == TaskSpec => []Reachable
  <1>1. FullInv => Reachable
    BY DEF FullInv, TaskInv, TaskTypes, Phase, Registered, Reachable, Before, IsTerminated
  <1> QED
    BY <1>1, TaskInvariant, PTL

\* With an event store nothing but a cancel ends the context of an execution.
THEOREM SurvivesClient == TaskSpec => []DetachedFromClient
  <1>1. FullInv => DetachedFromClient
    BY DEF FullInv, TaskInv, Registered, DetachedFromClient
  <1> QED
    BY <1>1, TaskInvariant, PTL

-----------------------------------------------------------------------------
(***************************************************************************)
(* Stream IDs.  A copy of an event carries its own position as its ID or   *)
(* none; a stored event whose copies carry none met a lost reply; and what *)
(* Subscribe makes up carries none.                                        *)
(***************************************************************************)
Kept == {stream[i].id : i \in 1..Len(stream)}

IDInv ==
    /\ \A n \in 1..Len(emitted) : emitted[n].sid \in {n, NoID}
    /\ \A n \in Kept : emitted[n].sid = NoID => "lostreply" \in StoreFaults
    /\ \A s \in Subscribers : \A i \in 1..Len(buf[s]) : buf[s][i].n = 0 => buf[s][i].sid = NoID

\* What every step does to the log, the store and the channels.
LogGrows ==
    /\ Len(emitted) <= Len(emitted')
    /\ \A n \in 1..Len(emitted) : emitted'[n] = emitted[n]
    /\ \A n \in Kept' : n \in Kept \/ n > Len(emitted)
    /\ \A s \in Subscribers :
          /\ lost[s] \subseteq lost'[s] /\ Brought(s) \subseteq Brought(s)'
          /\ chst[s] # "none" => chst'[s] # "none" /\ join'[s] = join[s]

LEMMA BroughtAppend ==
    ASSUME NEW s \in Subscribers, got[s] \in Seq(Events), NEW ev \in Events,
           got'[s] = Append(got[s], ev)
    PROVE  Brought(s)' = Brought(s) \cup {ev.n}
  <1>1. /\ Len(got'[s]) = Len(got[s]) + 1 /\ Len(got[s]) \in Nat
        /\ \A i \in 1..Len(got[s]) : got'[s][i] = got[s][i]
        /\ got'[s][Len(got[s]) + 1] = ev
    OBVIOUS
  <1>2. 1..Len(got'[s]) = 1..Len(got[s]) \cup {Len(got[s]) + 1}
    BY <1>1
  <1> QED
    BY <1>1, <1>2 DEF Brought

LEMMA BroadcastIDs ==
    ASSUME TypeOK, StoredWithoutHole, IDInv, NEW type \in EventTypes, NEW o \in Outcomes, Broadcast(type, o)
    PROVE  /\ IDInv'
           /\ Len(emitted) <= Len(emitted')
           /\ \A n \in 1..Len(emitted) : emitted'[n] = emitted[n]
           /\ \A n \in Kept' : n \in Kept \/ n > Len(emitted)
           /\ \A s \in Subscribers : lost[s] \subseteq lost'[s]
  <1> DEFINE n == Len(emitted) + 1
             ev == Event(n, type, ReturnedID(n, o))
             e == Entry(n, type)
  <1>1. /\ Len(emitted) \in Nat /\ Len(stream) \in Nat
        /\ stream \in Seq([id : Nat, type : EventTypes])
        /\ \A s \in Subscribers : buf[s] \in Seq(Events) /\ Len(buf[s]) \in Nat
        /\ n \in Nat \ {0} /\ n = Len(emitted) + 1
    BY DEF TypeOK
  <1>2. /\ Len(emitted') = n
        /\ \A i \in 1..Len(emitted) : emitted'[i] = emitted[i]
        /\ emitted'[n].sid = ReturnedID(n, o)
    BY BroadcastLog
  <1>3. e.id = n /\ e \in [id : Nat, type : EventTypes]
    BY <1>1 DEF Entry
  <1>4. ev.n = n /\ ev \in Events
    BY <1>1, EventType DEF Event, ReturnedID, NoID
  <1>5. stream' = stream \/ (stream' = Append(stream, e) /\ o # "fail")
    BY DEF Broadcast, StreamAfterAppend
  <1>6. \A s \in Subscribers : buf'[s] = buf[s] \/ buf'[s] = Append(buf[s], ev)
    BY DEF Broadcast, Offer
  <1>7. \A s \in Subscribers : lost[s] \subseteq lost'[s]
    BY DEF Broadcast
  <1> HIDE DEF n, ev, e
  <1>8. \A m \in Kept : m \in 1..Len(emitted)
    BY DEF Kept, StoredWithoutHole
  <1>9. \A m \in Kept' : m \in Kept \/ (m = n /\ o # "fail")
    <2>1. CASE stream' = stream
      BY <2>1 DEF Kept
    <2>2. CASE stream' = Append(stream, e) /\ o # "fail"
      <3>1. /\ Len(stream') = Len(stream) + 1
            /\ \A i \in 1..Len(stream) : stream'[i] = stream[i]
            /\ stream'[Len(stream) + 1] = e
        BY <1>1, <1>3, <2>2
      <3>2. ASSUME NEW i \in 1..Len(stream')
            PROVE  stream'[i].id \in Kept \/ stream'[i].id = n
        <4>1. CASE i \in 1..Len(stream)
          BY <3>1, <4>1 DEF Kept
        <4>2. CASE i = Len(stream) + 1
          BY <1>3, <3>1, <4>2
        <4> QED
          BY <1>1, <3>1, <4>1, <4>2
      <3> QED
        BY <2>2, <3>2 DEF Kept
    <2> QED
      BY <1>5, <2>1, <2>2
  <1>10. \A m \in 1..Len(emitted') : emitted'[m].sid \in {m, NoID}
    <2>1. emitted'[n].sid \in {n, NoID}
      BY <1>2 DEF ReturnedID
    <2> QED
      BY <1>1, <1>2, <2>1 DEF IDInv
  <1>11. \A m \in Kept' : emitted'[m].sid = NoID => "lostreply" \in StoreFaults
    <2>1. o # "fail" /\ emitted'[n].sid = NoID => "lostreply" \in StoreFaults
      <3>1. o \in {"fail", "ok"} \cup StoreFaults /\ StoreFaults \subseteq {"noexpire", "lostreply", "fail"}
        BY StoreAssumption DEF Outcomes, AppendOutcomes, Faults
      <3> QED
        BY <1>1, <1>2, <3>1 DEF ReturnedID, NoID
    <2> QED
      BY <1>2, <1>8, <1>9, <2>1 DEF IDInv
  <1>12. ASSUME NEW s \in Subscribers, NEW i \in 1..Len(buf'[s]), buf'[s][i].n = 0
         PROVE  buf'[s][i].sid = NoID
    <2>1. CASE buf'[s] = buf[s]
      BY <1>12, <2>1 DEF IDInv
    <2>2. CASE buf'[s] = Append(buf[s], ev)
      <3>1. /\ Len(buf'[s]) = Len(buf[s]) + 1
            /\ \A j \in 1..Len(buf[s]) : buf'[s][j] = buf[s][j]
            /\ buf'[s][Len(buf[s]) + 1] = ev
        BY <1>1, <1>4, <2>2
      <3>2. i \in 1..Len(buf[s])
        BY <1>1, <1>4, <1>12, <3>1
      <3> QED
        BY <1>12, <3>1, <3>2 DEF IDInv
    <2> QED
      BY <1>6, <2>1, <2>2
  <1>13. \A m \in Kept' : m \in Kept \/ m > Len(emitted)
    BY <1>1, <1>9
  <1>14. Len(emitted) <= Len(emitted')
    BY <1>1, <1>2
  <1> QED
    BY <1>2, <1>7, <1>10, <1>11, <1>12, <1>13, <1>14 DEF IDInv

LEMMA IDStep ==
    ASSUME FullInv, IDInv, [Next]_vars
    PROVE  IDInv' /\ LogGrows
  <1>1. /\ TypeOK /\ StoredWithoutHole /\ Len(emitted) \in Nat
        /\ \A s \in Subscribers : buf[s] \in Seq(Events) /\ Len(buf[s]) \in Nat
    BY DEF FullInv, StoredInv, TypeOK
  <1>2. ASSUME NEW type \in EventTypes, NEW o \in Outcomes, Broadcast(type, o),
               \A s \in Subscribers : chst[s] # "none" => chst'[s] # "none",
               UNCHANGED <<join, got>>
        PROVE  IDInv' /\ LogGrows
    BY <1>1, <1>2, BroadcastIDs DEF LogGrows, Brought
  <1>3. ASSUME NEW st \in {"completed", "failed", "cancelled"}, End(st)
        PROVE  IDInv' /\ LogGrows
    <2>1. PICK o \in Outcomes : Broadcast(TerminalOf(st), o)
      BY <1>3 DEF End, Finish
    <2>2. TerminalOf(st) \in EventTypes
      BY DEF TerminalOf, EventTypes, TerminalTypes
    <2>3. UNCHANGED <<join, got>> /\ \A s \in Subscribers : chst[s] # "none" => chst'[s] # "none"
      BY <1>3 DEF End, Finish, CloseAll, readVars
    <2> QED
      BY <1>2, <2>1, <2>2, <2>3
  <1>4. CASE StartOnce \/ \E type \in ContentTypes : PublishRunning(type)
    <2>1. PICK type \in EventTypes, o \in Outcomes : Broadcast(type, o)
      BY <1>4 DEF StartOnce, Start, PublishRunning, Publish, EventTypes
    <2>2. UNCHANGED <<join, got, chst>>
      BY <1>4 DEF StartOnce, Start, PublishRunning, Publish, readVars
    <2> QED
      BY <1>2, <2>1, <2>2
  <1>5. CASE (\E out \in Outputs : Complete(out)) \/ (\E e \in Errors : Fail(e)) \/ Cancel
    BY <1>3, <1>5 DEF Complete, Fail, Cancel
  <1>6. ASSUME NEW t \in Subscribers, Subscribe(t)
        PROVE  IDInv' /\ LogGrows
    <2>1. /\ UNCHANGED <<emitted, stream, lost, got>> /\ chst[t] = "none" /\ buf'[t] = Replay
          /\ \A s \in Subscribers \ {t} : chst'[s] = chst[s] /\ join'[s] = join[s] /\ buf'[s] = buf[s]
      BY <1>1, <1>6 DEF Subscribe, logVars, storeVars, TypeOK
    <2>2. \A i \in 1..Len(Replay) : Replay[i].sid = NoID
      BY DEF Replay, Synthetic, Event
    <2> QED
      BY <1>1, <2>1, <2>2 DEF IDInv, LogGrows, Kept, Brought
  <1>7. ASSUME NEW t \in Subscribers, Receive(t)
        PROVE  IDInv' /\ LogGrows
    <2>1. /\ UNCHANGED <<emitted, stream, lost, chst, join>> /\ buf[t] # <<>> /\ buf'[t] = Tail(buf[t])
          /\ got'[t] = Append(got[t], Head(buf[t])) /\ got[t] \in Seq(Events)
          /\ \A s \in Subscribers \ {t} : buf'[s] = buf[s] /\ got'[s] = got[s]
      BY <1>1, <1>7 DEF Receive, logVars, storeVars, TypeOK
    <2>2. \A i \in 1..Len(Tail(buf[t])) : Tail(buf[t])[i] = buf[t][i + 1] /\ i + 1 \in 1..Len(buf[t])
      BY <1>1, <2>1
    <2>3. ASSUME NEW s \in Subscribers, NEW i \in 1..Len(buf'[s]), buf'[s][i].n = 0
          PROVE  buf'[s][i].sid = NoID
      <3>1. CASE s = t
        <4>1. buf'[t][i] = buf[t][i + 1] /\ i + 1 \in 1..Len(buf[t])
          BY <2>1, <2>2, <2>3, <3>1
        <4> QED
          BY <2>3, <3>1, <4>1 DEF IDInv
      <3>2. CASE s # t
        BY <2>1, <2>3, <3>2 DEF IDInv
      <3> QED
        BY <3>1, <3>2
    <2>4. \A s \in Subscribers : Brought(s) \subseteq Brought(s)'
      <3>1. Head(buf[t]) \in Events
        BY <1>1, <2>1
      <3>2. Brought(t) \subseteq Brought(t)'
        BY <2>1, <3>1, BroughtAppend
      <3> QED
        BY <2>1, <3>2 DEF Brought
    <2>5. LogGrows
      BY <1>1, <2>1, <2>4 DEF LogGrows, Kept
    <2> QED
      BY <2>1, <2>3, <2>5 DEF IDInv, Kept
  <1>8. CASE Tick
    <2>1. UNCHANGED <<emitted, lost, chst, join, buf, got>> /\ stream' \in {<<>>, stream}
      BY <1>8 DEF Tick, StoreTick, logVars, channelVars, readVars
    <2> QED
      BY <1>1, <2>1 DEF IDInv, LogGrows, Kept, Brought
  <1>9. CASE SetExecContextOnce \/ CtxDone \/ ExecCtxDone \/ UNCHANGED vars
    <2>1. UNCHANGED <<emitted, lost, chst, join, buf, got, stream>>
      BY <1>9 DEF SetExecContextOnce, SetExecContext, CtxDone, ExecCtxDone, vars,
         logVars, storeVars, channelVars, readVars
    <2> QED
      BY <1>1, <2>1 DEF IDInv, LogGrows, Kept, Brought
  <1> QED
    BY <1>4, <1>5, <1>6, <1>7, <1>8, <1>9 DEF Next
-----------------------------------------------------------------------------
(***************************************************************************)
(* Reading.  What comes next off a channel is later than all it has given, *)
(* and what lies between the subscription and it was given or met a full   *)
(* channel.                                                                *)
(***************************************************************************)
LEMMA NextOnChannel ==
    ASSUME FullInv, IDInv, NEW s \in Subscribers, buf[s] # <<>>
    PROVE  /\ Head(buf[s]) \in Events
           /\ Head(buf[s]).n = 0 => Head(buf[s]).sid = NoID
           /\ Head(buf[s]).n # 0 => /\ Head(buf[s]).n \in (join[s] + 1)..Len(emitted)
                                    /\ Head(buf[s]) = emitted[Head(buf[s]).n]
                                    /\ Head(buf[s]).sid \in {Head(buf[s]).n, NoID}
           /\ \A m \in Positions(got[s]) : m \in (join[s] + 1)..Len(emitted) /\ m < Head(buf[s]).n
           /\ \A m \in (join[s] + 1)..(Head(buf[s]).n - 1) : m \in lost[s] \cup Positions(got[s])
  <1> DEFINE ev == Head(buf[s])
  <1>1. /\ TypeOK /\ DeliveryInv(s) /\ Len(emitted) \in Nat /\ join[s] \in Nat
        /\ buf[s] \in Seq(Events) /\ Len(buf[s]) \in Nat \ {0}
        /\ ev = buf[s][1] /\ ev \in Events /\ 1 \in 1..Len(buf[s])
    BY DEF FullInv, DrainInv, AccountInv, FeedInv, TypeOK
  <1> HIDE DEF ev
  <1>2. ev.n \in Nat
    BY <1>1 DEF Events
  <1>3. ev.n = 0 => ev.sid = NoID
    BY <1>1 DEF IDInv
  <1>4. ev.n # 0 => ev.n \in (join[s] + 1)..Len(emitted) /\ ev = emitted[ev.n]
    BY <1>1 DEF DeliveryInv, Genuine
  <1>5. ev.n # 0 => ev.sid \in {ev.n, NoID}
    <2>1. ev.n # 0 => ev.n \in 1..Len(emitted)
      BY <1>1, <1>4
    <2> QED
      BY <1>4, <2>1 DEF IDInv
  <1>6. ASSUME NEW m \in Positions(got[s])
        PROVE  m \in (join[s] + 1)..Len(emitted) /\ m < ev.n
    <2>1. PICK i \in 1..Len(got[s]) : got[s][i].n = m /\ m # 0
      BY DEF Positions
    <2> QED
      BY <1>1, <2>1 DEF DeliveryInv, Genuine
  <1>7. ASSUME NEW m \in (join[s] + 1)..(ev.n - 1)
        PROVE  m \in lost[s] \cup Positions(got[s])
    <2>1. join[s] < Len(emitted) /\ m \in (join[s] + 1)..Len(emitted)
      BY <1>1, <1>2, <1>4, <1>7
    <2>2. s \in reg
      <3> SUFFICES ASSUME s \notin reg PROVE FALSE
        OBVIOUS
      <3>1. chst[s] # "none" /\ chst[s] # "open"
        BY <1>1 DEF DeliveryInv, FullInv, DrainInv, ChannelInv, OpenIsRegistered
      <3>2. chst[s] = "closed"
        BY <1>1, <3>1 DEF TypeOK
      <3> QED
        BY <1>1, <2>1, <3>2 DEF FullInv, DrainInv, Late
    <2>3. m \in lost[s] \cup Positions(got[s]) \cup Positions(buf[s])
      BY <1>1, <2>1, <2>2, SeenParts DEF FullInv, DrainInv, AccountInv, Accounted
    <2>4. m \notin Positions(buf[s])
      <3> SUFFICES ASSUME NEW j \in 1..Len(buf[s]), buf[s][j].n = m PROVE FALSE
        BY DEF Positions
      <3>1. CASE j = 1
        BY <1>1, <1>2, <1>7, <3>1
      <3>2. CASE 1 < j
        BY <1>1, <1>2, <1>7, <3>2 DEF DeliveryInv, Ordered
      <3> QED
        BY <1>1, <3>1, <3>2
    <2> QED
      BY <2>3, <2>4
  <1> QED
    BY <1>1, <1>3, <1>4, <1>5, <1>6, <1>7 DEF ev

LEMMA LeastNat ==
    ASSUME NEW S, S \subseteq Nat, S # {}
    PROVE  \E k \in S : \A m \in S : k <= m
  <1> DEFINE Less == {p \in Nat \X Nat : p[1] < p[2]}
  <1>1. IsWellFoundedOn(Less, Nat)
    BY NatLessThanWellFounded DEF OpToRel
  <1> HIDE DEF Less
  <1>2. \E k \in S : \A m \in S : ~(<<m, k>> \in Less)
    BY <1>1, WFMin, Zenon
  <1>3. PICK k \in S : \A m \in S : ~(<<m, k>> \in Less)
    BY <1>2
  <1> QED
    <2>1. ASSUME NEW m \in S, m < k
          PROVE  <<m, k>> \in Less
      BY <2>1 DEF Less
    <2>2. \A m \in S : ~(m < k)
      BY <1>3, <2>1
    <2> QED
      BY <1>3, <2>2

\* The store keeps the order of the log.
LEMMA StoreOrdered ==
    ASSUME TypeOK, StoredWithoutHole
    PROVE  /\ Len(stream) \in Nat /\ stream \in Seq([id : Nat, type : EventTypes])
           /\ \A i \in 1..Len(stream) : stream[i].id \in Nat
           /\ \A i, j \in 1..Len(stream) : i < j => stream[i].id < stream[j].id
  <1>1. Len(stream) \in Nat /\ stream \in Seq([id : Nat, type : EventTypes])
    BY DEF TypeOK
  <1>2. \A i \in 1..Len(stream) : stream[i].id \in Nat
    <2>1. \A i \in 1..Len(stream) : stream[i] \in [id : Nat, type : EventTypes]
      BY <1>1, ElementOfSeq
    <2> QED
      BY <2>1
  <1>3. ASSUME NEW i \in 1..Len(stream), NEW j \in 1..Len(stream), i < j
        PROVE  stream[i].id < stream[j].id
    <2>1. i \in 1..(j - 1)
      BY <1>1, <1>3
    <2> QED
      BY <2>1 DEF StoredWithoutHole
  <1> QED
    BY <1>1, <1>2, <1>3

\* Entries are read from the first that is after lastID.
LEMMA PassedIs ==
    ASSUME TypeOK, StoredWithoutHole, NEW id \in Nat
    PROVE  /\ Passed(id) \in 0..Len(stream)
           /\ \A i \in 1..Len(stream) : stream[i].id <= id <=> i <= Passed(id)
  <1> DEFINE after(k) == \A i \in 1..Len(stream) : stream[i].id <= id => i <= k
             S == {k \in Nat : after(k)}
  <1>1. /\ Len(stream) \in Nat
        /\ \A i \in 1..Len(stream) : stream[i].id \in Nat
        /\ \A i, j \in 1..Len(stream) : i < j => stream[i].id < stream[j].id
    BY StoreOrdered
  <1>2. PICK k \in S : \A m \in S : k <= m
    <2>1. Len(stream) \in S
      BY <1>1
    <2> HIDE DEF S
    <2>2. S \subseteq Nat
      BY DEF S
    <2> QED
      BY <2>1, <2>2, LeastNat
  <1>4. k \in Nat /\ k <= Len(stream) /\ after(k)
    <2>1. Len(stream) \in S
      BY <1>1
    <2> QED
      BY <1>1, <1>2, <2>1
  <1>5. ASSUME NEW i \in 1..Len(stream), i <= k
        PROVE  stream[i].id <= id
    <2>1. k - 1 \notin S
      <3>1. ~(k <= k - 1)
        BY <1>4
      <3> HIDE DEF S
      <3> QED
        BY <1>2, <3>1
    <2>2. k - 1 \in Nat
      BY <1>1, <1>4, <1>5
    <2>3. PICK j \in 1..Len(stream) : stream[j].id <= id /\ ~(j <= k - 1)
      BY <2>1, <2>2
    <2>4. j = k
      BY <1>1, <1>4, <2>3
    <2> QED
      BY <1>1, <1>5, <2>3, <2>4
  <1>6. \E p \in 0..Len(stream) : \A i \in 1..Len(stream) : stream[i].id <= id <=> i <= p
    <2>1. k \in 0..Len(stream)
      BY <1>1, <1>4
    <2>2. \A i \in 1..Len(stream) : stream[i].id <= id <=> i <= k
      BY <1>4, <1>5
    <2> QED
      BY <2>1, <2>2
  <1> QED
    BY <1>6 DEF Passed

\* What a reconnect replays: the entries after lastID in order, up to the COUNT.
IDs(q) == {q[i].id : i \in 1..Len(q)}

LEMMA WhatIsRead ==
    ASSUME TypeOK, StoredWithoutHole, NEW id \in Nat, NEW count \in Nat \ {0}
    PROVE  LET c == ReadAfter(id, count)
           IN  /\ c \in Seq([id : Nat, type : EventTypes])
               /\ \A n \in IDs(c) : n \in Kept /\ n > id
               /\ \A i, j \in 1..Len(c) : i < j => c[i].id < c[j].id
               /\ \A n \in Kept : n > id => n \in IDs(c) \/ (n \in LeftOut(id, count) /\ \A m \in IDs(c) : m < n)
               /\ LeftOut(id, count) \subseteq Kept
  <1> DEFINE p == Passed(id)
             last == IF p + count < Len(stream) THEN p + count ELSE Len(stream)
             c == SubSeq(stream, p + 1, last)
  <1>1. /\ Len(stream) \in Nat /\ stream \in Seq([id : Nat, type : EventTypes])
        /\ \A i \in 1..Len(stream) : stream[i].id \in Nat
        /\ \A i, j \in 1..Len(stream) : i < j => stream[i].id < stream[j].id
    BY StoreOrdered
  <1>2. p \in 0..Len(stream) /\ \A i \in 1..Len(stream) : stream[i].id <= id <=> i <= p
    BY PassedIs
  <1>3. c = ReadAfter(id, count)
    BY DEF ReadAfter
  <1> HIDE DEF p
  <1>4. last \in Nat /\ p <= last /\ last <= Len(stream) /\ (last < Len(stream) => last = p + count)
    BY <1>1, <1>2
  <1> HIDE DEF last
  <1>5. /\ c \in Seq([id : Nat, type : EventTypes])
        /\ Len(c) = last - p
        /\ \A i \in 1..Len(c) : c[i] = stream[p + i] /\ p + i \in 1..last
    <2>1. \A i \in (p + 1)..last : stream[i] \in [id : Nat, type : EventTypes]
      <3>1. \A i \in (p + 1)..last : i \in 1..Len(stream)
        BY <1>2, <1>4
      <3>2. \A i \in 1..Len(stream) : stream[i] \in [id : Nat, type : EventTypes]
        BY <1>1, ElementOfSeq
      <3> QED
        BY <3>1, <3>2
    <2>2. p + 1 \in Int /\ last \in Int
      BY <1>2, <1>4
    <2>3. /\ c \in Seq([id : Nat, type : EventTypes])
          /\ Len(c) = (IF p + 1 <= last THEN last - (p + 1) + 1 ELSE 0)
          /\ \A i \in 1..(last - (p + 1) + 1) : c[i] = stream[(p + 1) + i - 1]
      BY <2>1, <2>2, SubSeqProperties
    <2> HIDE DEF c
    <2>4. Len(c) = last - p
      BY <1>2, <1>4, <2>3
    <2>5. ASSUME NEW i \in 1..Len(c)
          PROVE  c[i] = stream[p + i] /\ p + i \in 1..last
      <3>1. i \in 1..(last - (p + 1) + 1) /\ (p + 1) + i - 1 = p + i /\ p + i \in 1..last
        BY <1>2, <1>4, <2>4, <2>5
      <3> QED
        BY <2>3, <3>1
    <2> QED
      BY <2>3, <2>4, <2>5
  <1> HIDE DEF c
  <1>6. ASSUME NEW n \in IDs(c)
        PROVE  n \in Kept /\ n > id
    <2>1. PICK i \in 1..Len(c) : c[i].id = n
      BY DEF IDs
    <2>2. stream[p + i].id = n /\ p + i \in 1..last
      BY <1>5, <2>1
    <2>3. p + i \in 1..Len(stream) /\ ~(p + i <= p) /\ i \in Nat
      BY <1>1, <1>2, <1>4, <1>5, <2>1, <2>2
    <2>4. stream[p + i].id \in Nat
      BY <1>1, <2>3
    <2> QED
      BY <1>2, <2>2, <2>3, <2>4 DEF Kept
  <1>7. ASSUME NEW i \in 1..Len(c), NEW j \in 1..Len(c), i < j
        PROVE  c[i].id < c[j].id
    <2>1. c[i] = stream[p + i] /\ c[j] = stream[p + j] /\ p + i \in 1..last /\ p + j \in 1..last
      BY <1>5
    <2>2. p + j \in 1..Len(stream) /\ p + i \in 1..Len(stream) /\ p + i < p + j
      BY <1>2, <1>4, <1>7, <2>1
    <2>3. stream[p + i].id < stream[p + j].id
      BY <1>1, <2>2
    <2> QED
      BY <2>1, <2>3
  <1>8. ASSUME NEW n \in Kept, n > id
        PROVE  n \in IDs(c) \/ (n \in LeftOut(id, count) /\ \A m \in IDs(c) : m < n)
    <2>1. PICK k \in 1..Len(stream) : stream[k].id = n
      BY DEF Kept
    <2>2. p < k
      <3>1. ~(stream[k].id <= id)
        BY <1>1, <1>8, <2>1
      <3>2. ~(k <= p)
        BY <1>2, <3>1
      <3> QED
        BY <1>2, <3>2
    <2>3. CASE k <= last
      <3>1. k - p \in 1..Len(c) /\ c[k - p] = stream[p + (k - p)] /\ p + (k - p) = k
        BY <1>1, <1>2, <1>4, <1>5, <2>2, <2>3
      <3> QED
        BY <2>1, <3>1 DEF IDs
    <2>4. CASE last < k
      <3>1. n \in LeftOut(id, count)
        <4>1. k \in (p + count + 1)..Len(stream)
          BY <1>1, <1>2, <1>4, <2>4
        <4> QED
          BY <2>1, <4>1 DEF LeftOut, p
      <3>2. ASSUME NEW m \in IDs(c)
            PROVE  m < n
        <4>1. PICK i \in 1..Len(c) : c[i].id = m
          BY DEF IDs
        <4>2. c[i] = stream[p + i] /\ p + i \in 1..(k - 1)
          BY <1>1, <1>2, <1>4, <1>5, <2>4
        <4> QED
          BY <1>1, <2>1, <4>1, <4>2
      <3> QED
        BY <3>1, <3>2
    <2> QED
      BY <1>4, <2>3, <2>4
  <1>9. LeftOut(id, count) \subseteq Kept
    <2>1. LeftOut(id, count) = {stream[i].id : i \in (p + count + 1)..Len(stream)}
      BY DEF LeftOut, p
    <2>2. \A i \in (p + count + 1)..Len(stream) : i \in 1..Len(stream)
      BY <1>1, <1>2
    <2> QED
      BY <2>1, <2>2 DEF Kept
  <1> QED
    BY <1>3, <1>5, <1>6, <1>7, <1>8, <1>9
-----------------------------------------------------------------------------
(***************************************************************************)
(* Digits.  The library's theorems on recursive functions take the         *)
(* recursion as an operator, which the provers cannot instantiate: that    *)
(* Digits satisfies its equation is shown here, by functions that satisfy  *)
(* it up to a bound.                                                       *)
(***************************************************************************)
DigitsOf(f, k) == IF k < Radix THEN <<k>> ELSE Append(f[k \div Radix], k % Radix)

DigitsUpTo(n) ==
    {f \in [0..n -> Seq(Nat)] : \A k \in 0..n : f[k] = DigitsOf(f, k)}

LEMMA DivSmaller ==
    ASSUME NEW k \in Nat, k >= Radix
    PROVE  k \div Radix \in Nat /\ k \div Radix < k /\ k % Radix \in Nat
  <1>1. Radix \in Nat /\ Radix >= 2
    BY ReconnectAssumption
  <1>2. /\ k = Radix * (k \div Radix) + (k % Radix)
        /\ k \div Radix \in Int /\ k % Radix \in 0..(Radix - 1)
    BY <1>1
  <1>3. k \div Radix >= 0
    BY <1>1
  <1>4. Radix * (k \div Radix) >= 2 * (k \div Radix)
    BY <1>1, <1>2, <1>3
  <1>5. k \div Radix < k
    BY <1>1, <1>2, <1>3, <1>4
  <1> QED
    BY <1>1, <1>2, <1>3, <1>5

LEMMA DigitsUnique ==
    ASSUME NEW m \in Nat, NEW n \in Nat, NEW f \in DigitsUpTo(m), NEW g \in DigitsUpTo(n),
           NEW k \in Nat, k <= m, k <= n
    PROVE  f[k] = g[k]
  <1> DEFINE S == {j \in Nat : j <= m /\ j <= n /\ f[j] # g[j]}
  <1> SUFFICES ASSUME S # {} PROVE FALSE
    OBVIOUS
  <1>1. PICK j \in S : \A i \in S : j <= i
    <2>1. S \subseteq Nat
      OBVIOUS
    <2> HIDE DEF S
    <2> QED
      BY <2>1, LeastNat
  <1>2. j \in Nat /\ j \in 0..m /\ j \in 0..n /\ f[j] # g[j]
    BY <1>1
  <1>3. f[j] = DigitsOf(f, j) /\ g[j] = DigitsOf(g, j)
    BY <1>2 DEF DigitsUpTo
  <1>4. j >= Radix /\ f[j \div Radix] # g[j \div Radix]
    <2>1. Radix \in Nat
      BY ReconnectAssumption
    <2> QED
      BY <1>2, <1>3, <2>1 DEF DigitsOf
  <1>5. j \div Radix \in Nat /\ j \div Radix < j
    BY <1>2, <1>4, DivSmaller
  <1>6. j \div Radix \in S
    BY <1>2, <1>4, <1>5
  <1> QED
    BY <1>1, <1>2, <1>5, <1>6

LEMMA DigitsExist ==
    ASSUME NEW n \in Nat
    PROVE  DigitsUpTo(n) # {}
  <1> DEFINE S == {m \in Nat : DigitsUpTo(m) = {}}
  <1> SUFFICES ASSUME S # {} PROVE FALSE
    OBVIOUS
  <1>1. PICK m \in S : \A i \in S : m <= i
    <2>1. S \subseteq Nat
      OBVIOUS
    <2> HIDE DEF S
    <2> QED
      BY <2>1, LeastNat
  <1>2. Radix \in Nat /\ Radix >= 2
    BY ReconnectAssumption
  <1>3. CASE m = 0
    <2>1. [k \in 0..0 |-> <<k>>] \in DigitsUpTo(0)
      BY <1>2 DEF DigitsUpTo, DigitsOf
    <2> QED
      BY <1>1, <1>3, <2>1
  <1>4. CASE m # 0
    <2>1. m - 1 \in Nat /\ m - 1 \notin S /\ m \in Nat
      BY <1>1, <1>4
    <2>2. PICK f : f \in DigitsUpTo(m - 1)
      BY <2>1
    <2>3. /\ \A k \in 0..(m - 1) : f[k] \in Seq(Nat) /\ f[k] = DigitsOf(f, k)
      BY <2>2 DEF DigitsUpTo
    <2>4. DigitsOf(f, m) \in Seq(Nat)
      <3>1. CASE m < Radix
        BY <2>1, <3>1 DEF DigitsOf
      <3>2. CASE ~(m < Radix)
        <4>1. m \div Radix \in 0..(m - 1) /\ m % Radix \in Nat
          BY <1>2, <2>1, <3>2, DivSmaller
        <4>2. f[m \div Radix] \in Seq(Nat)
          BY <2>3, <4>1
        <4> QED
          BY <3>2, <4>1, <4>2, AppendProperties DEF DigitsOf
      <3> QED
        BY <3>1, <3>2
    <2> DEFINE g == [k \in 0..m |-> IF k = m THEN DigitsOf(f, m) ELSE f[k]]
    <2>5. \A k \in 0..m : k # m => k \in 0..(m - 1)
      BY <2>1
    <2>6. g \in [0..m -> Seq(Nat)]
      BY <2>3, <2>4, <2>5
    <2>7. ASSUME NEW k \in 0..m
          PROVE  g[k] = DigitsOf(g, k)
      <3>1. g[k] = DigitsOf(f, k)
        BY <2>3, <2>5
      <3>2. k >= Radix => g[k \div Radix] = f[k \div Radix]
        <4> SUFFICES ASSUME k >= Radix PROVE g[k \div Radix] = f[k \div Radix]
          OBVIOUS
        <4>1. k \div Radix \in Nat /\ k \div Radix < k /\ k <= m
          BY DivSmaller
        <4>2. k \div Radix \in 0..m /\ k \div Radix # m
          BY <2>1, <4>1
        <4> QED
          BY <4>2
      <3> HIDE DEF g
      <3> QED
        BY <1>2, <3>1, <3>2 DEF DigitsOf
    <2> HIDE DEF g
    <2>8. g \in DigitsUpTo(m)
      BY <2>6, <2>7 DEF DigitsUpTo
    <2> QED
      BY <1>1, <2>8
  <1> QED
    BY <1>3, <1>4

LEMMA DigitsDefined ==
    ASSUME NEW k \in Nat
    PROVE  Digits[k] = DigitsOf(Digits, k)
  <1> DEFINE part(n) == CHOOSE f : f \in DigitsUpTo(n)
             d == [n \in Nat |-> part(n)[n]]
  <1>1. \A n \in Nat : part(n) \in DigitsUpTo(n)
    BY DigitsExist
  <1> HIDE DEF part
  <1>2. ASSUME NEW n \in Nat
        PROVE  d[n] \in Seq(Nat) /\ d[n] = DigitsOf(d, n)
    <2>1. n \in 0..n /\ d[n] = part(n)[n]
      OBVIOUS
    <2>2. part(n)[n] \in Seq(Nat) /\ part(n)[n] = DigitsOf(part(n), n)
      BY <1>1, <2>1 DEF DigitsUpTo
    <2>3. n >= Radix => part(n)[n \div Radix] = d[n \div Radix]
      <3> SUFFICES ASSUME n >= Radix PROVE part(n)[n \div Radix] = d[n \div Radix]
        OBVIOUS
      <3>1. n \div Radix \in Nat /\ n \div Radix < n
        BY DivSmaller
      <3>2. n \div Radix <= n /\ n \div Radix <= n \div Radix
        BY <3>1
      <3>3. part(n)[n \div Radix] = part(n \div Radix)[n \div Radix]
        BY <1>1, <3>1, <3>2, DigitsUnique
      <3> QED
        BY <3>1, <3>3
    <2>4. Radix \in Nat
      BY ReconnectAssumption
    <2> HIDE DEF d
    <2> QED
      BY <2>1, <2>2, <2>3, <2>4 DEF DigitsOf
  <1>3. d = [n \in Nat |-> IF n < Radix THEN <<n>> ELSE Append(d[n \div Radix], n % Radix)]
    <2>1. d = [n \in Nat |-> d[n]]
      OBVIOUS
    <2> HIDE DEF d
    <2> QED
      BY <1>2, <2>1 DEF DigitsOf
  <1> HIDE DEF d
  <1>4. Digits = [n \in Nat |-> IF n < Radix THEN <<n>> ELSE Append(Digits[n \div Radix], n % Radix)]
    BY <1>3 DEF Digits
  <1>5. ASSUME NEW n \in Nat
        PROVE  Digits[n] = DigitsOf(Digits, n)
    BY <1>4 DEF DigitsOf
  <1> QED
    BY <1>5

\* A number has at least one digit, and more than one from the radix on.
LEMMA DigitsCount ==
    ASSUME NEW k \in Nat
    PROVE  /\ Digits[k] \in Seq(Nat) /\ Len(Digits[k]) >= 1
           /\ k < Radix => Digits[k] = <<k>>
           /\ k >= Radix => Len(Digits[k]) >= 2
  <1>1. Radix \in Nat /\ Radix >= 2
    BY ReconnectAssumption
  <1>2. \A n \in Nat : Digits[n] \in Seq(Nat) /\ Len(Digits[n]) >= 1
    <2> DEFINE S == {n \in Nat : ~(Digits[n] \in Seq(Nat) /\ Len(Digits[n]) >= 1)}
    <2> SUFFICES ASSUME S # {} PROVE FALSE
      OBVIOUS
    <2>1. PICK m \in S : \A i \in S : m <= i
      <3>1. S \subseteq Nat
        OBVIOUS
      <3> HIDE DEF S
      <3> QED
        BY <3>1, LeastNat
    <2>2. m \in Nat /\ Digits[m] = DigitsOf(Digits, m)
      BY <2>1, DigitsDefined
    <2>3. CASE m < Radix
      <3>1. Digits[m] = <<m>>
        BY <2>2, <2>3 DEF DigitsOf
      <3>2. <<m>> \in Seq(Nat) /\ Len(<<m>>) = 1
        BY <2>2
      <3>3. Digits[m] \in Seq(Nat) /\ Len(Digits[m]) = 1
        BY <3>1, <3>2
      <3>4. ~(Digits[m] \in Seq(Nat) /\ Len(Digits[m]) >= 1)
        BY <2>1
      <3> QED
        BY <3>3, <3>4
    <2>4. CASE ~(m < Radix)
      <3>0. m >= Radix
        BY <1>1, <2>2, <2>4
      <3>1. m \div Radix \in Nat /\ m \div Radix < m /\ m % Radix \in Nat
        BY <2>2, <3>0, DivSmaller
      <3>2. Digits[m \div Radix] \in Seq(Nat) /\ Len(Digits[m \div Radix]) >= 1
        BY <2>1, <2>2, <3>1
      <3>3. Digits[m] = Append(Digits[m \div Radix], m % Radix)
        BY <2>2, <2>4 DEF DigitsOf
      <3>4. Digits[m] \in Seq(Nat) /\ Len(Digits[m]) = Len(Digits[m \div Radix]) + 1
        BY <3>1, <3>2, <3>3, AppendProperties
      <3> QED
        BY <2>1, <3>2, <3>4
    <2> QED
      BY <2>3, <2>4
  <1>3. Digits[k] = DigitsOf(Digits, k)
    BY DigitsDefined
  <1>4. ASSUME k >= Radix
        PROVE  Len(Digits[k]) >= 2
    <2>1. k \div Radix \in Nat /\ k % Radix \in Nat
      BY <1>4, DivSmaller
    <2>2. Digits[k] = Append(Digits[k \div Radix], k % Radix)
      BY <1>1, <1>3, <1>4 DEF DigitsOf
    <2>3. Digits[k \div Radix] \in Seq(Nat) /\ Len(Digits[k \div Radix]) >= 1
      BY <1>2, <2>1
    <2>4. Len(Digits[k]) = Len(Digits[k \div Radix]) + 1
      BY <2>1, <2>2, <2>3, AppendProperties
    <2> QED
      BY <2>3, <2>4
  <1> QED
    BY <1>2, <1>3, <1>4 DEF DigitsOf

LEMMA DivMonotone ==
    ASSUME NEW k \in Nat, NEW l \in Nat, k < l
    PROVE  /\ k \div Radix < l \div Radix \/ (k \div Radix = l \div Radix /\ k % Radix < l % Radix)
           /\ k \div Radix \in Int /\ l \div Radix \in Int
  <1>1. Radix \in Nat /\ Radix >= 2
    BY ReconnectAssumption
  <1>2. /\ k = Radix * (k \div Radix) + (k % Radix) /\ l = Radix * (l \div Radix) + (l % Radix)
        /\ k \div Radix \in Int /\ l \div Radix \in Int
        /\ k % Radix \in 0..(Radix - 1) /\ l % Radix \in 0..(Radix - 1)
    BY <1>1
  <1>3. ~(l \div Radix < k \div Radix)
    <2> SUFFICES ASSUME l \div Radix < k \div Radix PROVE FALSE
      OBVIOUS
    <2> DEFINE p == l \div Radix
               q == k \div Radix
               d == q - p - 1
    <2>1. p \in Int /\ q \in Int /\ d \in Nat /\ q = p + 1 + d
      BY <1>2
    <2>2. k = Radix * q + (k % Radix) /\ l = Radix * p + (l % Radix)
      BY <1>2
    <2> HIDE DEF p, q, d
    <2>3. Radix * q = Radix * p + Radix + Radix * d /\ Radix * d >= 0
      BY <1>1, <2>1
    <2>4. Radix * p \in Int /\ Radix * q \in Int /\ Radix * d \in Int
      BY <1>1, <2>1
    <2> QED
      BY <1>1, <1>2, <2>2, <2>3, <2>4
  <1>4. k \div Radix = l \div Radix => Radix * (k \div Radix) = Radix * (l \div Radix)
    OBVIOUS
  <1>5. Radix * (k \div Radix) \in Int /\ Radix * (l \div Radix) \in Int
    BY <1>1, <1>2
  <1>6. k \div Radix = l \div Radix => k % Radix < l % Radix
    BY <1>2, <1>4, <1>5
  <1> QED
    BY <1>2, <1>3, <1>6

\* The smaller of two numbers has fewer digits, or as many and a smaller one
\* where they first differ.
Longer(k, l) == Len(Digits[k]) < Len(Digits[l])
SmallerDigit(k, l) ==
    /\ Len(Digits[k]) = Len(Digits[l])
    /\ \E i \in 1..Len(Digits[k]) :
          /\ Digits[k][i] < Digits[l][i]
          /\ \A j \in 1..(i - 1) : Digits[k][j] = Digits[l][j]

LEMMA DigitsOrder ==
    ASSUME NEW l \in Nat, NEW k \in Nat, k < l
    PROVE  Longer(k, l) \/ SmallerDigit(k, l)
  <1> DEFINE S == {n \in Nat : \E m \in Nat : m < n /\ ~(Longer(m, n) \/ SmallerDigit(m, n))}
  <1> SUFFICES ASSUME S # {} PROVE FALSE
    OBVIOUS
  <1>1. PICK n \in S : \A i \in S : n <= i
    <2>1. S \subseteq Nat
      OBVIOUS
    <2> HIDE DEF S
    <2> QED
      BY <2>1, LeastNat
  <1>2. PICK m \in Nat : m < n /\ ~(Longer(m, n) \/ SmallerDigit(m, n))
    BY <1>1
  <1>3. /\ n \in Nat /\ Radix \in Nat /\ Radix >= 2
        /\ \A i \in Nat : i < n => \A j \in Nat : j < i => Longer(j, i) \/ SmallerDigit(j, i)
    BY <1>1, ReconnectAssumption
  <1> HIDE DEF S
  <1>4. /\ Digits[m] \in Seq(Nat) /\ Len(Digits[m]) \in Nat /\ Len(Digits[m]) >= 1
        /\ Digits[n] \in Seq(Nat) /\ Len(Digits[n]) \in Nat /\ Len(Digits[n]) >= 1
    BY <1>2, <1>3, DigitsCount
  <1>5. CASE n < Radix
    <2>1. Digits[n] = <<n>> /\ Digits[m] = <<m>>
      BY <1>2, <1>3, <1>5, DigitsCount
    <2>2. SmallerDigit(m, n)
      BY <1>2, <2>1 DEF SmallerDigit
    <2> QED
      BY <1>2, <2>2
  <1>6. CASE ~(n < Radix) /\ m < Radix
    <2>1. Digits[m] = <<m>> /\ Len(Digits[n]) >= 2
      BY <1>2, <1>3, <1>6, DigitsCount
    <2>2. Len(Digits[m]) = 1
      BY <2>1
    <2> QED
      BY <1>2, <1>4, <2>1, <2>2 DEF Longer
  <1>7. CASE ~(n < Radix) /\ ~(m < Radix)
    <2> DEFINE mq == m \div Radix
               nq == n \div Radix
               a == Digits[mq]
               b == Digits[nq]
    <2>1. /\ mq \in Nat /\ nq \in Nat /\ nq < n /\ m % Radix \in Nat /\ n % Radix \in Nat
      BY <1>2, <1>3, <1>7, DivSmaller
    <2>2. mq < nq \/ (mq = nq /\ m % Radix < n % Radix)
      BY <1>2, <1>3, DivMonotone
    <2>3. Digits[m] = Append(a, m % Radix) /\ Digits[n] = Append(b, n % Radix)
      BY <1>2, <1>3, <1>7, DigitsDefined DEF DigitsOf
    <2>4. a \in Seq(Nat) /\ b \in Seq(Nat) /\ Len(a) \in Nat /\ Len(b) \in Nat
      BY <2>1, DigitsCount
    <2>5. mq < nq => Longer(mq, nq) \/ SmallerDigit(mq, nq)
      BY <1>3, <2>1
    <2>6. mq < nq => \/ Len(a) < Len(b)
                     \/ /\ Len(a) = Len(b)
                        /\ \E i \in 1..Len(a) : a[i] < b[i] /\ \A j \in 1..(i - 1) : a[j] = b[j]
      BY <2>5 DEF Longer, SmallerDigit
    <2>7. mq = nq => a = b
      OBVIOUS
    <2> HIDE DEF mq, nq, a, b
    <2>8. /\ Len(Digits[m]) = Len(a) + 1 /\ Len(Digits[n]) = Len(b) + 1
          /\ \A i \in 1..Len(a) : Digits[m][i] = a[i]
          /\ \A i \in 1..Len(b) : Digits[n][i] = b[i]
          /\ Digits[m][Len(a) + 1] = m % Radix /\ Digits[n][Len(b) + 1] = n % Radix
      BY <2>1, <2>3, <2>4, AppendProperties
    <2>9. CASE mq < nq /\ Len(a) < Len(b)
      BY <1>2, <2>4, <2>8, <2>9 DEF Longer
    <2>10. ASSUME mq < nq, Len(a) = Len(b),
                  NEW i \in 1..Len(a), a[i] < b[i], \A j \in 1..(i - 1) : a[j] = b[j]
           PROVE  FALSE
      <3>1. i \in 1..Len(Digits[m]) /\ Digits[m][i] < Digits[n][i]
        BY <2>4, <2>8, <2>10
      <3>2. \A j \in 1..(i - 1) : j \in 1..Len(a) /\ j \in 1..Len(b)
        BY <2>4, <2>10
      <3>3. \A j \in 1..(i - 1) : Digits[m][j] = Digits[n][j]
        BY <2>8, <2>10, <3>2
      <3>4. Len(Digits[m]) = Len(Digits[n])
        BY <2>8, <2>10
      <3> QED
        BY <1>2, <3>1, <3>3, <3>4 DEF SmallerDigit
    <2>11. CASE mq = nq /\ m % Radix < n % Radix
      <3>1. Len(a) + 1 \in 1..Len(Digits[m]) /\ Digits[m][Len(a) + 1] < Digits[n][Len(a) + 1]
        BY <2>4, <2>7, <2>8, <2>11
      <3>2. \A j \in 1..(Len(a) + 1 - 1) : Digits[m][j] = Digits[n][j]
        BY <2>4, <2>7, <2>8, <2>11
      <3>3. Len(Digits[m]) = Len(Digits[n])
        BY <2>7, <2>8, <2>11
      <3> QED
        BY <1>2, <3>1, <3>2, <3>3 DEF SmallerDigit
    <2> QED
      BY <2>2, <2>6, <2>9, <2>10, <2>11
  <1> QED
    BY <1>5, <1>6, <1>7

\* Strings order the IDs of one millisecond as numbers do, but for a later ID
\* that has gained a digit: no other event can be mistaken for a duplicate.
THEOREM StringsMistakeOnlyLonger ==
    ASSUME NEW m \in Nat \ {0}, NEW n \in Nat \ {0}, Misordered(m, n)
    PROVE  Len(Digits[n - 1]) > Len(Digits[m - 1])
  <1> DEFINE a == Digits[n - 1]
             b == Digits[m - 1]
             differ == {i \in 1..Len(a) : i <= Len(b) /\ a[i] # b[i]}
             first == CHOOSE i \in differ : \A j \in differ : i <= j
  <1>1. n - 1 \in Nat /\ m - 1 \in Nat /\ m - 1 < n - 1
    BY DEF Misordered
  <1>2. /\ a \in Seq(Nat) /\ Len(a) \in Nat /\ b \in Seq(Nat) /\ Len(b) \in Nat
    BY <1>1, DigitsCount
  <1>3. IF differ = {} THEN Len(a) <= Len(b) ELSE a[first] < b[first]
    BY DEF Misordered, StringLE
  <1>4. Len(b) < Len(a) \/ SmallerDigit(m - 1, n - 1)
    BY <1>1, DigitsOrder DEF Longer
  <1>5. SmallerDigit(m - 1, n - 1) =>
           /\ Len(b) = Len(a)
           /\ \E i \in 1..Len(b) : b[i] < a[i] /\ \A j \in 1..(i - 1) : b[j] = a[j]
    BY DEF SmallerDigit
  <1> HIDE DEF a, b
  <1>6. ASSUME Len(b) = Len(a), NEW i \in 1..Len(b), b[i] < a[i], \A j \in 1..(i - 1) : b[j] = a[j]
        PROVE  FALSE
    <2>1. a[i] \in Nat /\ b[i] \in Nat
      BY <1>2, <1>6
    <2>2. i \in differ
      BY <1>2, <1>6, <2>1
    <2>3. \A j \in differ : i <= j
      BY <1>2, <1>6
    <2>4. differ \subseteq 1..Len(a) /\ Len(a) \in Nat
      BY <1>2
    <2> HIDE DEF differ
    <2>5. first \in differ /\ \A j \in differ : first <= j
      BY <2>2, <2>3
    <2> HIDE DEF first
    <2>6. first = i
      <3>1. first \in Nat /\ i \in Nat
        BY <2>2, <2>4, <2>5
      <3>2. i <= first /\ first <= i
        BY <2>2, <2>3, <2>5
      <3> QED
        BY <3>1, <3>2
    <2>7. differ # {} /\ ~(a[i] < b[i])
      BY <1>6, <2>1, <2>2
    <2> QED
      BY <1>3, <2>6, <2>7
  <1>7. ~SmallerDigit(m - 1, n - 1)
    BY <1>5, <1>6
  <1> QED
    BY <1>4, <1>7 DEF a, b
-----------------------------------------------------------------------------
(***************************************************************************)
(* The client.  What it received and where its cursor stands (Cursor) has  *)
(* to be related to what the connection it has at the moment reads: the    *)
(* channel of the first one (Watching), the cached events still to come    *)
(* (Replaying), or the live channel (Following).                           *)
(***************************************************************************)
Explained(n) ==
    \/ n \in Received
    \/ cur # NoChannel /\ n <= join[cur]
    \/ n \in window
    \/ n \in cut
    \/ Overflowed(n)
    \/ Mistaken(n)

ClientTypes ==
    /\ link \in {"first", "offline", "found", "looked", "replaying", "live", "expired"}
    /\ live \in BOOLEAN
    /\ cached = NoEvents \/ cached \in Seq([id : Nat \ {0}, type : EventTypes])
    /\ sentID \in 0..Len(emitted) /\ lastID \in 0..Len(emitted)
    /\ rcur \in Subscribers \cup {NoChannel}
    /\ seen \in Seq(1..Len(emitted))
    /\ window \subseteq 1..Len(emitted) /\ cut \subseteq 1..Len(emitted)
    /\ drops \in 0..MaxDrops

FirstServed ==
    /\ mode = "streaming" /\ req \in Before \cup {"launched", "reading", "done"}
    /\ req \in Before \cup {"launched"} => cur = NoChannel
    /\ cur # NoChannel => chst[cur] # "none"
    /\ lastID # NoID => cur # NoChannel
    /\ link \notin {"first", "offline"} => lastID # NoID

Cursor ==
    /\ lastID # NoID => lastID \in Received
    /\ \A i \in 1..Len(seen) : emitted[seen[i]].sid # NoID => seen[i] <= lastID
    /\ NoDuplicates
    /\ \A n \in Kept : n <= lastID /\ emitted[n].sid # NoID => Explained(n)

Watching ==
    link = "first" => Received = IF cur = NoChannel THEN {} ELSE Positions(got[cur])

Replaying ==
    link = "replaying" =>
        /\ cached \in Seq([id : Nat \ {0}, type : EventTypes])
        /\ sentID # NoID => sentID \in Received
        /\ \A n \in IDs(cached) :
              /\ n > lastID /\ n \in 1..Len(emitted)
              /\ emitted[n].sid = NoID => "lostreply" \in StoreFaults
        /\ \A i, j \in 1..Len(cached) : i < j => cached[i].id < cached[j].id
        /\ \A n \in Kept : n > lastID =>
              \/ n \in IDs(cached)
              \/ (\A m \in IDs(cached) : m < n) /\ (live => n \in window \cup cut)

Following ==
    link = "live" =>
        /\ rcur \in Subscribers /\ rcur # cur /\ chst[rcur] # "none"
        /\ sentID <= join[rcur] /\ (sentID # NoID => sentID \in Received)
        /\ lastID <= join[rcur] \/ lastID \in Positions(got[rcur])
        /\ \A n \in Kept : lastID < n /\ n <= join[rcur] => n \in window \cup cut

ClientInv ==
    /\ ClientTypes /\ FirstServed /\ Cursor
    /\ Watching /\ Replaying /\ Following /\ StoredIsPushed

ReconnectInv == FullInv /\ IDInv /\ ClientInv

LEMMA LogTypes ==
    ASSUME FullInv
    PROVE  /\ TypeOK /\ StoredWithoutHole /\ Len(emitted) \in Nat
           /\ \A n \in Kept : n \in 1..Len(emitted)
           /\ \A s \in Subscribers : join[s] \in Nat /\ join[s] <= Len(emitted)
           /\ cur \in Subscribers \cup {NoChannel} /\ NoChannel \notin Subscribers
  <1>1. TypeOK /\ StoredWithoutHole
    BY DEF FullInv, StoredInv
  <1>2. \A s \in Subscribers : join[s] \in Nat /\ join[s] <= Len(emitted)
    BY <1>1 DEF FullInv, DrainInv, AccountInv, FeedInv, DeliveryInv, TypeOK
  <1>3. cur \in Subscribers \cup {NoChannel} /\ NoChannel \notin Subscribers
    BY TaskAssumption DEF FullInv, TaskInv, TaskTypes
  <1> QED
    BY <1>1, <1>2, <1>3 DEF Kept, StoredWithoutHole, TypeOK

\* What was explained stays explained.
LEMMA StaysExplained ==
    ASSUME ReconnectInv, LogGrows, cur # NoChannel => cur' = cur,
           window \subseteq window', cut \subseteq cut', Received \subseteq Received',
           NEW n, Explained(n)
    PROVE  Explained(n)'
  <1>1. cur # NoChannel => cur \in Subscribers /\ join'[cur] = join[cur] /\ cur' = cur
    BY LogTypes DEF ReconnectInv, ClientInv, FirstServed, LogGrows
  <1>2. Overflowed(n) => Overflowed(n)'
    <2>1. \A s \in Subscribers : lost[s] \subseteq lost'[s] /\ Brought(s) \subseteq Brought(s)'
      BY DEF LogGrows
    <2> QED
      BY <2>1 DEF Overflowed
  <1>3. Mistaken(n) => Mistaken(n)'
    <2>1. \A s \in Subscribers : Brought(s) \subseteq Brought(s)'
      BY DEF LogGrows
    <2>2. \A m : Misordered(m, n) => Misordered(m, n)'
      BY DEF Misordered, StringLE
    <2> QED
      BY <2>1, <2>2 DEF Mistaken
  <1> QED
    BY <1>1, <1>2, <1>3 DEF Explained

\* A step that delivers nothing leaves the client where it was.
LEMMA CursorStays ==
    ASSUME ReconnectInv, FullInv', LogGrows, UNCHANGED clientVars,
           cur # NoChannel => cur' = cur, window \subseteq window', cut \subseteq cut'
    PROVE  Cursor'
  <1>1. /\ Len(emitted) \in Nat /\ \A n \in Kept' : n \in Kept \/ n > Len(emitted)
        /\ \A n \in 1..Len(emitted) : emitted'[n] = emitted[n]
        /\ \A n \in Kept : n \in 1..Len(emitted)
    BY LogTypes DEF ReconnectInv, LogGrows
  <1>2. /\ lastID' = lastID /\ seen' = seen /\ lastID \in 0..Len(emitted)
        /\ \A i \in 1..Len(seen) : seen[i] \in 1..Len(emitted)
        /\ Received' = Received
    BY DEF clientVars, ReconnectInv, ClientInv, ClientTypes, Received
  <1>3. Cursor
    BY DEF ReconnectInv, ClientInv
  <1>4. NoDuplicates'
    BY <1>1, <1>2, <1>3 DEF Cursor, NoDuplicates
  <1>5. \A n \in Kept' : n \in Nat
    BY DEF FullInv, StoredInv, StoredWithoutHole, Kept
  <1>6. ASSUME NEW n \in Kept', n <= lastID, emitted'[n].sid # NoID
        PROVE  Explained(n)'
    <2>1. n \in Kept /\ n \in 1..Len(emitted)
      BY <1>1, <1>2, <1>5, <1>6
    <2>2. Explained(n)
      BY <1>1, <1>3, <1>6, <2>1 DEF Cursor
    <2> QED
      BY <1>2, <2>2, StaysExplained
  <1> QED
    BY <1>1, <1>2, <1>3, <1>4, <1>6 DEF Cursor

\* What the handler of a reconnection relies on survives the steps of others.
LEMMA StageStays ==
    ASSUME ReconnectInv, LogGrows, UNCHANGED <<link, sessionVars, clientVars, cut>>,
           window \subseteq window',
           link = "replaying" /\ live => (Len(emitted) + 1)..Len(emitted') \subseteq window',
           link = "live" => cur' # rcur /\ got'[rcur] = got[rcur],
           \A n \in Kept' : n \in 1..Len(emitted')
    PROVE  Replaying' /\ Following' /\ StoredIsPushed'
  <1>1. /\ Len(emitted) \in Nat /\ Len(emitted) <= Len(emitted')
        /\ \A n \in Kept' : n \in Kept \/ n > Len(emitted)
        /\ \A n \in 1..Len(emitted) : emitted'[n] = emitted[n]
        /\ \A s \in Subscribers : join[s] \in Nat /\ join[s] <= Len(emitted)
    BY LogTypes DEF ReconnectInv, LogGrows
  <1>2. /\ lastID' = lastID /\ seen' = seen /\ cached' = cached /\ live' = live /\ sentID' = sentID
        /\ rcur' = rcur /\ link' = link /\ cut' = cut /\ lastID \in 0..Len(emitted)
        /\ Received' = Received
    BY DEF clientVars, sessionVars, ReconnectInv, ClientInv, ClientTypes, Received
  <1>4. ASSUME link = "replaying"
        PROVE  Replaying'
    <2>1. Replaying
      BY DEF ReconnectInv, ClientInv
    <2>2. IDs(cached)' = IDs(cached)
      BY <1>2 DEF IDs
    <2>3. \A n \in IDs(cached) : n > lastID /\ n \in 1..Len(emitted)
      BY <1>4, <2>1 DEF Replaying
    <2>4. ASSUME NEW n \in Kept', n > lastID
          PROVE  \/ n \in IDs(cached)
                 \/ (\A m \in IDs(cached) : m < n) /\ (live => n \in window' \cup cut)
      <3>1. CASE n \in Kept
        BY <1>4, <2>1, <2>4, <3>1 DEF Replaying
      <3>2. CASE n > Len(emitted)
        BY <1>1, <1>4, <2>3, <2>4, <3>2
      <3> QED
        BY <1>1, <2>4, <3>1, <3>2
    <2> QED
      BY <1>1, <1>2, <1>4, <2>1, <2>2, <2>3, <2>4 DEF Replaying
  <1>5. ASSUME link = "live"
        PROVE  Following' /\ StoredIsPushed'
    <2>1. Following /\ StoredIsPushed
      BY DEF ReconnectInv, ClientInv
    <2>2. rcur \in Subscribers /\ join'[rcur] = join[rcur] /\ chst'[rcur] # "none"
          /\ got'[rcur] = got[rcur] /\ rcur # cur'
      BY <1>5, <2>1 DEF Following, LogGrows
    <2>3. \A n \in Kept' : lastID < n /\ n <= join[rcur] => n \in window' \cup cut
      BY <1>1, <1>5, <2>1, <2>2 DEF Following
    <2>4. Following'
      BY <1>2, <1>5, <2>1, <2>2, <2>3 DEF Following
    <2>5. StoredIsPushed'
      BY <1>2, <1>5, <2>1, <2>2 DEF StoredIsPushed
    <2> QED
      BY <2>4, <2>5
  <1> QED
    BY <1>2, <1>4, <1>5 DEF Replaying, Following, StoredIsPushed

\* Every step of the task and its clients is a step of the task that another
\* reader may make.
LEMMA ReconnectMoves ==
    ASSUME ReconnectInv, [ReconnectNext]_allVars
    PROVE  Move /\ FullInv' /\ IDInv' /\ LogGrows
  <1> SUFFICES Move
    <2>1. ASSUME Move PROVE [Next]_vars /\ FullInv'
      BY <2>1, MoveIsStep, FullNext DEF ReconnectInv, FullInv
    <2> QED
      BY <2>1, IDStep DEF ReconnectInv
  <1>1. CASE FirstRead \/ FirstEnds \/ FirstLost \/ TimePasses \/ Watched(TaskSteps)
    <2>1. CASE FirstRead
      <3>1. Read
        BY <2>1 DEF FirstRead
      <3> QED
        BY <3>1 DEF Move, TaskNext, RequestSteps
    <2>2. CASE FirstEnds \/ FirstLost \/ TimePasses
      BY <2>2 DEF FirstEnds, FirstLost, TimePasses, Move, TaskNext, RequestSteps
    <2>3. CASE Watched(TaskSteps)
      <3>1. TaskSteps
        BY <2>3 DEF Watched
      <3> QED
        BY <3>1 DEF TaskSteps, Move, TaskNext, RequestSteps
    <2> QED
      BY <1>1, <2>1, <2>2, <2>3
  <1>2. CASE SubscribeLive
    <2>1. (\E s \in Subscribers : Subscribe(s)) /\ UNCHANGED <<reqVars, agent, regVars>>
      BY <1>2 DEF SubscribeLive
    <2> QED
      BY <2>1 DEF Move, OtherReader
  <1>3. CASE Forward
    <2>1. rcur \in Subscribers
      BY <1>3 DEF Forward, ReconnectInv, ClientInv, Following
    <2>2. Receive(rcur) /\ UNCHANGED <<reqVars, agent, regVars>>
      BY <1>3 DEF Forward
    <2> QED
      BY <2>1, <2>2 DEF Move, OtherReader
  <1>4. CASE CheckExists \/ LookUp \/ ReadCache \/ ReadFails \/ Replayed \/ CloseAfterReplay
             \/ LiveEnds \/ DropLink \/ UNCHANGED allVars
    <2>1. UNCHANGED taskVars
      BY <1>4 DEF CheckExists, LookUp, ReadCache, ReadFails, Replayed, CloseAfterReplay, LiveEnds,
                  DropLink, allVars
    <2> QED
      BY <2>1 DEF Move
  <1> QED
    BY <1>1, <1>2, <1>3, <1>4 DEF ReconnectNext, ReconnectSteps

\* An event the client receives is later than its cursor, and what it passes by
\* is explained.
LEMMA Delivered ==
    ASSUME ReconnectInv, LogGrows, UNCHANGED <<emitted, lost, cur, window, cut>>,
           \A m \in Kept' : m \in Kept,
           NEW n \in 1..Len(emitted), NEW sid \in {n, NoID}, Deliver(n, sid),
           emitted[n].sid # NoID => sid = n,
           sid # NoID => lastID < n,
           \A i \in 1..Len(seen) :
              \/ seen[i] < n
              \/ emitted[seen[i]].sid = NoID /\ (seen[i] = n => "lostreply" \in StoreFaults),
           \A m \in Kept : sid # NoID /\ lastID < m /\ m < n /\ emitted[m].sid # NoID =>
              Explained(m) \/ \E s \in Subscribers : m \in lost[s] /\ n \in Brought(s)'
    PROVE  /\ Cursor'
           /\ lastID' \in 0..Len(emitted') /\ seen' \in Seq(1..Len(emitted'))
           /\ Received' = Received \cup {n}
           /\ lastID <= lastID' /\ lastID' \in {lastID, n}
  <1>1. /\ Len(emitted) \in Nat /\ \A m \in Kept : m \in 1..Len(emitted)
        /\ lastID \in 0..Len(emitted) /\ seen \in Seq(1..Len(emitted)) /\ Cursor
        /\ n \in Nat /\ n # 0
    BY LogTypes DEF ReconnectInv, ClientInv, ClientTypes
  <1>2. seen' = Append(seen, n) /\ lastID' = (IF sid = NoID THEN lastID ELSE n)
    BY <1>1 DEF Deliver, NoID
  <1>3. /\ Len(seen') = Len(seen) + 1 /\ Len(seen) \in Nat
        /\ \A i \in 1..Len(seen) : seen'[i] = seen[i] /\ seen[i] \in 1..Len(emitted)
        /\ seen'[Len(seen) + 1] = n
        /\ seen' \in Seq(1..Len(emitted))
    BY <1>1, <1>2
  <1>4. lastID <= lastID' /\ lastID' \in {lastID, n} /\ lastID' \in 0..Len(emitted)
    BY <1>1, <1>2
  <1>5. \A i \in 1..Len(seen') : i \in 1..Len(seen) \/ (i = Len(seen) + 1 /\ seen'[i] = n)
    BY <1>3
  <1>6. Received' = Received \cup {n}
    <2>1. Received' \subseteq Received \cup {n}
      BY <1>3, <1>5 DEF Received
    <2>2. Len(seen) + 1 \in 1..Len(seen') /\ \A i \in 1..Len(seen) : i \in 1..Len(seen')
      BY <1>3
    <2>3. Received \cup {n} \subseteq Received'
      BY <1>3, <2>2 DEF Received
    <2> QED
      BY <2>1, <2>3
  <1>7. lastID' # NoID => lastID' \in Received'
    BY <1>1, <1>4, <1>6 DEF Cursor
  <1>8. ASSUME NEW i \in 1..Len(seen'), emitted'[seen'[i]].sid # NoID
        PROVE  seen'[i] <= lastID'
    <2>1. CASE i \in 1..Len(seen)
      <3>1. seen[i] \in 1..Len(emitted) /\ seen[i] <= lastID /\ seen'[i] = seen[i]
        BY <1>1, <1>3, <1>8, <2>1 DEF Cursor
      <3> QED
        BY <1>1, <1>4, <3>1
    <2>2. CASE seen'[i] = n
      BY <1>1, <1>2, <1>8, <2>2 DEF NoID
    <2> QED
      BY <1>5, <2>1, <2>2
  <1>9. NoDuplicates'
    <2> SUFFICES ASSUME NEW i \in 1..Len(seen'), NEW j \in 1..Len(seen'), i < j
                 PROVE  \/ seen'[i] < seen'[j]
                        \/ /\ emitted[seen'[i]].sid = NoID
                           /\ seen'[i] = seen'[j] => "lostreply" \in StoreFaults
      BY DEF NoDuplicates
    <2>1. i \in 1..Len(seen) /\ seen'[i] = seen[i]
      BY <1>3
    <2>2. CASE j \in 1..Len(seen)
      BY <1>1, <1>3, <2>1, <2>2 DEF Cursor, NoDuplicates
    <2>3. CASE seen'[j] = n
      BY <2>1, <2>3
    <2> QED
      BY <1>5, <2>2, <2>3
  <1>10. ASSUME NEW m \in Kept', m <= lastID', emitted'[m].sid # NoID
         PROVE  Explained(m)'
    <2>1. m \in Kept /\ m \in 1..Len(emitted)
      BY <1>1
    <2>2. CASE m = n
      BY <1>6, <2>2 DEF Explained
    <2>3. CASE m # n
      <3>1. CASE Explained(m)
        BY <1>6, <3>1, StaysExplained
      <3>2. CASE ~Explained(m)
        <4>1. ~(m <= lastID)
          BY <1>1, <1>10, <2>1, <3>2 DEF Cursor
        <4>2. sid # NoID /\ lastID < m /\ m < n
          BY <1>1, <1>2, <1>10, <2>1, <2>3, <4>1
        <4>3. PICK s \in Subscribers : m \in lost[s] /\ n \in Brought(s)'
          BY <1>10, <2>1, <3>2, <4>2
        <4>4. Overflowed(m)'
          BY <1>6, <4>2, <4>3 DEF Overflowed
        <4> QED
          BY <4>4 DEF Explained
      <3> QED
        BY <3>1, <3>2
    <2> QED
      BY <2>2, <2>3
  <1> QED
    BY <1>3, <1>4, <1>6, <1>7, <1>8, <1>9, <1>10 DEF Cursor

LEMMA FirstServedStays ==
    ASSUME ReconnectInv, [ReconnectNext]_allVars
    PROVE  FirstServed' /\ (cur # NoChannel => cur' = cur)
  <1>1. /\ LogGrows /\ FirstServed /\ cur \in Subscribers \cup {NoChannel} /\ NoChannel \notin Subscribers
        /\ req \in Reads => cur \in Subscribers
    BY ReconnectMoves, LogTypes DEF ReconnectInv, ClientInv, FullInv, TaskInv, Phase
  <1>2. /\ \A s \in Subscribers : chst[s] # "none" => chst'[s] # "none"
        /\ chst \in [Subscribers -> {"none", "open", "closed"}]
    BY <1>1, LogTypes DEF LogGrows, ReconnectInv, TypeOK
  <1>3. ASSUME UNCHANGED <<mode, cur>>, req' \in {req, "done"} \/ (req \in Before /\ req' \in Before \cup {"launched", "done"}),
               lastID' # NoID => lastID # NoID \/ cur # NoChannel,
               link' \notin {"first", "offline"} => lastID' # NoID
        PROVE  FirstServed'
    BY <1>1, <1>2, <1>3 DEF FirstServed, Before
  <1>4. CASE FirstRead
    <2>1. req \in Reads /\ UNCHANGED <<mode, cur, req, link>> /\ (link # "first" => lastID' = lastID)
      BY <1>4 DEF FirstRead, Read, Reads, reqVars, clientVars
    <2>2. link # "first" \/ cur # NoChannel
      BY <1>1, <2>1
    <2>3. cur # NoChannel
      BY <1>1, <2>1
    <2> QED
      BY <1>1, <1>3, <2>1, <2>3 DEF FirstServed
  <1>5. CASE FirstEnds \/ FirstLost
    <2>1. UNCHANGED <<mode, cur, lastID>> /\ req' \in {req, "done"} /\ link' \in {link, "offline"}
      BY <1>5 DEF FirstEnds, FirstLost, StreamEnds, StreamLeaves, RequestCtxDone, reqVars, clientVars
    <2> QED
      BY <1>1, <1>3, <2>1 DEF FirstServed
  <1>6. CASE CheckExists \/ LookUp \/ ReadCache \/ ReadFails \/ CloseAfterReplay \/ LiveEnds \/ DropLink
             \/ UNCHANGED allVars
    <2>1. /\ UNCHANGED <<mode, cur, req, lastID>>
          /\ link' \notin {"first", "offline"} => lastID # NoID
      BY <1>1, <1>6 DEF CheckExists, LookUp, ReadCache, ReadFails, CloseAfterReplay, LiveEnds, DropLink,
         allVars, taskVars, reqVars, clientVars, reconnectVars, FirstServed
    <2> QED
      BY <1>1, <1>3, <2>1 DEF FirstServed
  <1>7. CASE Replayed
    <2>1. UNCHANGED <<mode, cur, req, link>> /\ link = "replaying"
      BY <1>7 DEF Replayed, taskVars, reqVars
    <2>2. lastID # NoID /\ lastID' # NoID
      <3>1. lastID # NoID
        BY <1>1, <2>1 DEF FirstServed
      <3> QED
        BY <1>7, <3>1 DEF Replayed, Deliver
    <2> QED
      BY <1>3, <2>1, <2>2
  <1>8. CASE SubscribeLive
    <2>1. UNCHANGED <<mode, cur, req, lastID>> /\ link = "replaying"
      BY <1>8 DEF SubscribeLive, reqVars, clientVars
    <2> QED
      BY <1>1, <1>3, <2>1 DEF FirstServed
  <1>9. CASE Forward
    <2>1. UNCHANGED <<mode, cur, req, link>> /\ link = "live"
      BY <1>9 DEF Forward, reqVars
    <2>2. lastID # NoID /\ lastID' # NoID
      <3>1. lastID # NoID
        BY <1>1, <2>1 DEF FirstServed
      <3>2. lastID' = lastID \/ lastID' # NoID
        BY <1>9 DEF Forward, Deliver, Skips, clientVars
      <3> QED
        BY <3>1, <3>2
    <2> QED
      BY <1>3, <2>1, <2>2
  <1>10. CASE Watched(TaskSteps)
    <2>1. UNCHANGED <<link, lastID>> /\ TaskSteps
      BY <1>10 DEF Watched, clientVars
    <2>2. CASE Open
      <3>1. /\ req = "launched" /\ mode' = mode /\ req' = "reading" /\ cur' \in Subscribers
            /\ chst'[cur'] # "none"
        <4>1. PICK s \in Subscribers : Subscribe(s) /\ cur' = s
          BY <2>2 DEF Open
        <4>2. chst'[s] # "none"
          BY <1>2, <4>1 DEF Subscribe
        <4>3. req = "launched" /\ mode' = mode /\ req' = "reading"
          BY <1>1, <2>2 DEF Open, FirstServed, Before
        <4> QED
          BY <4>1, <4>2, <4>3
      <3>2. cur = NoChannel /\ lastID = NoID
        BY <1>1, <3>1 DEF FirstServed
      <3> QED
        BY <1>1, <2>1, <3>1, <3>2 DEF FirstServed, Before
    <2>3. CASE ~Open
      <3>1. /\ UNCHANGED <<mode, cur>>
            /\ req' \in {req, "done"} \/ (req \in Before /\ req' \in Before \cup {"launched", "done"})
        BY <2>1, <2>3 DEF TaskSteps, Build, RegisterTask, StartTask, Launch, AgentPublish, AgentReturns,
           AgentCompletes, AgentFails, AgentCancelled, ArmUnregister, UnregisterTask, CancelLoads,
           CancelCalls, reqVars, Before
      <3> QED
        BY <1>1, <1>3, <2>1, <3>1 DEF FirstServed
    <2> QED
      BY <2>2, <2>3
  <1>11. CASE TimePasses
    <2>1. UNCHANGED <<mode, cur, req, lastID, link>>
      BY <1>11 DEF TimePasses, Clock, reqVars, clientVars
    <2> QED
      BY <1>1, <1>3, <2>1 DEF FirstServed
  <1> QED
    BY <1>4, <1>5, <1>6, <1>7, <1>8, <1>9, <1>10, <1>11 DEF ReconnectNext, ReconnectSteps

LEMMA TypesGrow ==
    ASSUME ReconnectInv, LogGrows, FullInv'
    PROVE  /\ Len(emitted') \in Nat
           /\ lastID \in 0..Len(emitted') /\ sentID \in 0..Len(emitted')
           /\ seen \in Seq(1..Len(emitted'))
           /\ window \subseteq 1..Len(emitted') /\ cut \subseteq 1..Len(emitted')
           /\ \A n \in Kept' : n \in 1..Len(emitted')
  <1>1. /\ Len(emitted) \in Nat /\ Len(emitted) <= Len(emitted') /\ Len(emitted') \in Nat
        /\ \A n \in Kept' : n \in 1..Len(emitted')
    <2>1. Len(emitted) \in Nat /\ Len(emitted) <= Len(emitted')
      BY LogTypes DEF ReconnectInv, LogGrows
    <2>2. Len(emitted') \in Nat
      BY DEF FullInv, StoredInv, TypeOK
    <2>3. \A n \in Kept' : n \in 1..Len(emitted')
      BY DEF FullInv, StoredInv, StoredWithoutHole, Kept
    <2> QED
      BY <2>1, <2>2, <2>3
  <1>2. ClientTypes
    BY DEF ReconnectInv, ClientInv
  <1>3. seen \in Seq(1..Len(emitted'))
    <2>1. 1..Len(emitted) \subseteq 1..Len(emitted')
      BY <1>1
    <2> QED
      BY <1>2, <2>1, SeqMonotonic DEF ClientTypes
  <1> QED
    BY <1>1, <1>2, <1>3 DEF ClientTypes

\* Steps that deliver nothing and end at no stage of a reconnection: the client
\* has lost its connection, or its handler is between two looks.
LEMMA BetweenStages ==
    ASSUME ReconnectInv, [ReconnectNext]_allVars, UNCHANGED <<clientVars, historyVars, sentID, rcur>>,
           link' \in {"offline", "found", "looked", "expired"}, live' \in BOOLEAN,
           cached' \in {cached, NoEvents}, drops' \in 0..MaxDrops
    PROVE  ClientInv'
  <1>1. /\ LogGrows /\ FullInv' /\ FirstServed' /\ (cur # NoChannel => cur' = cur)
        /\ UNCHANGED <<lastID, seen, window, cut, sentID, rcur>>
    BY ReconnectMoves, FirstServedStays DEF clientVars, historyVars
  <1>2. ClientTypes'
    BY <1>1, TypesGrow DEF ReconnectInv, ClientInv, ClientTypes
  <1>3. Cursor'
    BY <1>1, CursorStays DEF historyVars
  <1> QED
    BY <1>1, <1>2, <1>3 DEF ClientInv, Watching, Replaying, Following, StoredIsPushed

\* Steps of the others while the client's handler stands still.
LEMMA OthersStep ==
    ASSUME ReconnectInv, [ReconnectNext]_allVars,
           UNCHANGED <<link, sessionVars, clientVars, cut, drops>>,
           window \subseteq window', window' \subseteq 1..Len(emitted'),
           link = "replaying" /\ live => (Len(emitted) + 1)..Len(emitted') \subseteq window',
           link = "live" => cur' # rcur /\ got'[rcur] = got[rcur],
           Watching'
    PROVE  ClientInv'
  <1>1. /\ LogGrows /\ FullInv' /\ FirstServed' /\ (cur # NoChannel => cur' = cur)
        /\ UNCHANGED <<link, lastID, seen, cut, sentID, rcur, live, cached, drops>>
    BY ReconnectMoves, FirstServedStays DEF clientVars, sessionVars
  <1>2. ClientTypes'
    BY <1>1, TypesGrow DEF ReconnectInv, ClientInv, ClientTypes
  <1>3. Cursor'
    BY <1>1, CursorStays
  <1>4. Replaying' /\ Following' /\ StoredIsPushed'
    BY <1>1, StageStays, TypesGrow
  <1> QED
    BY <1>1, <1>2, <1>3, <1>4 DEF ClientInv

LEMMA FirstLinkSteps ==
    ASSUME ReconnectInv, FirstEnds \/ FirstLost
    PROVE  ClientInv'
  <1>1. [ReconnectNext]_allVars
    BY DEF ReconnectNext
  <1>2. /\ UNCHANGED <<sessionVars, clientVars, historyVars, drops>> /\ UNCHANGED <<got, emitted, cur, window>>
        /\ link' = IF link = "first" THEN "offline" ELSE link
    BY DEF FirstEnds, FirstLost, StreamEnds, StreamLeaves, RequestCtxDone, CtxDone, vars, readVars, logVars,
           reqVars, historyVars
  <1>3. CASE link = "first"
    <2>1. live' \in BOOLEAN /\ cached' = cached /\ drops' \in 0..MaxDrops /\ UNCHANGED <<sentID, rcur>>
      BY <1>2 DEF ReconnectInv, ClientInv, ClientTypes, sessionVars
    <2> QED
      BY <1>1, <1>2, <1>3, <2>1, BetweenStages
  <1>4. CASE link # "first"
    <2>1. /\ UNCHANGED <<link, cut>> /\ Watching' /\ window \subseteq window' /\ window' \subseteq 1..Len(emitted')
          /\ (Len(emitted) + 1)..Len(emitted') = {}
      BY <1>2, <1>4, LogTypes DEF Watching, historyVars, ReconnectInv, ClientInv, ClientTypes
    <2>2. link = "live" => cur' # rcur /\ got'[rcur] = got[rcur]
      BY <1>2 DEF ReconnectInv, ClientInv, Following
    <2> QED
      BY <1>1, <1>2, <2>1, <2>2, OthersStep
  <1> QED
    BY <1>3, <1>4

LEMMA HandlerLooks ==
    ASSUME ReconnectInv, CheckExists \/ LookUp \/ ReadFails \/ CloseAfterReplay \/ LiveEnds \/ DropLink
    PROVE  ClientInv'
  <1>1. [ReconnectNext]_allVars
    BY DEF ReconnectNext, ReconnectSteps
  <1>2. ClientTypes
    BY DEF ReconnectInv, ClientInv
  <1>3. /\ UNCHANGED <<clientVars, historyVars, sentID, rcur>>
        /\ link' \in {"offline", "found", "looked", "expired"} /\ live' \in BOOLEAN
        /\ cached' \in {cached, NoEvents} /\ drops' \in 0..MaxDrops
    <2>1. CASE CheckExists \/ ReadFails \/ LiveEnds
      BY <1>2, <2>1 DEF CheckExists, ReadFails, LiveEnds, sessionVars, ClientTypes
    <2>2. CASE LookUp
      BY <1>2, <2>2 DEF LookUp, ClientTypes
    <2>3. CASE CloseAfterReplay
      BY <1>2, <2>3 DEF CloseAfterReplay, ClientTypes
    <2>4. CASE DropLink
      <3>1. drops' \in 0..MaxDrops
        BY <1>2, <2>4, ReconnectAssumption DEF DropLink, ClientTypes
      <3> QED
        BY <1>2, <2>4, <3>1 DEF DropLink, ClientTypes
    <2> QED
      BY <2>1, <2>2, <2>3, <2>4
  <1> QED
    BY <1>1, <1>3, BetweenStages

LEMMA OthersMove ==
    ASSUME ReconnectInv, Watched(TaskSteps) \/ TimePasses \/ UNCHANGED allVars
    PROVE  ClientInv'
  <1>1. [ReconnectNext]_allVars
    BY DEF ReconnectNext
  <1>2. LogGrows /\ FullInv' /\ (cur # NoChannel => cur' = cur) /\ TypeOK /\ Len(emitted) \in Nat
    BY <1>1, ReconnectMoves, FirstServedStays, LogTypes DEF ReconnectInv
  <1>3. /\ UNCHANGED <<link, sessionVars, clientVars, cut, drops>>
        /\ Watched(TaskSteps) \/ UNCHANGED <<emitted, window, got, cur, join, chst>>
    BY DEF Watched, TimePasses, Clock, Tick, historyVars, logVars, readVars, vars, reqVars, allVars, taskVars,
           reconnectVars, channelVars
  <1>4. window \subseteq window' /\ window' \subseteq 1..Len(emitted')
    <2>1. window \subseteq 1..Len(emitted')
      BY <1>2, TypesGrow
    <2>2. \A n \in (Len(emitted) + 1)..Len(emitted') : n \in 1..Len(emitted')
      BY <1>2
    <2> QED
      BY <1>3, <2>1, <2>2 DEF Watched
  <1>5. link = "replaying" /\ live => (Len(emitted) + 1)..Len(emitted') \subseteq window'
    <2>1. emitted' = emitted => (Len(emitted) + 1)..Len(emitted') = {}
      BY <1>2
    <2> QED
      BY <1>3, <2>1 DEF Watched
  <1>6. got' = got /\ (cur' = cur \/ (cur' \in Subscribers /\ chst[cur'] = "none"))
    <2>1. CASE Watched(TaskSteps)
      <3>1. TaskSteps
        BY <2>1 DEF Watched
      <3>2. CASE Open
        BY <3>2 DEF Open, Subscribe
      <3>3. CASE ~Open
        <4>1. cur' = cur
          BY <3>1, <3>3 DEF TaskSteps, Build, RegisterTask, StartTask, Launch, AgentPublish, AgentReturns,
             AgentCompletes, AgentFails, AgentCancelled, ArmUnregister, UnregisterTask, CancelLoads,
             CancelCalls, reqVars
        <4>2. got' = got
          BY <3>1, <3>3 DEF TaskSteps, Build, RegisterTask, StartTask, Launch, AgentPublish, AgentReturns,
             AgentCompletes, AgentFails, AgentCancelled, ArmUnregister, UnregisterTask, CancelLoads,
             CancelCalls, SetExecContext, Start, Publish, Complete, Fail, Cancel, End, Finish, ExecCtxDone,
             readVars, vars
        <4> QED
          BY <4>1, <4>2
      <3> QED
        BY <3>2, <3>3
    <2> QED
      BY <1>3, <2>1
  <1>7. link = "live" => cur' # rcur /\ got'[rcur] = got[rcur]
    BY <1>6 DEF ReconnectInv, ClientInv, Following
  <1>8. Watching'
    <2> SUFFICES ASSUME link = "first"
                 PROVE  Received' = IF cur' = NoChannel THEN {} ELSE Positions(got'[cur'])
      BY <1>3 DEF Watching
    <2>1. Received' = Received
      BY <1>3 DEF Received, clientVars
    <2>2. Received = IF cur = NoChannel THEN {} ELSE Positions(got[cur])
      BY DEF ReconnectInv, ClientInv, Watching
    <2>3. CASE cur' = cur
      BY <1>6, <2>1, <2>2, <2>3
    <2>4. CASE cur' # cur
      <3>1. cur = NoChannel /\ cur' \in Subscribers /\ got[cur'] = <<>> /\ NoChannel \notin Subscribers
        BY <1>2, <1>6, <2>4, LogTypes DEF ReconnectInv, FullInv, DrainInv, AccountInv, FeedInv, DeliveryInv
      <3>2. Positions(got[cur']) = {}
        BY <3>1 DEF Positions
      <3> QED
        BY <1>6, <2>1, <2>2, <3>1, <3>2
    <2> QED
      BY <2>3, <2>4
  <1> QED
    BY <1>1, <1>3, <1>4, <1>5, <1>7, <1>8, OthersStep

LEMMA FirstReads ==
    ASSUME ReconnectInv, FirstRead
    PROVE  ClientInv'
  <1>1. [ReconnectNext]_allVars
    BY DEF ReconnectNext
  <1>2. /\ LogGrows /\ FullInv' /\ FirstServed' /\ FullInv /\ IDInv /\ ClientTypes /\ Cursor
        /\ TypeOK /\ Len(emitted) \in Nat /\ \A n \in Kept : n \in 1..Len(emitted)
    BY <1>1, ReconnectMoves, FirstServedStays, LogTypes DEF ReconnectInv, ClientInv
  <1>3. cur \in Subscribers /\ buf[cur] # <<>> /\ cur # NoChannel
    BY <1>2, LogTypes DEF FirstRead, Read, Receive, Reads, FullInv, TaskInv, Phase
  <1> DEFINE ev == Head(buf[cur])
  <1>4. /\ UNCHANGED <<emitted, stream, join, lost, cur, chst, link, sessionVars, historyVars, window, cut, drops>>
        /\ got'[cur] = Append(got[cur], ev)
        /\ \A s \in Subscribers \ {cur} : got'[s] = got[s]
        /\ IF link = "first" THEN Deliver(ev.n, ev.sid) ELSE UNCHANGED clientVars
    BY <1>2, <1>3 DEF FirstRead, Read, Receive, TypeOK, storeVars, logVars, reqVars, historyVars
  <1>5. /\ ev \in Events /\ got[cur] \in Seq(Events)
        /\ ev.n = 0 => ev.sid = NoID
        /\ ev.n # 0 => /\ ev.n \in (join[cur] + 1)..Len(emitted) /\ ev = emitted[ev.n]
                       /\ ev.sid \in {ev.n, NoID}
        /\ \A m \in Positions(got[cur]) : m \in (join[cur] + 1)..Len(emitted) /\ m < ev.n
        /\ \A m \in (join[cur] + 1)..(ev.n - 1) : m \in lost[cur] \cup Positions(got[cur])
        /\ join[cur] \in Nat
    BY <1>2, <1>3, NextOnChannel DEF TypeOK
  <1> HIDE DEF ev
  <1>6. (Len(emitted) + 1)..Len(emitted') = {} /\ Kept' = Kept
    BY <1>2, <1>4 DEF Kept
  <1>7. CASE link # "first"
    <2>1. Watching' /\ UNCHANGED <<clientVars, link, cut>> /\ window \subseteq window' /\ window' \subseteq 1..Len(emitted')
      BY <1>2, <1>4, <1>7 DEF Watching, ClientTypes
    <2>2. link = "live" => cur' # rcur /\ got'[rcur] = got[rcur]
      BY <1>4 DEF ReconnectInv, ClientInv, Following
    <2> QED
      BY <1>1, <1>4, <1>6, <2>1, <2>2, OthersStep
  <1>8. CASE link = "first"
    <2>1. Received = Positions(got[cur])
      BY <1>3, <1>8 DEF ReconnectInv, ClientInv, Watching
    <2>2. Positions(got'[cur]) = Positions(got[cur]) \cup ({ev.n} \ {0})
      BY <1>4, <1>5, PositionsAppend
    <2>3. Cursor' /\ lastID' \in 0..Len(emitted') /\ seen' \in Seq(1..Len(emitted'))
          /\ Received' = Positions(got'[cur])
      <3>1. CASE ev.n = 0
        <4>1. UNCHANGED <<seen, lastID, clientVars>> /\ Received' = Received
          BY <1>4, <1>5, <1>8, <3>1 DEF Deliver, Received, clientVars
        <4>2. Cursor'
          BY <1>1, <1>2, <1>4, <4>1, CursorStays
        <4> QED
          BY <1>2, <1>4, <2>1, <2>2, <3>1, <4>1, <4>2 DEF ClientTypes
      <3>2. CASE ev.n # 0
        <4>1. ev.n \in 1..Len(emitted) /\ ev.n > join[cur] /\ ev.sid \in {ev.n, NoID} /\ ev.sid = emitted[ev.n].sid
          BY <1>2, <1>5, <3>2
        <4>2. \A i \in 1..Len(seen) : seen[i] < ev.n
          BY <1>5, <2>1 DEF Received
        <4>3. lastID < ev.n
          BY <1>2, <1>5, <2>1, <4>1 DEF Cursor, ClientTypes, NoID
        <4>4. ASSUME NEW m \in Kept, lastID < m, m < ev.n
              PROVE  Explained(m) \/ \E s \in Subscribers : m \in lost[s] /\ ev.n \in Brought(s)'
          <5>1. m \in 1..Len(emitted)
            BY <1>2
          <5>2. CASE m <= join[cur]
            BY <1>3, <5>2 DEF Explained
          <5>3. CASE ~(m <= join[cur])
            <6>1. m \in (join[cur] + 1)..(ev.n - 1)
              BY <1>5, <4>1, <4>4, <5>1, <5>3
            <6>2. m \in Received \/ m \in lost[cur]
              BY <1>5, <2>1, <6>1
            <6>3. PICK s \in Subscribers : s = cur
              BY <1>3
            <6>4. ev.n \in Brought(s)'
              BY <1>4, <1>5, <6>3, BroughtAppend
            <6> QED
              BY <6>2, <6>3, <6>4 DEF Explained
          <5> QED
            BY <5>2, <5>3
        <4>5. /\ Cursor'
              /\ lastID' \in 0..Len(emitted') /\ seen' \in Seq(1..Len(emitted'))
              /\ Received' = Received \cup {ev.n}
          <5>1. Deliver(ev.n, ev.sid) /\ UNCHANGED <<emitted, lost, cur, window, cut>>
                /\ \A m \in Kept' : m \in Kept
            BY <1>4, <1>6, <1>8
          <5>2. emitted[ev.n].sid # NoID => ev.sid = ev.n
            BY <4>1
          <5> QED
            BY <1>2, <1>3, <4>1, <4>2, <4>3, <4>4, <5>1, <5>2, Delivered
        <4> QED
          BY <2>1, <2>2, <3>2, <4>5
      <3> QED
        BY <3>1, <3>2
    <2>4. ClientTypes'
      BY <1>2, <1>4, <2>3 DEF ClientTypes, sessionVars
    <2>5. Watching' /\ Replaying' /\ Following' /\ StoredIsPushed'
      BY <1>3, <1>4, <1>8, <2>3 DEF Watching, Replaying, Following, StoredIsPushed
    <2> QED
      BY <1>2, <2>3, <2>4, <2>5 DEF ClientInv
  <1> QED
    BY <1>7, <1>8

LEMMA ReadsCache ==
    ASSUME ReconnectInv, ReadCache
    PROVE  ClientInv'
  <1>1. [ReconnectNext]_allVars
    BY DEF ReconnectNext, ReconnectSteps
  <1>2. /\ LogGrows /\ FullInv' /\ FirstServed' /\ IDInv /\ ClientTypes
        /\ TypeOK /\ StoredWithoutHole /\ Len(emitted) \in Nat /\ \A n \in Kept : n \in 1..Len(emitted)
        /\ lastID \in Nat /\ MaxReplay \in Nat \ {0}
    BY <1>1, ReconnectMoves, FirstServedStays, LogTypes, ReconnectAssumption DEF ReconnectInv, ClientInv, ClientTypes
  <1>3. /\ UNCHANGED <<emitted, stream, cur, live, rcur, clientVars, lastID, window, drops>>
        /\ link' = "replaying" /\ sentID' = NoID
        /\ cached' = ReadAfter(lastID, MaxReplay)
        /\ cut' = IF live THEN cut \cup LeftOut(lastID, MaxReplay) ELSE cut
    BY DEF ReadCache, taskVars, vars, storeVars, logVars, reqVars, clientVars
  <1>4. /\ cached' \in Seq([id : Nat, type : EventTypes])
        /\ \A n \in IDs(cached') : n \in Kept /\ n > lastID
        /\ \A i, j \in 1..Len(cached') : i < j => cached'[i].id < cached'[j].id
        /\ \A n \in Kept : n > lastID =>
              n \in IDs(cached') \/ (n \in LeftOut(lastID, MaxReplay) /\ \A m \in IDs(cached') : m < n)
        /\ LeftOut(lastID, MaxReplay) \subseteq Kept
    BY <1>2, <1>3, WhatIsRead
  <1>5. cached' \in Seq([id : Nat \ {0}, type : EventTypes])
    <2> DEFINE q == cached'
    <2>1. q \in Seq([id : Nat, type : EventTypes]) /\ \A n \in IDs(q) : n # 0
      BY <1>2, <1>4
    <2> HIDE DEF q
    <2>2. \A i \in 1..Len(q) : q[i] \in [id : Nat, type : EventTypes] /\ q[i].id # 0
      BY <2>1, ElementOfSeq DEF IDs
    <2>3. \A i \in 1..Len(q) : q[i] \in [id : Nat \ {0}, type : EventTypes]
      BY <2>2
    <2>4. q \in Seq([id : Nat \ {0}, type : EventTypes])
      <3>1. Len(q) \in Nat /\ q = [i \in 1..Len(q) |-> q[i]]
        BY <2>1
      <3>2. q \in [1..Len(q) -> [id : Nat \ {0}, type : EventTypes]]
        BY <2>3, <3>1
      <3> QED
        BY <3>1, <3>2, SeqDef
    <2> QED
      BY <2>4 DEF q
  <1>6. cut' \subseteq 1..Len(emitted) /\ cut \subseteq cut'
    BY <1>2, <1>3, <1>4 DEF ClientTypes
  <1>7. ClientTypes'
    BY <1>2, <1>3, <1>5, <1>6 DEF ClientTypes, NoID, clientVars
  <1>8. Cursor'
    BY <1>1, <1>2, <1>3, <1>6, CursorStays
  <1>9. Replaying'
    <2>1. IDs(cached)' = IDs(cached') /\ Kept' = Kept
      BY <1>3 DEF IDs, Kept
    <2>2. \A n \in IDs(cached') : n \in 1..Len(emitted) /\ (emitted[n].sid = NoID => "lostreply" \in StoreFaults)
      BY <1>2, <1>4 DEF IDInv
    <2>3. \A n \in Kept : n > lastID =>
             n \in IDs(cached') \/ ((\A m \in IDs(cached') : m < n) /\ (live => n \in window \cup cut'))
      BY <1>3, <1>4
    <2> QED
      BY <1>3, <1>4, <1>5, <2>1, <2>2, <2>3 DEF Replaying
  <1>10. Watching' /\ Following' /\ StoredIsPushed'
    BY <1>3 DEF Watching, Following, StoredIsPushed
  <1> QED
    BY <1>2, <1>7, <1>8, <1>9, <1>10 DEF ClientInv

LEMMA Replays ==
    ASSUME ReconnectInv, Replayed
    PROVE  ClientInv'
  <1>1. [ReconnectNext]_allVars
    BY DEF ReconnectNext, ReconnectSteps
  <1>2. /\ LogGrows /\ FullInv' /\ FirstServed' /\ IDInv /\ ClientTypes /\ Cursor
        /\ Len(emitted) \in Nat /\ lastID \in Nat /\ \A m \in Kept : m \in 1..Len(emitted)
    BY <1>1, ReconnectMoves, FirstServedStays, LogTypes DEF ReconnectInv, ClientInv, ClientTypes
  <1> DEFINE n == Head(cached).id
  <1>3. /\ UNCHANGED <<emitted, stream, join, lost, cur, link, live, rcur, window, cut, drops>>
        /\ Deliver(n, n) /\ sentID' = n /\ cached' = Tail(cached)
        /\ link = "replaying" /\ cached # <<>>
    BY DEF Replayed, taskVars, vars, storeVars, logVars, reqVars, readVars, historyVars
  <1>4. /\ cached \in Seq([id : Nat \ {0}, type : EventTypes])
        /\ \A m \in IDs(cached) : m > lastID /\ m \in 1..Len(emitted)
                                  /\ (emitted[m].sid = NoID => "lostreply" \in StoreFaults)
        /\ \A i, j \in 1..Len(cached) : i < j => cached[i].id < cached[j].id
        /\ \A m \in Kept : m > lastID =>
              m \in IDs(cached) \/ ((\A k \in IDs(cached) : k < m) /\ (live => m \in window \cup cut))
    <2>1. Replaying
      BY DEF ReconnectInv, ClientInv
    <2> QED
      BY <1>3, <2>1 DEF Replaying
  <1>5. /\ Len(cached) \in Nat \ {0} /\ cached' \in Seq([id : Nat \ {0}, type : EventTypes])
        /\ Len(cached') = Len(cached) - 1 /\ n = cached[1].id
        /\ \A i \in 1..Len(cached') : cached'[i] = cached[i + 1]
    BY <1>3, <1>4
  <1> HIDE DEF n
  <1>6. /\ n \in IDs(cached) /\ n \in 1..Len(emitted) /\ lastID < n
        /\ \A m \in IDs(cached) : n <= m
    <2>1. 1 \in 1..Len(cached)
      BY <1>5
    <2>2. n \in IDs(cached)
      BY <1>5, <2>1 DEF IDs
    <2>3. ASSUME NEW i \in 1..Len(cached)
          PROVE  n <= cached[i].id
      <3>1. cached[i].id \in IDs(cached)
        BY DEF IDs
      <3>2. i = 1 \/ n < cached[i].id
        BY <1>4, <1>5, <2>1
      <3> QED
        BY <1>4, <1>5, <2>2, <3>1, <3>2
    <2> QED
      BY <1>4, <2>2, <2>3 DEF IDs
  <1>7. /\ \A m \in IDs(cached') : m \in IDs(cached) /\ n < m
        /\ \A m \in IDs(cached) : m = n \/ m \in IDs(cached')
    <2>1. ASSUME NEW i \in 1..Len(cached')
          PROVE  cached'[i].id \in IDs(cached) /\ n < cached'[i].id
      <3>1. i + 1 \in 1..Len(cached) /\ 1 \in 1..Len(cached) /\ 1 < i + 1 /\ cached'[i] = cached[i + 1]
        BY <1>5
      <3> QED
        BY <1>4, <1>5, <3>1 DEF IDs
    <2>2. ASSUME NEW i \in 1..Len(cached)
          PROVE  cached[i].id = n \/ cached[i].id \in IDs(cached')
      <3>1. CASE i = 1
        BY <1>5, <3>1
      <3>2. CASE i # 1
        <4>1. i - 1 \in 1..Len(cached') /\ cached'[i - 1] = cached[i - 1 + 1] /\ i - 1 + 1 = i
          BY <1>5, <3>2
        <4> QED
          BY <4>1 DEF IDs
      <3> QED
        BY <3>1, <3>2
    <2> QED
      BY <2>1, <2>2 DEF IDs
  <1>8. /\ Cursor'
        /\ lastID' \in 0..Len(emitted') /\ seen' \in Seq(1..Len(emitted'))
        /\ lastID' = n /\ n \in Received'
    <2>1. emitted[n].sid # NoID => n = n
      OBVIOUS
    <2>2. ASSUME NEW i \in 1..Len(seen)
          PROVE  \/ seen[i] < n
                 \/ emitted[seen[i]].sid = NoID /\ (seen[i] = n => "lostreply" \in StoreFaults)
      <3>1. seen[i] \in 1..Len(emitted)
        BY <1>2 DEF ClientTypes
      <3>2. CASE emitted[seen[i]].sid # NoID
        BY <1>2, <1>6, <3>1, <3>2 DEF Cursor
      <3>3. CASE emitted[seen[i]].sid = NoID
        BY <1>4, <1>6, <3>3
      <3> QED
        BY <3>2, <3>3
    <2>3. ASSUME NEW m \in Kept, lastID < m, m < n
          PROVE  Explained(m)
      <3>1. m \in 1..Len(emitted)
        BY <1>2
      <3>2. m \in IDs(cached) \/ (\A k \in IDs(cached) : k < m)
        BY <1>2, <1>4, <2>3, <3>1
      <3> QED
        BY <1>6, <2>3, <3>1, <3>2
    <2>4. UNCHANGED <<emitted, lost, cur, window, cut>> /\ \A m \in Kept' : m \in Kept
      BY <1>3 DEF Kept
    <2>5. n \in {n, NoID} /\ (n # NoID => lastID < n)
      BY <1>6
    <2>6. lastID' = n
      BY <1>3, <1>6 DEF Deliver, NoID
    <2> QED
      BY <1>2, <1>3, <1>6, <2>2, <2>3, <2>4, <2>5, <2>6, Delivered
  <1>9. ClientTypes'
    BY <1>2, <1>3, <1>5, <1>6, <1>8 DEF ClientTypes
  <1>10. Replaying'
    <2>1. IDs(cached)' = IDs(cached') /\ Kept' = Kept
      BY <1>3 DEF IDs, Kept
    <2>2. ASSUME NEW m \in Kept, m > n
          PROVE  m \in IDs(cached') \/ ((\A k \in IDs(cached') : k < m) /\ (live => m \in window \cup cut))
      BY <1>2, <1>4, <1>6, <1>7, <2>2
    <2>3. ASSUME NEW i \in 1..Len(cached'), NEW j \in 1..Len(cached'), i < j
          PROVE  cached'[i].id < cached'[j].id
      <3>1. i + 1 \in 1..Len(cached) /\ j + 1 \in 1..Len(cached) /\ i + 1 < j + 1
        BY <1>5, <2>3
      <3> QED
        BY <1>4, <1>5, <3>1
    <2>4. \A m \in IDs(cached') :
             m > n /\ m \in 1..Len(emitted) /\ (emitted[m].sid = NoID => "lostreply" \in StoreFaults)
      BY <1>4, <1>6, <1>7
    <2> QED
      BY <1>3, <1>5, <1>8, <2>1, <2>2, <2>3, <2>4 DEF Replaying
  <1>11. Watching' /\ Following' /\ StoredIsPushed'
    BY <1>3 DEF Watching, Following, StoredIsPushed
  <1> QED
    BY <1>2, <1>8, <1>9, <1>10, <1>11 DEF ClientInv

LEMMA SubscribesLive ==
    ASSUME ReconnectInv, SubscribeLive
    PROVE  ClientInv'
  <1>1. [ReconnectNext]_allVars
    BY DEF ReconnectNext, ReconnectSteps
  <1>2. /\ LogGrows /\ FullInv' /\ FullInv /\ FirstServed' /\ FirstServed /\ ClientTypes
        /\ TypeOK /\ Len(emitted) \in Nat /\ \A m \in Kept : m \in 1..Len(emitted)
    BY <1>1, ReconnectMoves, FirstServedStays, LogTypes DEF ReconnectInv, ClientInv
  <1>3. PICK s \in Subscribers : Subscribe(s) /\ rcur' = s
    BY DEF SubscribeLive
  <1>4. /\ UNCHANGED <<emitted, stream, cur, live, sentID, clientVars, lastID, seen, window, cut, drops, got>>
        /\ link = "replaying" /\ cached = <<>> /\ live /\ link' = "live" /\ cached' = NoEvents
        /\ join'[s] = Len(emitted) /\ chst[s] = "none" /\ chst'[s] # "none"
    BY <1>2, <1>3 DEF SubscribeLive, Subscribe, reqVars, clientVars, historyVars, logVars, storeVars, TypeOK
  <1>5. s # cur
    BY <1>2, <1>4 DEF FirstServed
  <1>6. got'[s] = <<>>
    BY <1>2, <1>4 DEF FullInv, DrainInv, AccountInv, FeedInv, DeliveryInv
  <1>7. ClientTypes'
    BY <1>2, <1>3, <1>4 DEF ClientTypes
  <1>8. Cursor'
    BY <1>1, <1>2, <1>4, CursorStays
  <1>9. Following'
    <2>1. IDs(cached) = {}
      BY <1>4 DEF IDs
    <2>2. \A m \in Kept' : lastID < m => m \in window \cup cut
      <3>1. Kept' = Kept
        BY <1>4 DEF Kept
      <3> QED
        BY <1>2, <1>4, <2>1, <3>1 DEF ReconnectInv, ClientInv, Replaying, ClientTypes
    <2>3. sentID # NoID => sentID \in Received'
      <3>1. Received' = Received
        BY <1>4 DEF Received
      <3> QED
        BY <1>4, <3>1 DEF ReconnectInv, ClientInv, Replaying
    <2> QED
      BY <1>2, <1>3, <1>4, <1>5, <2>2, <2>3 DEF Following, ClientTypes
  <1>10. Watching' /\ Replaying' /\ StoredIsPushed'
    BY <1>3, <1>4, <1>6 DEF Watching, Replaying, StoredIsPushed
  <1> QED
    BY <1>2, <1>7, <1>8, <1>9, <1>10 DEF ClientInv

LEMMA Forwards ==
    ASSUME ReconnectInv, Forward
    PROVE  ClientInv'
  <1>1. [ReconnectNext]_allVars
    BY DEF ReconnectNext, ReconnectSteps
  <1>2. /\ LogGrows /\ FullInv' /\ FullInv /\ FirstServed' /\ IDInv /\ ClientTypes /\ Cursor
        /\ TypeOK /\ Len(emitted) \in Nat /\ \A m \in Kept : m \in 1..Len(emitted)
        /\ lastID \in Nat /\ sentID \in Nat
    BY <1>1, ReconnectMoves, FirstServedStays, LogTypes DEF ReconnectInv, ClientInv, ClientTypes
  <1> DEFINE ev == Head(buf[rcur])
  <1>3. link = "live" /\ Following /\ StoredIsPushed /\ rcur \in Subscribers
    BY DEF Forward, ReconnectInv, ClientInv, Following
  <1>4. /\ UNCHANGED <<emitted, stream, join, lost, cur, chst, link, live, cached, sentID, rcur, window, cut, drops>>
        /\ got'[rcur] = Append(got[rcur], ev)
        /\ IF Skips(ev) THEN UNCHANGED clientVars ELSE Deliver(ev.n, ev.sid)
        /\ buf[rcur] # <<>>
    BY <1>2, <1>3 DEF Forward, Receive, TypeOK, storeVars, logVars, reqVars, sessionVars, historyVars
  <1>5. /\ ev \in Events /\ got[rcur] \in Seq(Events)
        /\ ev.n = 0 => ev.sid = NoID
        /\ ev.n # 0 => /\ ev.n \in (join[rcur] + 1)..Len(emitted) /\ ev = emitted[ev.n]
                       /\ ev.sid \in {ev.n, NoID}
        /\ \A m \in Positions(got[rcur]) : m \in (join[rcur] + 1)..Len(emitted) /\ m < ev.n
        /\ \A m \in (join[rcur] + 1)..(ev.n - 1) : m \in lost[rcur] \cup Positions(got[rcur])
        /\ join[rcur] \in Nat
    BY <1>2, <1>3, <1>4, NextOnChannel DEF TypeOK
  <1> HIDE DEF ev
  <1>6. /\ Positions(got'[rcur]) = Positions(got[rcur]) \cup ({ev.n} \ {0})
        /\ Kept' = Kept
        /\ \A i \in 1..Len(got'[rcur]) :
              got'[rcur][i] = ev \/ (i \in 1..Len(got[rcur]) /\ got'[rcur][i] = got[rcur][i])
    BY <1>4, <1>5, PositionsAppend DEF Kept
  <1>7. /\ Cursor' /\ lastID' \in 0..Len(emitted') /\ seen' \in Seq(1..Len(emitted'))
        /\ Received \subseteq Received' /\ lastID <= lastID' /\ (lastID' = lastID \/ (lastID' = ev.n /\ ev.n # 0))
        /\ ev.sid # NoID => ev.n \in Received' \/ (sentID # NoID /\ Misordered(sentID, ev.n))
    <2>1. CASE Skips(ev)
      <3>1. UNCHANGED <<clientVars, lastID, seen, Received>>
        BY <1>4, <2>1 DEF clientVars, Received
      <3>2. Cursor'
        BY <1>1, <1>2, <1>4, <3>1, CursorStays
      <3>3. ASSUME ev.sid # NoID
            PROVE  sentID # NoID /\ Misordered(sentID, ev.n)
        <4>1. sentID # NoID /\ StringLE(ev.sid, sentID)
          BY <2>1, <3>3 DEF Skips, IsDuplicate
        <4>2. ev.n # 0 /\ ev.sid = ev.n /\ ev.n \in (join[rcur] + 1)..Len(emitted)
          BY <1>5, <3>3
        <4>3. sentID <= join[rcur]
          BY <1>3 DEF Following
        <4>4. sentID < ev.n
          BY <1>2, <1>5, <4>2, <4>3
        <4> QED
          BY <4>1, <4>2, <4>4 DEF Misordered
      <3> QED
        <4>1. lastID' = lastID /\ seen' = seen /\ Received' = Received /\ emitted' = emitted
          BY <1>4, <3>1
        <4>2. lastID' \in 0..Len(emitted') /\ seen' \in Seq(1..Len(emitted')) /\ lastID <= lastID'
          BY <1>2, <4>1 DEF ClientTypes
        <4> QED
          BY <3>2, <3>3, <4>1, <4>2
    <2>2. CASE ~Skips(ev)
      <3>1. /\ Deliver(ev.n, ev.sid) /\ ev.sid # NoID /\ ev.n # 0 /\ ev.sid = ev.n /\ ev = emitted[ev.n]
            /\ ev.n \in (join[rcur] + 1)..Len(emitted) /\ ev.n \in 1..Len(emitted)
        BY <1>2, <1>4, <1>5, <2>2 DEF Skips
      <3>2. lastID < ev.n
        BY <1>2, <1>3, <1>5, <3>1 DEF Following
      <3>3. ASSUME NEW i \in 1..Len(seen)
            PROVE  \/ seen[i] < ev.n
                   \/ emitted[seen[i]].sid = NoID /\ (seen[i] = ev.n => "lostreply" \in StoreFaults)
        <4>1. seen[i] \in 1..Len(emitted)
          BY <1>2 DEF ClientTypes
        <4>2. CASE emitted[seen[i]].sid # NoID
          BY <1>2, <3>1, <3>2, <4>1, <4>2 DEF Cursor
        <4>3. CASE emitted[seen[i]].sid = NoID
          BY <3>1, <4>3
        <4> QED
          BY <4>2, <4>3
      <3>4. ASSUME NEW m \in Kept, lastID < m, m < ev.n, emitted[m].sid # NoID
            PROVE  Explained(m) \/ \E s \in Subscribers : m \in lost[s] /\ ev.n \in Brought(s)'
        <4>1. m \in 1..Len(emitted)
          BY <1>2
        <4>2. CASE m <= join[rcur]
          BY <1>3, <3>4, <4>2 DEF Following, Explained
        <4>3. CASE m \in lost[rcur]
          <5>1. PICK s \in Subscribers : s = rcur
            BY <1>3
          <5>2. ev.n \in Brought(s)'
            BY <1>4, <1>5, <5>1, BroughtAppend
          <5> QED
            BY <4>3, <5>1, <5>2
        <4>4. CASE m \in Positions(got[rcur])
          <5>1. PICK i \in 1..Len(got[rcur]) : got[rcur][i].n = m
            BY <4>4 DEF Positions
          <5>2. got[rcur][i] = emitted[m]
            BY <1>2, <1>3, <4>1, <5>1 DEF FullInv, DrainInv, AccountInv, FeedInv, DeliveryInv, Genuine
          <5>3. m \in Received \/ (sentID # NoID /\ Misordered(sentID, m))
            BY <1>3, <3>4, <5>1, <5>2 DEF StoredIsPushed
          <5>4. m \in Brought(rcur) /\ (sentID # NoID => sentID \in Received)
            BY <1>3, <5>1 DEF Brought, Following
          <5> QED
            BY <1>3, <5>3, <5>4 DEF Explained, Mistaken
        <4> QED
          <5>1. m <= join[rcur] \/ m \in (join[rcur] + 1)..(ev.n - 1)
            BY <1>5, <3>1, <3>4, <4>1
          <5> QED
            BY <1>5, <4>2, <4>3, <4>4, <5>1
      <3>5. UNCHANGED <<emitted, lost, cur, window, cut>> /\ \A m \in Kept' : m \in Kept
        BY <1>4, <1>6
      <3>6. ev.sid \in {ev.n, NoID} /\ (emitted[ev.n].sid # NoID => ev.sid = ev.n)
        BY <3>1
      <3>7. /\ Cursor'
            /\ lastID' \in 0..Len(emitted') /\ seen' \in Seq(1..Len(emitted'))
            /\ Received' = Received \cup {ev.n}
            /\ lastID <= lastID' /\ lastID' \in {lastID, ev.n}
        BY <1>2, <1>3, <3>1, <3>2, <3>3, <3>4, <3>5, <3>6, Delivered
      <3> QED
        BY <3>1, <3>7
    <2> QED
      BY <2>1, <2>2
  <1>8. ClientTypes'
    BY <1>2, <1>4, <1>7 DEF ClientTypes
  <1>9. Following'
    <2>1. lastID' <= join[rcur] \/ lastID' \in Positions(got'[rcur])
      BY <1>3, <1>6, <1>7 DEF Following
    <2>2. \A m \in Kept' : lastID' < m /\ m <= join[rcur] => m \in window \cup cut
      BY <1>2, <1>3, <1>6, <1>7 DEF Following
    <2>3. sentID # NoID => sentID \in Received'
      BY <1>3, <1>7 DEF Following
    <2> QED
      BY <1>3, <1>4, <2>1, <2>2, <2>3 DEF Following
  <1>10. StoredIsPushed'
    <2>1. ASSUME NEW i \in 1..Len(got'[rcur]), got'[rcur][i].sid # NoID
          PROVE  \/ got'[rcur][i].n \in Received'
                 \/ sentID # NoID /\ Misordered(sentID, got'[rcur][i].n)
      BY <1>3, <1>6, <1>7, <2>1 DEF StoredIsPushed
    <2> QED
      BY <1>4, <2>1 DEF StoredIsPushed
  <1>11. Watching' /\ Replaying'
    BY <1>3, <1>4 DEF Watching, Replaying
  <1> QED
    BY <1>2, <1>7, <1>8, <1>9, <1>10, <1>11 DEF ClientInv

-----------------------------------------------------------------------------
LEMMA ReconnectStarts == ReconnectInit => ReconnectInv
  <1> SUFFICES ASSUME ReconnectInit PROVE IDInv /\ ClientInv
    BY FullInit DEF ReconnectInit, ReconnectInv
  <1>1. /\ emitted = <<>> /\ stream = <<>> /\ cur = NoChannel /\ req = "building"
        /\ \A s \in Subscribers : buf[s] = <<>>
    BY DEF ReconnectInit, TaskInit, Init, StoreInit
  <1>2. IDInv
    BY <1>1 DEF IDInv, Kept
  <1>3. /\ link = "first" /\ live = FALSE /\ cached = NoEvents /\ sentID = 0 /\ rcur = NoChannel
        /\ lastID = 0 /\ seen = <<>> /\ window = {} /\ cut = {} /\ drops = 0 /\ mode = "streaming"
    BY DEF ReconnectInit, NoID
  <1>4. ClientTypes
    <2>1. 0 \in 0..MaxDrops /\ 0 \in 0..Len(emitted)
      BY <1>1, ReconnectAssumption
    <2>2. <<>> \in Seq(1..Len(emitted))
      OBVIOUS
    <2> QED
      BY <1>3, <2>1, <2>2 DEF ClientTypes
  <1>5. FirstServed
    BY <1>1, <1>3 DEF FirstServed, Before, NoID
  <1>6. Received = {}
    BY <1>3 DEF Received
  <1>7. Cursor
    BY <1>1, <1>3 DEF Cursor, NoDuplicates, Kept, NoID
  <1>8. Watching /\ Replaying /\ Following /\ StoredIsPushed
    BY <1>1, <1>3, <1>6 DEF Watching, Replaying, Following, StoredIsPushed
  <1> QED
    BY <1>2, <1>4, <1>5, <1>7, <1>8 DEF ClientInv

LEMMA ReconnectKeeps == ReconnectInv /\ [ReconnectNext]_allVars => ReconnectInv'
  <1> SUFFICES ASSUME ReconnectInv, [ReconnectNext]_allVars PROVE ClientInv'
    BY ReconnectMoves DEF ReconnectInv
  <1>1. CASE FirstRead
    BY <1>1, FirstReads
  <1>2. CASE FirstEnds \/ FirstLost
    BY <1>2, FirstLinkSteps
  <1>3. CASE ReadCache
    BY <1>3, ReadsCache
  <1>4. CASE Replayed
    BY <1>4, Replays
  <1>5. CASE SubscribeLive
    BY <1>5, SubscribesLive
  <1>6. CASE Forward
    BY <1>6, Forwards
  <1>7. CASE CheckExists \/ LookUp \/ ReadFails \/ CloseAfterReplay \/ LiveEnds \/ DropLink
    BY <1>7, HandlerLooks
  <1>8. CASE Watched(TaskSteps) \/ TimePasses \/ UNCHANGED allVars
    BY <1>8, OthersMove
  <1> QED
    BY <1>1, <1>2, <1>3, <1>4, <1>5, <1>6, <1>7, <1>8 DEF ReconnectNext, ReconnectSteps

LEMMA ReconnectInvariant == ReconnectSpec => []ReconnectInv
  BY ReconnectStarts, ReconnectKeeps, PTL DEF ReconnectSpec

\* Reconnections add readers and nothing else: with them, too, the executor is
\* only ever called as its contract allows.
THEOREM ReconnectKeepsContract == ReconnectSpec => ExecutorContract
  <1>1. ReconnectInit => Init
    BY DEF ReconnectInit, TaskInit
  <1>2. ReconnectInv /\ [ReconnectNext]_allVars => [Next]_vars
    BY ReconnectMoves, MoveIsStep DEF ReconnectInv, FullInv
  <1> QED
    BY <1>1, <1>2, ReconnectInvariant, PTL DEF ReconnectSpec, ExecutorContract, Spec

\* Every variable of a task and of its client keeps its type.
THEOREM ReconnectTypeCorrect == ReconnectSpec => []ReconnectTypeOK
  <1>1. ReconnectInv => ReconnectTypeOK
    BY TaskTypesHold DEF ReconnectInv, ClientInv, ClientTypes, ReconnectTypeOK
  <1> QED
    BY <1>1, ReconnectInvariant, PTL

\* Across all its connections a client receives no event twice and none out of
\* order, but for the two ways a failed write leaves an event without its ID.
THEOREM NothingTwice == ReconnectSpec => []NoDuplicates
  <1>1. ReconnectInv => NoDuplicates
    BY DEF ReconnectInv, ClientInv, Cursor
  <1> QED
    BY <1>1, ReconnectInvariant, PTL

\* The causes LossesExplained lists are all the ways a client that reconnects
\* can miss an event of the store.
THEOREM EveryLossHasItsCause == ReconnectSpec => []LossesExplained
  <1>1. ReconnectInv => LossesExplained
    <2> SUFFICES ASSUME ReconnectInv, NEW i \in 1..Len(stream), stream[i].id < lastID,
                        emitted[stream[i].id].sid # NoID
                 PROVE  Explained(stream[i].id)
      BY DEF LossesExplained, Explained
    <2>1. stream[i].id \in Kept
      BY DEF Kept
    <2>2. stream[i].id \in 1..Len(emitted) /\ lastID \in Nat /\ Len(emitted) \in Nat
      BY <2>1, LogTypes DEF ReconnectInv, ClientInv, ClientTypes
    <2> QED
      BY <2>1, <2>2 DEF ReconnectInv, ClientInv, Cursor
  <1> QED
    BY <1>1, ReconnectInvariant, PTL

\* The live half of a reconnection skips no stored event that was not sent, but
\* one whose ID strings order before that of the last event replayed.
THEOREM LiveSkipsOnlySent == ReconnectSpec => []StoredIsPushed
  <1>1. ReconnectInv => StoredIsPushed
    BY DEF ReconnectInv, ClientInv
  <1> QED
    BY <1>1, ReconnectInvariant, PTL
=============================================================================
