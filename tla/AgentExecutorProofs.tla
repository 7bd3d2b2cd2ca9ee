------------------------- MODULE AgentExecutorProofs ------------------------
(***************************************************************************)
(* What holds of every execution, for any set of subscribers, any channel  *)
(* capacity and any bound on the number of events.                         *)
(***************************************************************************)
EXTENDS AgentExecutor, TLAPS

\* An event of the log, or one made up by Subscribe, is a well-formed event.
LEMMA EventType ==
    ASSUME NEW n \in Nat, NEW type \in EventTypes, NEW sid \in Nat
    PROVE  Event(n, type, sid) \in Events
  BY DEF Event, Events

\* Appending stays within the sequences over a set.
LEMMA AppendType ==
    ASSUME NEW S, NEW q \in Seq(S), NEW x \in S
    PROVE  Append(q, x) \in Seq(S)
  OBVIOUS

\* The tail of a non-empty sequence, and its first element.
LEMMA TailType ==
    ASSUME NEW S, NEW q \in Seq(S), q # <<>>
    PROVE  /\ Tail(q) \in Seq(S)
           /\ Head(q) \in S
  OBVIOUS

\* broadcastEvent keeps the log, the store, the channels and the drop record
\* well-formed.
LEMMA BroadcastType ==
    ASSUME TypeOK, NEW type \in EventTypes, NEW o,
           Broadcast(type, o)
    PROVE  /\ emitted' \in Seq(Events)
           /\ stream' \in Seq([id : Nat, type : EventTypes])
           /\ buf' \in [Subscribers -> Seq(Events)]
           /\ lost' \in [Subscribers -> SUBSET Nat]
  <1> DEFINE n == Len(emitted) + 1
             ev == Event(n, type, ReturnedID(n, o))
  <1>1. n \in Nat
    BY DEF TypeOK
  <1>2. ev \in Events
    BY <1>1, EventType DEF ReturnedID, NoID
  <1>3. emitted' \in Seq(Events)
    BY <1>2, AppendType DEF TypeOK, Broadcast
  <1>4. stream' \in Seq([id : Nat, type : EventTypes])
    <2>1. Entry(n, type) \in [id : Nat, type : EventTypes]
      BY <1>1 DEF Entry
    <2>2. stream' = IF o = "fail" THEN stream ELSE Append(stream, Entry(n, type))
      BY DEF Broadcast, StreamAfterAppend
    <2> QED
      BY <2>1, <2>2, AppendType DEF TypeOK
  <1>5. buf' \in [Subscribers -> Seq(Events)]
    <2>1. \A s \in Subscribers : Offer(buf[s], ev) \in Seq(Events)
      BY <1>2, AppendType DEF TypeOK, Offer
    <2> QED
      BY <2>1 DEF TypeOK, Broadcast
  <1>6. lost' \in [Subscribers -> SUBSET Nat]
    BY <1>1 DEF TypeOK, Broadcast
  <1> QED
    BY <1>3, <1>4, <1>5, <1>6

\* The empty sequence and a one-event replay are buffers.
LEMMA ReplayType ==
    ASSUME TypeOK
    PROVE  Replay \in Seq(Events)
  <1>1. \A type \in EventTypes : <<Synthetic(type)>> \in Seq(Events)
    BY EventType DEF Synthetic, NoID
  <1>2. "start" \in EventTypes /\ "complete" \in EventTypes /\ "error" \in EventTypes
    BY DEF EventTypes, TerminalTypes
  <1> QED
    BY <1>1, <1>2 DEF Replay

\* The initial state is well typed.
LEMMA InitType == Init => TypeOK
  BY ExecutorAssumption, StoreAssumption
  DEF Init, StoreInit, TypeOK, NoTTL

\* Ending an execution keeps every variable but output and err well typed.
LEMMA EndType ==
    ASSUME TypeOK, NEW st \in {"completed", "failed", "cancelled"}, End(st)
    PROVE  /\ status' = st
           /\ reg' = reg /\ chst' \in [Subscribers -> {"none", "open", "closed"}]
           /\ emitted' \in Seq(Events)
           /\ stream' \in Seq([id : Nat, type : EventTypes])
           /\ ttl' \in Nat
           /\ buf' \in [Subscribers -> Seq(Events)]
           /\ lost' \in [Subscribers -> SUBSET Nat]
           /\ UNCHANGED <<ctxVars, readVars>>
  <1>1. PICK o \in Outcomes, set \in BOOLEAN :
            /\ Broadcast(TerminalOf(st), o)
            /\ ttl' = TTLAfterSetTTL(stream', TTLAfterAppend(o), set)
    BY DEF End, Finish, SetTTLOutcomes
  <1>2. TerminalOf(st) \in EventTypes
    BY DEF TerminalOf, EventTypes, TerminalTypes
  <1>4. /\ emitted' \in Seq(Events)
        /\ stream' \in Seq([id : Nat, type : EventTypes])
        /\ buf' \in [Subscribers -> Seq(Events)]
        /\ lost' \in [Subscribers -> SUBSET Nat]
    BY <1>1, <1>2, BroadcastType
  <1>5. ttl' \in Nat
    BY <1>1, StoreAssumption DEF TTLAfterSetTTL, TTLAfterAppend, TypeOK
  <1>6. chst' \in [Subscribers -> {"none", "open", "closed"}]
    BY DEF End, Finish, CloseAll, TypeOK
  <1> QED
    BY <1>4, <1>5, <1>6 DEF End, Finish

\* Every step keeps every variable well typed.
LEMMA NextType == TypeOK /\ [Next]_vars => TypeOK'
  <1> SUFFICES ASSUME TypeOK, [Next]_vars
               PROVE  TypeOK'
    OBVIOUS
  <1> USE DEF resultVars, channelVars, ctxVars, logVars, readVars, storeVars
  <1>1. CASE StartOnce
    <2>1. PICK o \in Outcomes : Broadcast("start", o) /\ ttl' = TTLAfterAppend(o)
      BY <1>1 DEF StartOnce, Start
    <2>2. "start" \in EventTypes
      BY DEF EventTypes
    <2>3. /\ emitted' \in Seq(Events)
          /\ stream' \in Seq([id : Nat, type : EventTypes])
          /\ buf' \in [Subscribers -> Seq(Events)]
          /\ lost' \in [Subscribers -> SUBSET Nat]
      BY <2>1, <2>2, BroadcastType
    <2>4. ttl' \in Nat
      BY <2>1, StoreAssumption DEF TTLAfterAppend, TypeOK
    <2> QED
      BY <1>1, <2>3, <2>4 DEF StartOnce, Start, TypeOK
  <1>2. ASSUME NEW type \in ContentTypes, PublishRunning(type)
        PROVE  TypeOK'
    <2>1. PICK o \in Outcomes : Broadcast(type, o) /\ ttl' = TTLAfterAppend(o)
      BY <1>2 DEF PublishRunning, Publish
    <2>2. type \in EventTypes
      BY DEF EventTypes
    <2>3. /\ emitted' \in Seq(Events)
          /\ stream' \in Seq([id : Nat, type : EventTypes])
          /\ buf' \in [Subscribers -> Seq(Events)]
          /\ lost' \in [Subscribers -> SUBSET Nat]
      BY <2>1, <2>2, BroadcastType
    <2>4. ttl' \in Nat
      BY <2>1, StoreAssumption DEF TTLAfterAppend, TypeOK
    <2> QED
      BY <1>2, <2>3, <2>4 DEF PublishRunning, Publish, TypeOK
  <1>3. ASSUME NEW out \in Outputs, Complete(out)
        PROVE  TypeOK'
    BY <1>3, EndType DEF Complete, TypeOK
  <1>4. ASSUME NEW e \in Errors, Fail(e)
        PROVE  TypeOK'
    BY <1>4, EndType DEF Fail, TypeOK
  <1>5. CASE Cancel
    BY <1>5, EndType DEF Cancel, TypeOK
  <1>6. ASSUME NEW s \in Subscribers, Subscribe(s)
        PROVE  TypeOK'
    <2>1. buf' \in [Subscribers -> Seq(Events)]
      BY <1>6, ReplayType DEF Subscribe, TypeOK
    <2>2. join' \in [Subscribers -> Nat]
      BY <1>6 DEF Subscribe, TypeOK
    <2> QED
      BY <1>6, <2>1, <2>2 DEF Subscribe, TypeOK
  <1>7. ASSUME NEW s \in Subscribers, Receive(s)
        PROVE  TypeOK'
    <2>1. Tail(buf[s]) \in Seq(Events) /\ Head(buf[s]) \in Events
      BY <1>7, TailType DEF Receive, TypeOK
    <2>2. Append(got[s], Head(buf[s])) \in Seq(Events)
      BY <2>1, AppendType DEF TypeOK
    <2>3. buf' \in [Subscribers -> Seq(Events)] /\ got' \in [Subscribers -> Seq(Events)]
      BY <1>7, <2>1, <2>2 DEF Receive, TypeOK
    <2> QED
      BY <1>7, <2>3 DEF Receive, TypeOK
  <1>8. CASE SetExecContextOnce
    BY <1>8 DEF SetExecContextOnce, SetExecContext, TypeOK
  <1>9. CASE CtxDone
    BY <1>9 DEF CtxDone, TypeOK
  <1>10. CASE ExecCtxDone
    BY <1>10 DEF ExecCtxDone, TypeOK
  <1>11. CASE Tick
    <2>1. stream' \in Seq([id : Nat, type : EventTypes]) /\ ttl' \in Nat
      BY <1>11 DEF Tick, StoreTick, TypeOK, NoTTL
    <2> QED
      BY <1>11, <2>1 DEF Tick, TypeOK
  <1>12. CASE UNCHANGED vars
    BY <1>12 DEF vars, TypeOK
  <1> QED
    BY <1>1, <1>2, <1>3, <1>4, <1>5, <1>6, <1>7, <1>8, <1>9, <1>10, <1>11, <1>12
    DEF Next

\* Every variable of an executor keeps its type, whatever its callers, its
\* readers, its contexts and Redis do.
THEOREM TypeCorrect == Spec => []TypeOK
  BY InitType, NextType, PTL DEF Spec

-----------------------------------------------------------------------------
(***************************************************************************)
(* Channels are closed exactly at the end.  By itself this is not          *)
(* inductive: closeAllSubscribers closes the registered channels, so every *)
(* open channel must be registered when the execution ends.                *)
(***************************************************************************)
OpenIsRegistered == \A s \in Subscribers : chst[s] = "open" => s \in reg

ChannelInv == TypeOK /\ ClosedIffEnded /\ OpenIsRegistered

LEMMA ChannelInit == Init => ChannelInv
  <1> SUFFICES ASSUME Init PROVE ClosedIffEnded /\ OpenIsRegistered
    BY InitType DEF ChannelInv
  <1> QED
    BY DEF Init, ClosedIffEnded, OpenIsRegistered, IsTerminated

\* The end of an execution closes every channel there is.
LEMMA ChannelEnd ==
    ASSUME ChannelInv, NEW st \in {"completed", "failed", "cancelled"}, End(st)
    PROVE  ClosedIffEnded' /\ OpenIsRegistered'
  <1>1. ~IsTerminated /\ IsTerminated'
    BY EndType DEF End, Finish, IsTerminated, ChannelInv
  <1>2. \A s \in Subscribers : chst'[s] = IF s \in reg THEN "closed" ELSE chst[s]
    BY DEF End, Finish, CloseAll
  <1>3. \A s \in Subscribers : s \in reg \/ chst[s] = "none"
    BY <1>1 DEF ChannelInv, ClosedIffEnded, OpenIsRegistered, TypeOK
  <1>4. \A s \in Subscribers : s \in reg => chst'[s] = "closed"
    BY <1>2
  <1>5. \A s \in Subscribers : s \notin reg => chst'[s] = "none"
    BY <1>2, <1>3
  <1> QED
    BY <1>1, <1>4, <1>5 DEF ClosedIffEnded, OpenIsRegistered

LEMMA ChannelNext == ChannelInv /\ [Next]_vars => ChannelInv'
  <1> SUFFICES ASSUME ChannelInv, [Next]_vars
               PROVE  ClosedIffEnded' /\ OpenIsRegistered'
    BY NextType DEF ChannelInv
  <1> USE DEF resultVars, channelVars, ctxVars, logVars, readVars, storeVars
  <1>1. CASE StartOnce
    BY <1>1 DEF StartOnce, Start, ChannelInv, ClosedIffEnded, OpenIsRegistered, IsTerminated
  <1>2. ASSUME NEW type \in ContentTypes, PublishRunning(type)
        PROVE  ClosedIffEnded' /\ OpenIsRegistered'
    BY <1>2 DEF PublishRunning, Publish, ChannelInv, ClosedIffEnded, OpenIsRegistered, IsTerminated
  <1>3. ASSUME NEW out \in Outputs, Complete(out)
        PROVE  ClosedIffEnded' /\ OpenIsRegistered'
    BY <1>3, ChannelEnd DEF Complete
  <1>4. ASSUME NEW e \in Errors, Fail(e)
        PROVE  ClosedIffEnded' /\ OpenIsRegistered'
    BY <1>4, ChannelEnd DEF Fail
  <1>5. CASE Cancel
    BY <1>5, ChannelEnd DEF Cancel
  <1>6. ASSUME NEW s \in Subscribers, Subscribe(s)
        PROVE  ClosedIffEnded' /\ OpenIsRegistered'
    BY <1>6 DEF Subscribe, ChannelInv, ClosedIffEnded, OpenIsRegistered, IsTerminated, TypeOK
  <1>7. ASSUME NEW s \in Subscribers, Receive(s)
        PROVE  ClosedIffEnded' /\ OpenIsRegistered'
    BY <1>7 DEF Receive, ChannelInv, ClosedIffEnded, OpenIsRegistered, IsTerminated
  <1>8. CASE SetExecContextOnce \/ CtxDone \/ ExecCtxDone \/ Tick
    BY <1>8 DEF SetExecContextOnce, SetExecContext, CtxDone, ExecCtxDone, Tick,
                ChannelInv, ClosedIffEnded, OpenIsRegistered, IsTerminated
  <1>9. CASE UNCHANGED vars
    BY <1>9 DEF vars, ChannelInv, ClosedIffEnded, OpenIsRegistered, IsTerminated
  <1> QED
    BY <1>1, <1>2, <1>3, <1>4, <1>5, <1>6, <1>7, <1>8, <1>9 DEF Next

\* No subscriber is ever left blocked on an ended execution, and none is cut
\* off from a live one, however subscriptions race the end.
THEOREM ChannelsClosedAtEnd == Spec => []ClosedIffEnded
  <1>1. ChannelInv => ClosedIffEnded
    BY DEF ChannelInv
  <1> QED
    BY <1>1, ChannelInit, ChannelNext, PTL DEF Spec

-----------------------------------------------------------------------------
(***************************************************************************)
(* One outcome.  Inductive with the types: an event of a terminal type is  *)
(* broadcast by End alone, End needs an execution that has not ended, and  *)
(* nothing follows it.                                                     *)
(***************************************************************************)
OutcomeInv == TypeOK /\ OneOutcome

LEMMA OutcomeInit == Init => OutcomeInv
  <1> SUFFICES ASSUME Init PROVE OneOutcome
    BY InitType DEF OutcomeInv
  <1> QED
    BY DEF Init, OneOutcome, IsTerminated

\* What one broadcast does to the log.
LEMMA BroadcastLog ==
    ASSUME TypeOK, NEW type \in EventTypes, NEW o, Broadcast(type, o)
    PROVE  /\ Len(emitted') = Len(emitted) + 1
           /\ \A i \in 1..Len(emitted) : emitted'[i] = emitted[i]
           /\ emitted'[Len(emitted) + 1].n = Len(emitted) + 1
           /\ emitted'[Len(emitted) + 1].type = type
           /\ emitted'[Len(emitted) + 1].sid = ReturnedID(Len(emitted) + 1, o)
  <1> DEFINE ev == Event(Len(emitted) + 1, type, ReturnedID(Len(emitted) + 1, o))
  <1>1. emitted' = Append(emitted, ev) /\ emitted \in Seq(Events)
    BY DEF Broadcast, TypeOK
  <1>2. ev \in Events
    BY EventType DEF ReturnedID, NoID, TypeOK
  <1>3. /\ ev.n = Len(emitted) + 1
        /\ ev.type = type
        /\ ev.sid = ReturnedID(Len(emitted) + 1, o)
    BY DEF Event
  <1> HIDE DEF ev
  <1>4. /\ Len(emitted') = Len(emitted) + 1
        /\ \A i \in 1..Len(emitted) : emitted'[i] = emitted[i]
        /\ emitted'[Len(emitted) + 1] = ev
    BY <1>1, <1>2
  <1> QED
    BY <1>3, <1>4

\* A broadcast of a content event to a live execution leaves it without outcome.
LEMMA OutcomeContent ==
    ASSUME OutcomeInv, NEW type \in EventTypes \ TerminalTypes, NEW o,
           Broadcast(type, o), ~IsTerminated, ~IsTerminated',
           output' = output, err' = err
    PROVE  OneOutcome'
  <1>1. \A i \in 1..Len(emitted') : emitted'[i].type \notin TerminalTypes
    <2>1. /\ Len(emitted') = Len(emitted) + 1
          /\ \A i \in 1..Len(emitted) : emitted'[i] = emitted[i]
          /\ emitted'[Len(emitted) + 1].type = type
      BY BroadcastLog DEF OutcomeInv
    <2>2. \A i \in 1..Len(emitted) : emitted[i].type \notin TerminalTypes
      BY DEF OutcomeInv, OneOutcome
    <2>3. Len(emitted) \in Nat
      BY DEF OutcomeInv, TypeOK
    <2> QED
      BY <2>1, <2>2, <2>3
  <1>2. output' = NoOutput /\ err' = NoError
    BY DEF OutcomeInv, OneOutcome, IsTerminated
  <1> QED
    BY <1>1, <1>2 DEF OneOutcome, IsTerminated

\* The end of an execution gives it its outcome.
LEMMA OutcomeEnd ==
    ASSUME OutcomeInv, NEW st \in {"completed", "failed", "cancelled"}, End(st),
           output' # NoOutput <=> st = "completed",
           err' # NoError <=> st = "failed"
    PROVE  OneOutcome'
  <1>1. PICK o \in Outcomes : Broadcast(TerminalOf(st), o)
    BY DEF End, Finish
  <1>2. TerminalOf(st) \in TerminalTypes /\ TerminalOf(st) \in EventTypes
    BY DEF TerminalOf, EventTypes, TerminalTypes
  <1>3. /\ Len(emitted') = Len(emitted) + 1
        /\ \A i \in 1..Len(emitted) : emitted'[i] = emitted[i]
        /\ emitted'[Len(emitted) + 1].type = TerminalOf(st)
    BY <1>1, <1>2, BroadcastLog DEF OutcomeInv
  <1>4. ~IsTerminated /\ status' = st /\ IsTerminated'
    BY DEF End, Finish, IsTerminated
  <1>5. \A i \in 1..Len(emitted) : emitted[i].type \notin TerminalTypes
    BY <1>4 DEF OutcomeInv, OneOutcome
  <1>6. Len(emitted) \in Nat /\ emitted' \in Seq(Events)
    BY EndType DEF OutcomeInv, TypeOK
  <1>7. emitted' # <<>> /\ emitted'[Len(emitted')].type = TerminalOf(status')
    BY <1>3, <1>4, <1>6
  <1>8. \A i \in 1..Len(emitted') :
           emitted'[i].type \in TerminalTypes => i = Len(emitted')
    BY <1>3, <1>5, <1>6
  <1> QED
    BY <1>4, <1>7, <1>8 DEF OneOutcome

LEMMA OutcomeNext == OutcomeInv /\ [Next]_vars => OutcomeInv'
  <1> SUFFICES ASSUME OutcomeInv, [Next]_vars
               PROVE  OneOutcome'
    BY NextType DEF OutcomeInv
  <1> USE DEF resultVars, channelVars, ctxVars, logVars, readVars, storeVars
  <1>1. CASE StartOnce
    <2>1. PICK o \in Outcomes : Broadcast("start", o)
      BY <1>1 DEF StartOnce, Start
    <2>2. "start" \in EventTypes \ TerminalTypes
      BY DEF EventTypes, TerminalTypes
    <2>3. ~IsTerminated /\ ~IsTerminated' /\ output' = output /\ err' = err
      BY <1>1 DEF StartOnce, Start, IsTerminated
    <2> QED
      BY <2>1, <2>2, <2>3, OutcomeContent
  <1>2. ASSUME NEW type \in ContentTypes, PublishRunning(type)
        PROVE  OneOutcome'
    <2>1. PICK o \in Outcomes : Broadcast(type, o)
      BY <1>2 DEF PublishRunning, Publish
    <2>2. type \in EventTypes \ TerminalTypes
      BY ExecutorAssumption DEF EventTypes
    <2>3. ~IsTerminated /\ ~IsTerminated' /\ output' = output /\ err' = err
      BY <1>2 DEF PublishRunning, Publish, IsTerminated
    <2> QED
      BY <2>1, <2>2, <2>3, OutcomeContent
  <1>3. ASSUME NEW out \in Outputs, Complete(out)
        PROVE  OneOutcome'
    <2>1. output' # NoOutput /\ err' = NoError
      BY <1>3, ExecutorAssumption DEF Complete, End, Finish, OutcomeInv, OneOutcome, IsTerminated
    <2> QED
      BY <1>3, <2>1, OutcomeEnd DEF Complete
  <1>4. ASSUME NEW e \in Errors, Fail(e)
        PROVE  OneOutcome'
    <2>1. output' = NoOutput /\ err' # NoError
      BY <1>4, ExecutorAssumption DEF Fail, End, Finish, OutcomeInv, OneOutcome, IsTerminated
    <2> QED
      BY <1>4, <2>1, OutcomeEnd DEF Fail
  <1>5. CASE Cancel
    <2>1. output' = NoOutput /\ err' = NoError
      BY <1>5 DEF Cancel, End, Finish, OutcomeInv, OneOutcome, IsTerminated
    <2> QED
      BY <1>5, <2>1, OutcomeEnd DEF Cancel
  <1>6. CASE UNCHANGED <<resultVars, emitted>>
    BY <1>6 DEF OutcomeInv, OneOutcome, IsTerminated
  <1> QED
    BY <1>1, <1>2, <1>3, <1>4, <1>5, <1>6
    DEF Next, Subscribe, Receive, SetExecContextOnce, SetExecContext, CtxDone, ExecCtxDone, Tick, vars

\* An execution has at most one outcome; status, output, error and the last
\* event broadcast all name it, whatever Complete, Fail and Cancel race for.
THEOREM OutcomeIsUnique == Spec => []OneOutcome
  <1>1. OutcomeInv => OneOutcome
    BY DEF OutcomeInv
  <1> QED
    BY <1>1, OutcomeInit, OutcomeNext, PTL DEF Spec

-----------------------------------------------------------------------------
\* What no step may do to an ended execution.
LEMMA FinalStep ==
    ASSUME TypeOK, [Next]_vars, IsTerminated
    PROVE  /\ UNCHANGED <<status, output, err, emitted, reg>>
           /\ \A s \in Subscribers :
                 chst[s] = "closed" => /\ chst'[s] = "closed"
                                       /\ Len(buf'[s]) <= Len(buf[s])
  <1> USE DEF resultVars, channelVars, ctxVars, logVars, readVars, storeVars
  <1>1. CASE \E s \in Subscribers : Subscribe(s)
    <2>1. PICK s \in Subscribers : Subscribe(s)
      BY <1>1
    <2>2. \A t \in Subscribers : chst[t] = "closed" => t # s
      BY <2>1 DEF Subscribe
    <2>3. \A t \in Subscribers : t # s => chst'[t] = chst[t] /\ buf'[t] = buf[t]
      BY <2>1 DEF Subscribe, TypeOK
    <2>4. \A t \in Subscribers : Len(buf[t]) \in Nat
      BY DEF TypeOK
    <2> QED
      BY <2>1, <2>2, <2>3, <2>4 DEF Subscribe
  <1>2. CASE \E s \in Subscribers : Receive(s)
    <2>1. PICK s \in Subscribers : Receive(s)
      BY <1>2
    <2>2. Len(Tail(buf[s])) <= Len(buf[s])
      BY <2>1 DEF Receive, TypeOK
    <2>3. \A t \in Subscribers : t # s => buf'[t] = buf[t]
      BY <2>1 DEF Receive, TypeOK
    <2>4. buf'[s] = Tail(buf[s])
      BY <2>1 DEF Receive, TypeOK
    <2>5. \A t \in Subscribers : Len(buf[t]) \in Nat
      BY DEF TypeOK
    <2> QED
      BY <2>1, <2>2, <2>3, <2>4, <2>5 DEF Receive
  <1>3. CASE UNCHANGED <<resultVars, emitted, reg, chst, buf>>
    <2>1. \A t \in Subscribers : Len(buf[t]) \in Nat
      BY DEF TypeOK
    <2> QED
      BY <1>3, <2>1
  <1>4. ~StartOnce /\ ~(\E type \in ContentTypes : PublishRunning(type))
        /\ ~(\E out \in Outputs : Complete(out)) /\ ~(\E e \in Errors : Fail(e))
        /\ ~Cancel
    BY DEF StartOnce, Start, PublishRunning, Publish, Complete, Fail, Cancel, End, Finish, IsTerminated
  <1> QED
    BY <1>1, <1>2, <1>3, <1>4
    DEF Next, SetExecContextOnce, SetExecContext, CtxDone, ExecCtxDone, Tick, vars

\* The outcome never changes once it is there, nothing is broadcast after it,
\* and no event is ever put into a closed channel.
THEOREM EndStaysFinal == Spec => EndIsFinal
  <1>1. TypeOK /\ [Next]_vars =>
          [IsTerminated =>
             /\ UNCHANGED <<status, output, err, emitted, reg>>
             /\ \A s \in Subscribers :
                  chst[s] = "closed" => /\ chst'[s] = "closed"
                                        /\ Len(buf'[s]) <= Len(buf[s])]_vars
    BY FinalStep
  <1> QED
    BY <1>1, TypeCorrect, PTL DEF Spec, EndIsFinal

-----------------------------------------------------------------------------
(***************************************************************************)
(* Order of delivery.  InOrder speaks of what a channel has carried as one *)
(* sequence; the invariant keeps apart what was received and what is still *)
(* buffered: both in order, the first before the second, and both made of  *)
(* events of the log from after the subscription.                          *)
(***************************************************************************)
Ordered(q) == \A i, j \in 1..Len(q) : i < j => q[i].n < q[j].n

Genuine(q, start, log) ==
    \A i \in 1..Len(q) :
        q[i].n # 0 => /\ q[i].n \in (start + 1)..Len(log)
                      /\ q[i] = log[q[i].n]

DeliveryInv(s) ==
    /\ chst[s] = "none" => s \notin reg /\ got[s] = <<>> /\ buf[s] = <<>>
    /\ join[s] <= Len(emitted)
    /\ Ordered(got[s]) /\ Ordered(buf[s])
    /\ \A i \in 1..Len(got[s]), j \in 1..Len(buf[s]) : got[s][i].n < buf[s][j].n
    /\ Genuine(got[s], join[s], emitted) /\ Genuine(buf[s], join[s], emitted)

FeedInv ==
    /\ TypeOK
    /\ \A i \in 1..Len(emitted) : emitted[i].n = i
    /\ \A s \in Subscribers : DeliveryInv(s)

\* Taking the head off an ordered sequence, and appending a later event to it.
LEMMA OrderedTail ==
    ASSUME NEW q \in Seq(Events), q # <<>>, Ordered(q)
    PROVE  /\ Ordered(Tail(q))
           /\ Len(Tail(q)) = Len(q) - 1
           /\ \A j \in 1..Len(Tail(q)) : Tail(q)[j] = q[j + 1] /\ Head(q).n < Tail(q)[j].n
  <1>1. /\ Len(Tail(q)) = Len(q) - 1 /\ Len(q) \in Nat \ {0}
        /\ \A j \in 1..Len(Tail(q)) : Tail(q)[j] = q[j + 1]
        /\ Head(q) = q[1]
    OBVIOUS
  <1> QED
    BY <1>1 DEF Ordered

LEMMA OrderedAppend ==
    ASSUME NEW q \in Seq(Events), NEW ev \in Events, Ordered(q),
           \A i \in 1..Len(q) : q[i].n < ev.n
    PROVE  /\ Ordered(Append(q, ev))
           /\ Len(Append(q, ev)) = Len(q) + 1
           /\ \A i \in 1..Len(q) : Append(q, ev)[i] = q[i]
           /\ Append(q, ev)[Len(q) + 1] = ev
  <1>1. /\ Len(Append(q, ev)) = Len(q) + 1 /\ Len(q) \in Nat
        /\ \A i \in 1..Len(q) : Append(q, ev)[i] = q[i]
        /\ Append(q, ev)[Len(q) + 1] = ev
    OBVIOUS
  <1> QED
    BY <1>1 DEF Ordered

LEMMA FeedInit == Init => FeedInv
  <1> SUFFICES ASSUME Init PROVE FeedInv
    OBVIOUS
  <1>1. TypeOK
    BY InitType
  <1> QED
    BY <1>1 DEF Init, FeedInv, DeliveryInv, Ordered, Genuine

\* A broadcast extends the log, and every channel by nothing or by its event.
LEMMA FeedBroadcast ==
    ASSUME FeedInv, NEW type \in EventTypes, NEW o, Broadcast(type, o),
           UNCHANGED <<got, join, reg>>,
           \A s \in Subscribers : chst'[s] = "none" <=> chst[s] = "none"
    PROVE  /\ \A i \in 1..Len(emitted') : emitted'[i].n = i
           /\ \A s \in Subscribers : DeliveryInv(s)'
  <1> DEFINE ev == Event(Len(emitted) + 1, type, ReturnedID(Len(emitted) + 1, o))
  <1>1. /\ emitted \in Seq(Events) /\ Len(emitted) \in Nat
        /\ \A s \in Subscribers : buf[s] \in Seq(Events) /\ got[s] \in Seq(Events)
                                  /\ join[s] \in Nat
    BY DEF FeedInv, TypeOK
  <1>2. ev \in Events /\ ev.n = Len(emitted) + 1
    BY <1>1, EventType DEF ReturnedID, NoID, Event
  <1>3. emitted' = Append(emitted, ev)
    BY DEF Broadcast
  <1>4. \A s \in Subscribers : \/ buf'[s] = buf[s]
                               \/ s \in reg /\ buf'[s] = Append(buf[s], ev)
    BY DEF Broadcast, Offer
  <1> HIDE DEF ev
  <1>5. /\ Len(emitted') = Len(emitted) + 1
        /\ \A i \in 1..Len(emitted) : emitted'[i] = emitted[i]
        /\ emitted'[Len(emitted) + 1] = ev
    BY <1>1, <1>2, <1>3
  <1>6. \A i \in 1..Len(emitted') : emitted'[i].n = i
    BY <1>1, <1>2, <1>5 DEF FeedInv
  <1>7. ASSUME NEW s \in Subscribers
        PROVE  DeliveryInv(s)'
    <2>1. DeliveryInv(s)
      BY DEF FeedInv
    <2>2. join'[s] = join[s] /\ got'[s] = got[s] /\ join[s] <= Len(emitted')
      BY <1>1, <1>5, <2>1 DEF DeliveryInv
    <2>3. ASSUME NEW q \in Seq(Events), Genuine(q, join[s], emitted)
          PROVE  /\ Genuine(q, join[s], emitted')
                 /\ \A i \in 1..Len(q) : q[i].n < ev.n
      <3>1. ASSUME NEW i \in 1..Len(q)
            PROVE  /\ q[i].n # 0 => /\ q[i].n \in (join[s] + 1)..Len(emitted')
                                    /\ q[i] = emitted'[q[i].n]
                   /\ q[i].n < ev.n
        <4>1. q[i].n \in Nat
          <5>1. q[i] \in Events
            OBVIOUS
          <5> QED
            BY <5>1 DEF Events
        <4>2. CASE q[i].n = 0
          BY <1>1, <1>2, <4>2
        <4>3. CASE q[i].n # 0
          <5>1. q[i].n \in (join[s] + 1)..Len(emitted) /\ q[i] = emitted[q[i].n]
            BY <2>3, <4>3 DEF Genuine
          <5>2. q[i].n \in 1..Len(emitted)
            BY <1>1, <5>1
          <5> QED
            BY <1>1, <1>2, <1>5, <4>1, <5>1, <5>2
        <4> QED
          BY <4>2, <4>3
      <3> QED
        BY <3>1 DEF Genuine
    <2>4. /\ Genuine(got[s], join[s], emitted')
          /\ Genuine(buf[s], join[s], emitted')
          /\ \A i \in 1..Len(got[s]) : got[s][i].n < ev.n
          /\ \A i \in 1..Len(buf[s]) : buf[s][i].n < ev.n
      BY <1>1, <2>1, <2>3 DEF DeliveryInv
    <2>5. CASE buf'[s] = buf[s]
      BY <2>1, <2>2, <2>4, <2>5 DEF DeliveryInv
    <2>6. CASE s \in reg /\ buf'[s] = Append(buf[s], ev)
      <3>1. /\ Ordered(buf'[s])
            /\ Len(buf'[s]) = Len(buf[s]) + 1 /\ Len(buf[s]) \in Nat
            /\ \A i \in 1..Len(buf[s]) : buf'[s][i] = buf[s][i]
            /\ buf'[s][Len(buf[s]) + 1] = ev
        <4>1. buf[s] \in Seq(Events) /\ Ordered(buf[s])
          BY <1>1, <2>1 DEF DeliveryInv
        <4>2. Ordered(Append(buf[s], ev))
          BY <1>2, <2>4, <4>1, OrderedAppend
        <4> QED
          BY <2>6, <4>1, <4>2
      <3>2. ASSUME NEW i \in 1..Len(got[s]), NEW j \in 1..Len(buf'[s])
            PROVE  got[s][i].n < buf'[s][j].n
        <4>1. CASE j \in 1..Len(buf[s])
          BY <2>1, <3>1, <4>1 DEF DeliveryInv
        <4>2. CASE j = Len(buf[s]) + 1
          BY <2>4, <3>1, <4>2
        <4> QED
          BY <3>1, <4>1, <4>2
      <3>3. Genuine(buf'[s], join[s], emitted')
        <4>1. ev.n \in (join[s] + 1)..Len(emitted') /\ ev = emitted'[ev.n]
          BY <1>1, <1>2, <1>5, <2>1 DEF DeliveryInv
        <4>2. ASSUME NEW i \in 1..Len(buf'[s]), buf'[s][i].n # 0
              PROVE  /\ buf'[s][i].n \in (join[s] + 1)..Len(emitted')
                     /\ buf'[s][i] = emitted'[buf'[s][i].n]
          <5>1. CASE i \in 1..Len(buf[s])
            BY <2>4, <3>1, <4>2, <5>1 DEF Genuine
          <5>2. CASE i = Len(buf[s]) + 1
            BY <3>1, <4>1, <5>2
          <5> QED
            BY <3>1, <5>1, <5>2
        <4> QED
          BY <4>2 DEF Genuine
      <3>4. chst'[s] # "none"
        BY <2>1, <2>6 DEF DeliveryInv
      <3> QED
        BY <2>1, <2>2, <2>4, <3>1, <3>2, <3>3, <3>4 DEF DeliveryInv
    <2> QED
      BY <1>4, <2>5, <2>6
  <1> QED
    BY <1>6, <1>7

\* The four steps that broadcast keep the order.
LEMMA FeedEnd ==
    ASSUME FeedInv, NEW st \in {"completed", "failed", "cancelled"}, End(st)
    PROVE  /\ \A i \in 1..Len(emitted') : emitted'[i].n = i
           /\ \A s \in Subscribers : DeliveryInv(s)'
  <1>1. PICK o \in Outcomes : Broadcast(TerminalOf(st), o)
    BY DEF End, Finish
  <1>2. TerminalOf(st) \in EventTypes
    BY DEF TerminalOf, EventTypes, TerminalTypes
  <1>3. UNCHANGED <<got, join, reg>>
    BY DEF End, Finish, readVars
  <1>4. \A s \in Subscribers : chst'[s] = "none" <=> chst[s] = "none"
    BY DEF End, Finish, CloseAll, FeedInv, DeliveryInv
  <1> QED
    BY <1>1, <1>2, <1>3, <1>4, FeedBroadcast

LEMMA FeedStartPublish ==
    ASSUME FeedInv, StartOnce \/ \E type \in ContentTypes : PublishRunning(type)
    PROVE  /\ \A i \in 1..Len(emitted') : emitted'[i].n = i
           /\ \A s \in Subscribers : DeliveryInv(s)'
  <1>1. PICK type \in EventTypes, o \in Outcomes : Broadcast(type, o)
    BY DEF StartOnce, Start, PublishRunning, Publish, EventTypes
  <1>2. UNCHANGED <<got, join, reg, chst>>
    BY DEF StartOnce, Start, PublishRunning, Publish, readVars
  <1> QED
    BY <1>1, <1>2, FeedBroadcast

\* A new channel holds at most one synthetic event.
LEMMA FeedSubscribe ==
    ASSUME FeedInv, NEW t \in Subscribers, Subscribe(t)
    PROVE  /\ \A i \in 1..Len(emitted') : emitted'[i].n = i
           /\ \A s \in Subscribers : DeliveryInv(s)'
  <1>1. /\ UNCHANGED <<emitted, got>>
        /\ \A s \in Subscribers \ {t} :
              /\ chst'[s] = chst[s] /\ buf'[s] = buf[s] /\ join'[s] = join[s]
              /\ s \notin reg => s \notin reg'
    BY DEF Subscribe, logVars, FeedInv, TypeOK
  <1>2. /\ chst'[t] # "none" /\ buf'[t] = Replay
        /\ join'[t] = Len(emitted) /\ got[t] = <<>>
    BY DEF Subscribe, FeedInv, DeliveryInv, TypeOK
  <1>3. Len(Replay) \in {0, 1} /\ \A i \in 1..Len(Replay) : Replay[i].n = 0
    BY DEF Replay, Synthetic, Event
  <1>4. ASSUME NEW s \in Subscribers \ {t}
        PROVE  DeliveryInv(s)'
    BY <1>1 DEF FeedInv, DeliveryInv
  <1>5. DeliveryInv(t)'
    <2>1. Ordered(Replay) /\ Genuine(Replay, Len(emitted), emitted)
      BY <1>3 DEF Ordered, Genuine
    <2>2. Ordered(got[t]) /\ Genuine(got[t], Len(emitted), emitted)
      BY <1>2 DEF Ordered, Genuine
    <2>3. \A i \in 1..Len(got[t]), j \in 1..Len(Replay) : got[t][i].n < Replay[j].n
      BY <1>2
    <2>4. Len(emitted) \in Nat
      BY DEF FeedInv, TypeOK
    <2> QED
      BY <1>1, <1>2, <2>1, <2>2, <2>3, <2>4 DEF DeliveryInv
  <1> QED
    BY <1>1, <1>4, <1>5 DEF FeedInv

\* Receiving moves the head of the channel behind what was received before.
LEMMA FeedReceive ==
    ASSUME FeedInv, NEW t \in Subscribers, Receive(t)
    PROVE  /\ \A i \in 1..Len(emitted') : emitted'[i].n = i
           /\ \A s \in Subscribers : DeliveryInv(s)'
  <1> DEFINE ev == Head(buf[t])
  <1>1. /\ UNCHANGED <<emitted, join, chst, reg>>
        /\ \A s \in Subscribers \ {t} : buf'[s] = buf[s] /\ got'[s] = got[s]
        /\ buf'[t] = Tail(buf[t]) /\ got'[t] = Append(got[t], ev) /\ buf[t] # <<>>
    BY DEF Receive, logVars, FeedInv, TypeOK
  <1>2. /\ buf[t] \in Seq(Events) /\ got[t] \in Seq(Events)
        /\ Len(buf[t]) \in Nat \ {0} /\ Len(got[t]) \in Nat
        /\ ev = buf[t][1] /\ ev \in Events
    BY <1>1 DEF FeedInv, TypeOK
  <1>3. DeliveryInv(t)
    BY DEF FeedInv
  <1> HIDE DEF ev
  <1>4. /\ Ordered(Tail(buf[t])) /\ Len(Tail(buf[t])) = Len(buf[t]) - 1
        /\ \A j \in 1..Len(Tail(buf[t])) :
              Tail(buf[t])[j] = buf[t][j + 1] /\ ev.n < Tail(buf[t])[j].n
    BY <1>1, <1>2, <1>3, OrderedTail DEF DeliveryInv, ev
  <1>5. \A i \in 1..Len(got[t]) : got[t][i].n < ev.n
    BY <1>2, <1>3 DEF DeliveryInv
  <1>6. /\ Ordered(Append(got[t], ev)) /\ Len(Append(got[t], ev)) = Len(got[t]) + 1
        /\ \A i \in 1..Len(got[t]) : Append(got[t], ev)[i] = got[t][i]
        /\ Append(got[t], ev)[Len(got[t]) + 1] = ev
    <2>1. Ordered(got[t])
      BY <1>3 DEF DeliveryInv
    <2>2. Ordered(Append(got[t], ev))
      BY <1>2, <1>5, <2>1, OrderedAppend
    <2> QED
      BY <1>2, <2>2
  <1>7. ASSUME NEW i \in 1..Len(got'[t]), NEW j \in 1..Len(buf'[t])
        PROVE  got'[t][i].n < buf'[t][j].n
    <2>1. buf'[t][j] = buf[t][j + 1] /\ j + 1 \in 1..Len(buf[t]) /\ ev.n < buf'[t][j].n
      BY <1>1, <1>2, <1>4
    <2>2. CASE i \in 1..Len(got[t])
      BY <1>1, <1>3, <1>6, <2>1, <2>2 DEF DeliveryInv
    <2>3. CASE i = Len(got[t]) + 1
      BY <1>1, <1>6, <2>1, <2>3
    <2> QED
      BY <1>1, <1>2, <1>6, <2>2, <2>3
  <1>8. Genuine(got'[t], join[t], emitted)
    <2>1. ASSUME NEW i \in 1..Len(got'[t]), got'[t][i].n # 0
          PROVE  /\ got'[t][i].n \in (join[t] + 1)..Len(emitted)
                 /\ got'[t][i] = emitted[got'[t][i].n]
      <3>1. CASE i \in 1..Len(got[t])
        BY <1>1, <1>3, <1>6, <2>1, <3>1 DEF DeliveryInv, Genuine
      <3>2. CASE i = Len(got[t]) + 1
        BY <1>1, <1>2, <1>3, <1>6, <2>1, <3>2 DEF DeliveryInv, Genuine
      <3> QED
        BY <1>1, <1>2, <1>6, <3>1, <3>2
    <2> QED
      BY <2>1 DEF Genuine
  <1>9. Genuine(buf'[t], join[t], emitted)
    <2>1. \A j \in 1..Len(buf'[t]) : buf'[t][j] = buf[t][j + 1] /\ j + 1 \in 1..Len(buf[t])
      BY <1>1, <1>2, <1>4
    <2> QED
      BY <1>3, <2>1 DEF DeliveryInv, Genuine
  <1>10. DeliveryInv(t)'
    <2>1. Ordered(got'[t]) /\ Ordered(buf'[t])
      BY <1>1, <1>4, <1>6
    <2>2. chst[t] # "none"
      BY <1>1, <1>3 DEF DeliveryInv
    <2> QED
      BY <1>1, <1>3, <1>7, <1>8, <1>9, <2>1, <2>2 DEF DeliveryInv
  <1>11. ASSUME NEW s \in Subscribers \ {t}
         PROVE  DeliveryInv(s)'
    BY <1>1 DEF FeedInv, DeliveryInv
  <1> QED
    BY <1>1, <1>10, <1>11 DEF FeedInv

LEMMA FeedNext == FeedInv /\ [Next]_vars => FeedInv'
  <1> SUFFICES ASSUME FeedInv, [Next]_vars
               PROVE  /\ \A i \in 1..Len(emitted') : emitted'[i].n = i
                      /\ \A s \in Subscribers : DeliveryInv(s)'
    BY NextType DEF FeedInv
  <1>1. CASE StartOnce \/ \E type \in ContentTypes : PublishRunning(type)
    BY <1>1, FeedStartPublish
  <1>2. ASSUME NEW out \in Outputs, Complete(out)
        PROVE  /\ \A i \in 1..Len(emitted') : emitted'[i].n = i
               /\ \A s \in Subscribers : DeliveryInv(s)'
    BY <1>2, FeedEnd DEF Complete
  <1>3. ASSUME NEW e \in Errors, Fail(e)
        PROVE  /\ \A i \in 1..Len(emitted') : emitted'[i].n = i
               /\ \A s \in Subscribers : DeliveryInv(s)'
    BY <1>3, FeedEnd DEF Fail
  <1>4. CASE Cancel
    BY <1>4, FeedEnd DEF Cancel
  <1>5. ASSUME NEW t \in Subscribers, Subscribe(t) \/ Receive(t)
        PROVE  /\ \A i \in 1..Len(emitted') : emitted'[i].n = i
               /\ \A s \in Subscribers : DeliveryInv(s)'
    BY <1>5, FeedSubscribe, FeedReceive
  <1>6. CASE SetExecContextOnce \/ CtxDone \/ ExecCtxDone \/ Tick \/ UNCHANGED vars
    <2>1. UNCHANGED <<emitted, buf, got, join, reg, chst>>
      BY <1>6 DEF SetExecContextOnce, SetExecContext, CtxDone, ExecCtxDone, Tick, vars, channelVars, logVars, readVars
    <2> QED
      BY <2>1 DEF FeedInv, DeliveryInv
  <1> QED
    BY <1>1, <1>2, <1>3, <1>4, <1>5, <1>6 DEF Next

\* Two ordered sequences, the first wholly before the second, make one.
LEMMA OrderedConcat ==
    ASSUME NEW p \in Seq(Events), NEW q \in Seq(Events), Ordered(p), Ordered(q),
           \A i \in 1..Len(p), j \in 1..Len(q) : p[i].n < q[j].n
    PROVE  Ordered(p \o q)
  <1>1. /\ Len(p \o q) = Len(p) + Len(q) /\ Len(p) \in Nat /\ Len(q) \in Nat
        /\ \A i \in 1..Len(p) : (p \o q)[i] = p[i]
        /\ \A i \in (Len(p) + 1)..(Len(p) + Len(q)) : (p \o q)[i] = q[i - Len(p)]
    OBVIOUS
  <1> DEFINE r == p \o q
  <1> HIDE DEF r
  <1>2. ASSUME NEW i \in 1..Len(r), NEW j \in 1..Len(r), i < j
        PROVE  r[i].n < r[j].n
    <2>1. CASE j \in 1..Len(p)
      <3>1. i \in 1..Len(p) /\ r[i] = p[i] /\ r[j] = p[j]
        BY <1>1, <1>2, <2>1 DEF r
      <3> QED
        BY <1>2, <2>1, <3>1 DEF Ordered
    <2>2. CASE i \in 1..Len(p) /\ j \notin 1..Len(p)
      <3>1. j - Len(p) \in 1..Len(q) /\ r[i] = p[i] /\ r[j] = q[j - Len(p)]
        BY <1>1, <2>2 DEF r
      <3> QED
        BY <2>2, <3>1
    <2>3. CASE i \notin 1..Len(p)
      <3>1. /\ i - Len(p) \in 1..Len(q) /\ j - Len(p) \in 1..Len(q)
            /\ i - Len(p) < j - Len(p)
            /\ r[i] = q[i - Len(p)] /\ r[j] = q[j - Len(p)]
        BY <1>1, <1>2, <2>3 DEF r
      <3> QED
        BY <3>1 DEF Ordered
    <2> QED
      BY <1>1, <2>1, <2>2, <2>3
  <1> QED
    BY <1>2 DEF Ordered, r

LEMMA GenuineConcat ==
    ASSUME NEW p \in Seq(Events), NEW q \in Seq(Events), NEW start, NEW log,
           Genuine(p, start, log), Genuine(q, start, log)
    PROVE  Genuine(p \o q, start, log)
  <1>1. /\ Len(p \o q) = Len(p) + Len(q) /\ Len(p) \in Nat /\ Len(q) \in Nat
        /\ \A i \in 1..Len(p) : (p \o q)[i] = p[i]
        /\ \A i \in (Len(p) + 1)..(Len(p) + Len(q)) : (p \o q)[i] = q[i - Len(p)]
    OBVIOUS
  <1>2. ASSUME NEW i \in 1..Len(p \o q), (p \o q)[i].n # 0
        PROVE  /\ (p \o q)[i].n \in (start + 1)..Len(log)
               /\ (p \o q)[i] = log[(p \o q)[i].n]
    <2>1. CASE i \in 1..Len(p)
      BY <1>1, <1>2, <2>1 DEF Genuine
    <2>2. CASE i - Len(p) \in 1..Len(q) /\ (p \o q)[i] = q[i - Len(p)]
      BY <1>2, <2>2 DEF Genuine
    <2> QED
      BY <1>1, <2>1, <2>2
  <1> QED
    BY <1>2 DEF Genuine

\* Every subscriber gets the events of the log in log order, none twice.
THEOREM DeliveryInOrder == Spec => []InOrder
  <1>1. FeedInv => InOrder
    <2> SUFFICES ASSUME FeedInv, NEW s \in Subscribers
                 PROVE  Ordered(View(s)) /\ Genuine(View(s), join[s], emitted)
      BY DEF InOrder, Ordered, Genuine
    <2>1. DeliveryInv(s) /\ got[s] \in Seq(Events) /\ buf[s] \in Seq(Events)
      BY DEF FeedInv, TypeOK
    <2>2. Ordered(View(s))
      BY <2>1, OrderedConcat DEF DeliveryInv, View
    <2>3. Genuine(View(s), join[s], emitted)
      BY <2>1, GenuineConcat DEF DeliveryInv, View
    <2> QED
      BY <2>2, <2>3
  <1> QED
    BY <1>1, FeedInit, FeedNext, PTL DEF Spec

-----------------------------------------------------------------------------
(***************************************************************************)
(* The refinement.  A broadcast is an Emit or, at the end, the Finish of   *)
(* the feed; Subscribe is Attach; Receive is Hand, or a stutter when the   *)
(* event is synthetic; everything else stutters.                           *)
(***************************************************************************)
Types(q)     == [i \in 1..Len(q) |-> q[i].type]
Positions(q) == {q[i].n : i \in 1..Len(q)} \ {0}

LEMMA TypesAppend ==
    ASSUME NEW q \in Seq(Events), NEW ev \in Events
    PROVE  Types(Append(q, ev)) = Append(Types(q), ev.type)
  <1>1. /\ Len(q) \in Nat /\ Len(Append(q, ev)) = Len(q) + 1
        /\ \A i \in 1..Len(q) : Append(q, ev)[i] = q[i]
        /\ Append(q, ev)[Len(q) + 1] = ev
    OBVIOUS
  <1>2. Types(q) \in Seq(EventTypes) /\ Len(Types(q)) = Len(q)
    <2>1. \A i \in 1..Len(q) : q[i] \in Events
      BY <1>1
    <2>2. \A i \in 1..Len(q) : q[i].type \in EventTypes
      BY <2>1 DEF Events
    <2> QED
      BY <1>1, <2>2 DEF Types
  <1>3. ev.type \in EventTypes
    BY DEF Events
  <1>4. /\ Append(Types(q), ev.type) \in Seq(EventTypes)
        /\ Len(Append(Types(q), ev.type)) = Len(q) + 1
        /\ \A i \in 1..Len(q) : Append(Types(q), ev.type)[i] = Types(q)[i]
        /\ Append(Types(q), ev.type)[Len(q) + 1] = ev.type
    BY <1>1, <1>2, <1>3
  <1>5. Append(Types(q), ev.type) = [i \in 1..(Len(q) + 1) |-> Append(Types(q), ev.type)[i]]
    BY <1>4
  <1>6. Types(Append(q, ev)) = [i \in 1..(Len(q) + 1) |-> Append(q, ev)[i].type]
    BY <1>1 DEF Types
  <1>7. \A i \in 1..(Len(q) + 1) : Append(Types(q), ev.type)[i] = Append(q, ev)[i].type
    BY <1>1, <1>4 DEF Types
  <1> QED
    BY <1>5, <1>6, <1>7

LEMMA PositionsAppend ==
    ASSUME NEW q \in Seq(Events), NEW ev \in Events
    PROVE  Positions(Append(q, ev)) = Positions(q) \cup ({ev.n} \ {0})
  <1>1. /\ Len(q) \in Nat /\ Len(Append(q, ev)) = Len(q) + 1
        /\ \A i \in 1..Len(q) : Append(q, ev)[i] = q[i]
        /\ Append(q, ev)[Len(q) + 1] = ev
        /\ 1..(Len(q) + 1) = 1..Len(q) \cup {Len(q) + 1}
    OBVIOUS
  <1> QED
    BY <1>1 DEF Positions

\* The variables of the feed in terms of these.
LEMMA Views ==
    /\ LogView = Types(emitted)
    /\ HaveView = [s \in Subscribers |-> Positions(got[s])]
  BY DEF LogView, HaveView, Types, Positions

LEMMA RefinementInit == Init => Feed!Init
  <1> SUFFICES ASSUME Init PROVE Feed!Init
    OBVIOUS
  <1>1. LogView = <<>>
    BY DEF Init, LogView
  <1>2. OutcomeView = "open"
    BY DEF Init, OutcomeView, IsTerminated
  <1>3. FromView = [s \in Subscribers |-> -1]
    BY DEF Init, FromView
  <1>4. HaveView = [s \in Subscribers |-> {}]
    BY DEF Init, HaveView
  <1> QED
    BY <1>1, <1>2, <1>3, <1>4 DEF Feed!Init

\* What a broadcast does to the feed.
LEMMA FeedGrows ==
    ASSUME FeedInv, NEW type \in EventTypes, NEW o, Broadcast(type, o),
           UNCHANGED <<got, join, reg>>,
           \A s \in Subscribers : chst'[s] = "none" <=> chst[s] = "none"
    PROVE  LogView' = Append(LogView, type) /\ UNCHANGED <<FromView, HaveView>>
  <1> DEFINE ev == Event(Len(emitted) + 1, type, ReturnedID(Len(emitted) + 1, o))
  <1>1. emitted \in Seq(Events) /\ Len(emitted) \in Nat
    BY DEF FeedInv, TypeOK
  <1>2. ev \in Events /\ ev.type = type
    BY <1>1, EventType DEF ReturnedID, NoID, Event
  <1>3. emitted' = Append(emitted, ev)
    BY DEF Broadcast
  <1> HIDE DEF ev
  <1>4. Types(emitted') = Append(Types(emitted), type)
    BY <1>1, <1>2, <1>3, TypesAppend
  <1>5. LogView' = Types(emitted')
    BY DEF LogView, Types
  <1>6. UNCHANGED <<FromView, HaveView>>
    BY DEF FromView, HaveView
  <1> QED
    BY <1>4, <1>5, <1>6, Views

LEMMA RefinementEnd ==
    ASSUME FeedInv, NEW st \in {"completed", "failed", "cancelled"}, End(st)
    PROVE  Feed!Finish
  <1>1. PICK o \in Outcomes : Broadcast(TerminalOf(st), o)
    BY DEF End, Finish
  <1>2. TerminalOf(st) \in EventTypes
    BY DEF TerminalOf, EventTypes, TerminalTypes
  <1>3. UNCHANGED <<got, join, reg>>
    BY DEF End, Finish, readVars
  <1>4. \A s \in Subscribers : chst'[s] = "none" <=> chst[s] = "none"
    BY DEF End, Finish, CloseAll, FeedInv, DeliveryInv
  <1>5. LogView' = Append(LogView, TerminalOf(st)) /\ UNCHANGED <<FromView, HaveView>>
    BY <1>1, <1>2, <1>3, <1>4, FeedGrows
  <1>6. OutcomeView = "open" /\ OutcomeView' = st
    BY DEF End, Finish, OutcomeView, IsTerminated
  <1> QED
    BY <1>5, <1>6 DEF Feed!Finish

LEMMA RefinementEmit ==
    ASSUME FeedInv, StartOnce \/ \E type \in ContentTypes : PublishRunning(type)
    PROVE  Feed!Emit
  <1>1. PICK type \in {"start"} \cup ContentTypes, o \in Outcomes : Broadcast(type, o)
    BY DEF StartOnce, Start, PublishRunning, Publish
  <1>2. UNCHANGED <<got, join, reg, chst>>
    BY DEF StartOnce, Start, PublishRunning, Publish, readVars
  <1>3. LogView' = Append(LogView, type) /\ UNCHANGED <<FromView, HaveView>>
    BY <1>1, <1>2, FeedGrows DEF EventTypes
  <1>4. OutcomeView = "open" /\ OutcomeView' = "open"
    BY DEF StartOnce, Start, PublishRunning, Publish, resultVars, OutcomeView, IsTerminated
  <1> QED
    BY <1>3, <1>4 DEF Feed!Emit

LEMMA RefinementSubscribe ==
    ASSUME FeedInv, NEW t \in Subscribers, Subscribe(t)
    PROVE  Feed!Attach(t)
  <1>1. /\ UNCHANGED <<emitted, got, status>>
        /\ chst[t] = "none" /\ chst'[t] # "none" /\ join'[t] = Len(emitted)
        /\ \A s \in Subscribers \ {t} : chst'[s] = chst[s] /\ join'[s] = join[s]
    BY DEF Subscribe, logVars, resultVars, FeedInv, TypeOK
  <1>2. UNCHANGED <<LogView, OutcomeView, HaveView>>
    BY <1>1 DEF LogView, OutcomeView, IsTerminated, HaveView
  <1>3. Len(LogView) = Len(emitted)
    BY DEF LogView, FeedInv, TypeOK
  <1>4. FromView[t] = -1 /\ FromView' = [FromView EXCEPT ![t] = Len(LogView)]
    BY <1>1, <1>3 DEF FromView
  <1> QED
    BY <1>2, <1>4 DEF Feed!Attach

LEMMA RefinementReceive ==
    ASSUME FeedInv, NEW t \in Subscribers, Receive(t)
    PROVE  Feed!Hand(t) \/ UNCHANGED Feed!feedVars
  <1> DEFINE ev == buf[t][1]
  <1>1. /\ UNCHANGED <<emitted, status, join, chst>>
        /\ buf[t] # <<>> /\ got'[t] = Append(got[t], Head(buf[t]))
        /\ \A s \in Subscribers \ {t} : got'[s] = got[s]
    BY DEF Receive, logVars, resultVars, FeedInv, TypeOK
  <1>2. /\ buf[t] \in Seq(Events) /\ got[t] \in Seq(Events)
        /\ Len(buf[t]) \in Nat \ {0} /\ Len(got[t]) \in Nat
        /\ ev \in Events /\ Head(buf[t]) = ev /\ emitted \in Seq(Events)
        /\ join[t] \in Nat
    BY <1>1 DEF FeedInv, TypeOK
  <1>3. DeliveryInv(t)
    BY DEF FeedInv
  <1> HIDE DEF ev
  <1>4. UNCHANGED <<LogView, OutcomeView, FromView>>
    BY <1>1 DEF LogView, OutcomeView, IsTerminated, FromView
  <1>5. Positions(got'[t]) = Positions(got[t]) \cup ({ev.n} \ {0})
    BY <1>1, <1>2, PositionsAppend
  <1>6. HaveView' = [s \in Subscribers |-> Positions(got'[s])]
    BY DEF HaveView, Positions
  <1>7. CASE ev.n = 0
    <2>1. \A s \in Subscribers : Positions(got'[s]) = Positions(got[s])
      BY <1>1, <1>5, <1>7
    <2>2. HaveView' = HaveView
      BY <1>6, <2>1, Views
    <2> QED
      BY <1>4, <2>2 DEF Feed!feedVars
  <1>8. CASE ev.n # 0
    <2>1. HaveView' = [HaveView EXCEPT ![t] = @ \cup {ev.n}]
      <3>1. HaveView = [s \in Subscribers |-> Positions(got[s])]
        BY Views
      <3>2. \A s \in Subscribers \ {t} : Positions(got'[s]) = Positions(got[s])
        BY <1>1
      <3>3. Positions(got'[t]) = Positions(got[t]) \cup {ev.n}
        BY <1>5, <1>8
      <3> QED
        BY <1>6, <3>1, <3>2, <3>3
    <2>2. FromView[t] = join[t] /\ FromView[t] # -1
      BY <1>1, <1>2, <1>3 DEF FromView, DeliveryInv
    <2>3. ev.n \in (FromView[t] + 1)..Len(LogView)
      <3>1. Len(LogView) = Len(emitted)
        BY <1>2 DEF LogView
      <3>2. 1 \in 1..Len(buf[t]) /\ ev = buf[t][1]
        BY <1>2 DEF ev
      <3> QED
        BY <1>3, <1>8, <2>2, <3>1, <3>2 DEF DeliveryInv, Genuine
    <2>4. \A m \in HaveView[t] : m < ev.n
      <3>1. 1 \in 1..Len(buf[t]) /\ ev = buf[t][1]
        BY <1>2 DEF ev
      <3> QED
        BY <1>3, <3>1 DEF HaveView, DeliveryInv
    <2> QED
      BY <1>4, <2>1, <2>2, <2>3, <2>4 DEF Feed!Hand
  <1> QED
    BY <1>7, <1>8

LEMMA RefinementNext == FeedInv /\ [Next]_vars => [Feed!Next]_(Feed!feedVars)
  <1> SUFFICES ASSUME FeedInv, [Next]_vars
               PROVE  Feed!Next \/ UNCHANGED Feed!feedVars
    OBVIOUS
  <1>1. CASE StartOnce \/ \E type \in ContentTypes : PublishRunning(type)
    BY <1>1, RefinementEmit DEF Feed!Next
  <1>2. ASSUME NEW out \in Outputs, Complete(out)
        PROVE  Feed!Next
    BY <1>2, RefinementEnd DEF Complete, Feed!Next
  <1>3. ASSUME NEW e \in Errors, Fail(e)
        PROVE  Feed!Next
    BY <1>3, RefinementEnd DEF Fail, Feed!Next
  <1>4. CASE Cancel
    BY <1>4, RefinementEnd DEF Cancel, Feed!Next
  <1>5. ASSUME NEW t \in Subscribers, Subscribe(t) \/ Receive(t)
        PROVE  Feed!Next \/ UNCHANGED Feed!feedVars
    BY <1>5, RefinementSubscribe, RefinementReceive DEF Feed!Next
  <1>6. CASE SetExecContextOnce \/ CtxDone \/ ExecCtxDone \/ Tick \/ UNCHANGED vars
    <2>1. UNCHANGED <<emitted, got, join, chst, status>>
      BY <1>6 DEF SetExecContextOnce, SetExecContext, CtxDone, ExecCtxDone, Tick, vars,
         channelVars, logVars, readVars, resultVars
    <2> QED
      BY <2>1 DEF Feed!feedVars, LogView, OutcomeView, IsTerminated, FromView, HaveView
  <1> QED
    BY <1>1, <1>2, <1>3, <1>4, <1>5, <1>6 DEF Next

\* An executor implements the feed: whatever its store, contexts and channels do,
\* readers are handed one log in order, closed by one outcome.
THEOREM FeedImplemented == Spec => ImplementsFeed
  <1>1. Init => Feed!Init
    BY RefinementInit
  <1>2. FeedInv /\ [Next]_vars => [Feed!Next]_(Feed!feedVars)
    BY RefinementNext
  <1> QED
    BY <1>1, <1>2, FeedInit, FeedNext, PTL DEF Spec, ImplementsFeed, Feed!Spec

-----------------------------------------------------------------------------
(***************************************************************************)
(* Nothing is unaccounted for.  Accounted speaks of registered channels    *)
(* only; a channel starts with a clean record because no other one is ever *)
(* offered an event.                                                       *)
(***************************************************************************)
Unlost == \A s \in Subscribers : chst[s] = "none" => lost[s] = {}

AccountInv == FeedInv /\ Unlost /\ Accounted

\* What was seen is what was received and what is buffered.
LEMMA PositionsConcat ==
    ASSUME NEW p \in Seq(Events), NEW q \in Seq(Events)
    PROVE  Positions(p \o q) = Positions(p) \cup Positions(q)
  <1>1. /\ Len(p \o q) = Len(p) + Len(q) /\ Len(p) \in Nat /\ Len(q) \in Nat
        /\ \A i \in 1..Len(p) : (p \o q)[i] = p[i]
        /\ \A i \in 1..Len(q) : (p \o q)[Len(p) + i] = q[i]
    OBVIOUS
  <1> DEFINE r == p \o q
  <1> HIDE DEF r
  <1>2. /\ Len(r) = Len(p) + Len(q)
        /\ \A i \in 1..Len(p) : r[i] = p[i]
        /\ \A i \in 1..Len(q) : r[Len(p) + i] = q[i]
    BY <1>1 DEF r
  <1>3. ASSUME NEW i \in 1..Len(r)
        PROVE  (\E j \in 1..Len(p) : r[i].n = p[j].n) \/ (\E j \in 1..Len(q) : r[i].n = q[j].n)
    <2>1. CASE i \in 1..Len(p)
      BY <1>2, <2>1
    <2>2. CASE i \notin 1..Len(p)
      <3>1. i - Len(p) \in 1..Len(q) /\ r[Len(p) + (i - Len(p))] = q[i - Len(p)]
        BY <1>1, <1>2, <2>2
      <3>2. Len(p) + (i - Len(p)) = i
        BY <1>1, <1>2
      <3> QED
        BY <3>1, <3>2
    <2> QED
      BY <2>1, <2>2
  <1>4. \A j \in 1..Len(p) : j \in 1..Len(r) /\ r[j].n = p[j].n
    BY <1>1, <1>2
  <1>5. \A j \in 1..Len(q) : Len(p) + j \in 1..Len(r) /\ r[Len(p) + j].n = q[j].n
    BY <1>1, <1>2
  <1>6. {r[i].n : i \in 1..Len(r)} = {p[i].n : i \in 1..Len(p)} \cup {q[i].n : i \in 1..Len(q)}
    <2>1. ASSUME NEW x \in {r[i].n : i \in 1..Len(r)}
          PROVE  x \in {p[i].n : i \in 1..Len(p)} \cup {q[i].n : i \in 1..Len(q)}
      BY <1>3
    <2>2. ASSUME NEW x \in {p[i].n : i \in 1..Len(p)} \cup {q[i].n : i \in 1..Len(q)}
          PROVE  x \in {r[i].n : i \in 1..Len(r)}
      BY <1>4, <1>5
    <2> QED
      BY <2>1, <2>2
  <1> QED
    BY <1>6 DEF Positions, r

LEMMA PositionsTail ==
    ASSUME NEW q \in Seq(Events), q # <<>>
    PROVE  Positions(q) = Positions(Tail(q)) \cup ({Head(q).n} \ {0})
  <1>1. /\ Len(Tail(q)) = Len(q) - 1 /\ Len(q) \in Nat \ {0}
        /\ \A j \in 1..Len(Tail(q)) : Tail(q)[j] = q[j + 1]
        /\ Head(q) = q[1]
    OBVIOUS
  <1> DEFINE r == Tail(q)
  <1> HIDE DEF r
  <1>2. ASSUME NEW i \in 1..Len(q)
        PROVE  q[i].n = q[1].n \/ \E j \in 1..Len(r) : q[i].n = r[j].n
    <2>1. CASE i # 1
      <3>1. i - 1 \in 1..Len(r) /\ r[i - 1] = q[(i - 1) + 1] /\ (i - 1) + 1 = i
        BY <1>1, <2>1 DEF r
      <3> QED
        BY <3>1
    <2> QED
      BY <2>1
  <1>3. \A j \in 1..Len(r) : j + 1 \in 1..Len(q) /\ r[j].n = q[j + 1].n
    BY <1>1 DEF r
  <1>4. 1 \in 1..Len(q)
    BY <1>1
  <1> QED
    BY <1>1, <1>2, <1>3, <1>4 DEF Positions, r

LEMMA SeenParts ==
    ASSUME TypeOK, NEW s \in Subscribers
    PROVE  Seen(s) = Positions(got[s]) \cup Positions(buf[s])
  <1>1. Seen(s) = Positions(got[s] \o buf[s])
    BY DEF Seen, View, Positions
  <1>2. got[s] \in Seq(Events) /\ buf[s] \in Seq(Events)
    BY DEF TypeOK
  <1> QED
    BY <1>1, <1>2, PositionsConcat

LEMMA SeenInLog ==
    ASSUME FeedInv, NEW s \in Subscribers
    PROVE  Seen(s) \subseteq (join[s] + 1)..Len(emitted)
  <1>1. ASSUME NEW q, Genuine(q, join[s], emitted)
        PROVE  Positions(q) \subseteq (join[s] + 1)..Len(emitted)
    BY <1>1 DEF Genuine, Positions
  <1>2. Genuine(got[s], join[s], emitted) /\ Genuine(buf[s], join[s], emitted)
    BY DEF FeedInv, DeliveryInv
  <1> QED
    BY <1>1, <1>2, SeenParts DEF FeedInv

LEMMA AccountInit == Init => AccountInv
  <1> SUFFICES ASSUME Init PROVE Unlost /\ Accounted
    BY FeedInit DEF AccountInv
  <1> QED
    BY DEF Init, Unlost, Accounted

\* An event offered to a registered channel enters it or is recorded as lost.
LEMMA AccountBroadcast ==
    ASSUME AccountInv, TypeOK', NEW type \in EventTypes, NEW o, Broadcast(type, o),
           UNCHANGED <<got, join, reg>>,
           \A s \in Subscribers : chst'[s] = "none" => chst[s] = "none"
    PROVE  Unlost' /\ Accounted'
  <1> DEFINE n == Len(emitted) + 1
             ev == Event(n, type, ReturnedID(n, o))
  <1>1. /\ TypeOK /\ Len(emitted) \in Nat /\ Len(emitted') = n
        /\ \A s \in Subscribers : buf[s] \in Seq(Events) /\ join[s] \in Nat /\ join[s] <= Len(emitted)
    BY BroadcastLog DEF AccountInv, FeedInv, TypeOK, DeliveryInv
  <1>2. ev \in Events /\ ev.n = n /\ n # 0
    BY <1>1, EventType DEF ReturnedID, NoID, Event
  <1>3. \A s \in Subscribers :
           /\ s \in reg /\ HasRoom(buf[s]) => buf'[s] = Append(buf[s], ev) /\ lost'[s] = lost[s]
           /\ s \in reg /\ ~HasRoom(buf[s]) => buf'[s] = buf[s] /\ lost'[s] = lost[s] \cup {n}
           /\ s \notin reg => lost'[s] = lost[s]
    BY DEF Broadcast, Offer
  <1> HIDE DEF ev
  <1>4. Unlost'
    BY <1>3 DEF AccountInv, Unlost, FeedInv, DeliveryInv
  <1>5. ASSUME NEW s \in reg
        PROVE  /\ Seen(s)' \cup lost'[s] = (join[s] + 1)..n
               /\ Seen(s)' \cap lost'[s] = {}
    <2>1. s \in Subscribers
      BY <1>1 DEF TypeOK
    <2>2. /\ Seen(s) \cup lost[s] = (join[s] + 1)..Len(emitted)
          /\ Seen(s) \cap lost[s] = {}
      BY DEF AccountInv, Accounted
    <2>3. (join[s] + 1)..n = ((join[s] + 1)..Len(emitted)) \cup {n}
          /\ n \notin (join[s] + 1)..Len(emitted)
      BY <1>1, <2>1
    <2>4. Seen(s) = Positions(got[s]) \cup Positions(buf[s])
      BY <1>1, <2>1, SeenParts
    <2>5. Seen(s)' = Positions(got[s]) \cup Positions(buf'[s])
      <3>1. Positions(got'[s] \o buf'[s]) = Positions(got'[s]) \cup Positions(buf'[s])
        BY <2>1, PositionsConcat DEF TypeOK
      <3>2. Seen(s)' = Positions(got'[s] \o buf'[s])
        BY DEF Seen, View, Positions
      <3> QED
        BY <3>1, <3>2
    <2>6. CASE HasRoom(buf[s])
      <3>1. Positions(buf'[s]) = Positions(buf[s]) \cup {n}
        <4>1. Positions(Append(buf[s], ev)) = Positions(buf[s]) \cup ({ev.n} \ {0})
          BY <1>1, <1>2, <2>1, PositionsAppend
        <4>2. buf'[s] = Append(buf[s], ev)
          BY <1>3, <2>1, <2>6
        <4> QED
          BY <1>2, <4>1, <4>2
      <3> QED
        BY <1>3, <2>1, <2>2, <2>3, <2>4, <2>5, <2>6, <3>1
    <2>7. CASE ~HasRoom(buf[s])
      BY <1>3, <2>1, <2>2, <2>3, <2>4, <2>5, <2>7
    <2> QED
      BY <2>6, <2>7
  <1> QED
    BY <1>1, <1>4, <1>5 DEF Accounted

LEMMA AccountEnd ==
    ASSUME AccountInv, TypeOK', NEW st \in {"completed", "failed", "cancelled"}, End(st)
    PROVE  Unlost' /\ Accounted'
  <1>1. PICK o \in Outcomes : Broadcast(TerminalOf(st), o)
    BY DEF End, Finish
  <1>2. TerminalOf(st) \in EventTypes
    BY DEF TerminalOf, EventTypes, TerminalTypes
  <1>3. UNCHANGED <<got, join, reg>>
    BY DEF End, Finish, readVars
  <1>4. \A s \in Subscribers : chst'[s] = "none" => chst[s] = "none"
    BY DEF End, Finish, CloseAll
  <1> QED
    BY <1>1, <1>2, <1>3, <1>4, AccountBroadcast

LEMMA AccountSubscribe ==
    ASSUME AccountInv, TypeOK', NEW t \in Subscribers, Subscribe(t)
    PROVE  Unlost' /\ Accounted'
  <1>1. /\ UNCHANGED <<emitted, got, lost>> /\ TypeOK
        /\ \A s \in Subscribers \ {t} :
              /\ chst'[s] = chst[s] /\ buf'[s] = buf[s] /\ join'[s] = join[s]
              /\ s \in reg' => s \in reg
        /\ chst[t] = "none" /\ chst'[t] # "none" /\ buf'[t] = Replay
        /\ join'[t] = Len(emitted) /\ got[t] = <<>> /\ Len(emitted) \in Nat
    BY DEF Subscribe, logVars, AccountInv, FeedInv, DeliveryInv, TypeOK
  <1>2. Unlost'
    BY <1>1 DEF AccountInv, Unlost
  <1>3. Seen(t)' = {} /\ lost'[t] = {}
    <2>1. \A i \in 1..Len(Replay) : Replay[i].n = 0
      BY DEF Replay, Synthetic, Event
    <2>2. Positions(Replay) = {} /\ Positions(<<>>) = {}
      BY <2>1 DEF Positions
    <2>3. got'[t] \in Seq(Events) /\ buf'[t] \in Seq(Events)
      BY DEF TypeOK
    <2>4. Positions(got'[t] \o buf'[t]) = Positions(got'[t]) \cup Positions(buf'[t])
      BY <2>3, PositionsConcat
    <2>5. Seen(t)' = Positions(got'[t] \o buf'[t])
      BY DEF Seen, View, Positions
    <2> QED
      BY <1>1, <2>2, <2>4, <2>5 DEF AccountInv, Unlost
  <1>4. (join'[t] + 1)..Len(emitted') = {}
    BY <1>1
  <1>5. \A s \in Subscribers \ {t} : Seen(s)' = Seen(s)
    BY <1>1 DEF Seen, View
  <1>6. reg' \subseteq Subscribers
    BY DEF TypeOK
  <1> QED
    BY <1>1, <1>2, <1>3, <1>4, <1>5, <1>6 DEF Accounted, AccountInv

\* Receiving changes nothing of what was seen.
LEMMA AccountReceive ==
    ASSUME AccountInv, TypeOK', NEW t \in Subscribers, Receive(t)
    PROVE  Unlost' /\ Accounted'
  <1>1. /\ UNCHANGED <<emitted, join, chst, reg, lost>> /\ TypeOK
        /\ \A s \in Subscribers \ {t} : buf'[s] = buf[s] /\ got'[s] = got[s]
        /\ buf'[t] = Tail(buf[t]) /\ got'[t] = Append(got[t], Head(buf[t])) /\ buf[t] # <<>>
    BY DEF Receive, logVars, AccountInv, FeedInv, TypeOK
  <1>2. \A s \in Subscribers : Seen(s)' = Seen(s)
    <2>1. /\ buf[t] \in Seq(Events) /\ got[t] \in Seq(Events) /\ Head(buf[t]) \in Events
          /\ got'[t] \in Seq(Events) /\ buf'[t] \in Seq(Events)
      BY <1>1 DEF TypeOK
    <2>2. Positions(got'[t] \o buf'[t]) = Positions(got'[t]) \cup Positions(buf'[t])
      BY <2>1, PositionsConcat
    <2>3. Positions(got'[t]) = Positions(got[t]) \cup ({Head(buf[t]).n} \ {0})
      BY <1>1, <2>1, PositionsAppend
    <2>4. Positions(buf[t]) = Positions(buf'[t]) \cup ({Head(buf[t]).n} \ {0})
      BY <1>1, <2>1, PositionsTail
    <2>5. Seen(t)' = Positions(got'[t] \o buf'[t])
      BY DEF Seen, View, Positions
    <2>6. Seen(t) = Positions(got[t]) \cup Positions(buf[t])
      BY <1>1, SeenParts
    <2>7. \A s \in Subscribers \ {t} : Seen(s)' = Seen(s)
      BY <1>1 DEF Seen, View
    <2> QED
      BY <2>2, <2>3, <2>4, <2>5, <2>6, <2>7
  <1> QED
    BY <1>1, <1>2 DEF AccountInv, Unlost, Accounted, TypeOK

LEMMA AccountNext == AccountInv /\ [Next]_vars => AccountInv'
  <1> SUFFICES ASSUME AccountInv, [Next]_vars, FeedInv', TypeOK'
               PROVE  Unlost' /\ Accounted'
    BY FeedNext DEF AccountInv, FeedInv
  <1>1. CASE StartOnce \/ \E type \in ContentTypes : PublishRunning(type)
    <2>1. PICK type \in EventTypes, o \in Outcomes : Broadcast(type, o)
      BY <1>1 DEF StartOnce, Start, PublishRunning, Publish, EventTypes
    <2>2. UNCHANGED <<got, join, reg, chst>>
      BY <1>1 DEF StartOnce, Start, PublishRunning, Publish, readVars
    <2> QED
      BY <2>1, <2>2, AccountBroadcast
  <1>2. ASSUME NEW out \in Outputs, Complete(out)
        PROVE  Unlost' /\ Accounted'
    BY <1>2, AccountEnd DEF Complete
  <1>3. ASSUME NEW e \in Errors, Fail(e)
        PROVE  Unlost' /\ Accounted'
    BY <1>3, AccountEnd DEF Fail
  <1>4. CASE Cancel
    BY <1>4, AccountEnd DEF Cancel
  <1>5. ASSUME NEW t \in Subscribers, Subscribe(t) \/ Receive(t)
        PROVE  Unlost' /\ Accounted'
    BY <1>5, AccountSubscribe, AccountReceive
  <1>6. CASE SetExecContextOnce \/ CtxDone \/ ExecCtxDone \/ Tick \/ UNCHANGED vars
    <2>1. UNCHANGED <<emitted, buf, got, join, reg, chst, lost>>
      BY <1>6 DEF SetExecContextOnce, SetExecContext, CtxDone, ExecCtxDone, Tick, vars, channelVars, logVars, readVars
    <2> QED
      <3>1. \A s \in Subscribers : Seen(s)' = Seen(s)
        BY <2>1 DEF Seen, View
      <3>2. reg' \subseteq Subscribers
        BY DEF TypeOK
      <3> QED
        BY <2>1, <3>1, <3>2 DEF AccountInv, Unlost, Accounted
  <1> QED
    BY <1>1, <1>2, <1>3, <1>4, <1>5, <1>6 DEF Next

\* No event broadcast after a subscription disappears: the subscriber has it, or
\* its full channel dropped it, and never both.
THEOREM NothingUnaccounted == Spec => []Accounted
  <1>1. AccountInv => Accounted
    BY DEF AccountInv
  <1> QED
    BY <1>1, AccountInit, AccountNext, PTL DEF Spec

-----------------------------------------------------------------------------
(***************************************************************************)
(* What a drained channel has told.  A channel there was at the end is     *)
(* registered and was offered the last event (Early); one made after the   *)
(* end was given a replay and nothing else (Late).                         *)
(***************************************************************************)
Early == IsTerminated => \A s \in reg : join[s] < Len(emitted)

Late(s) ==
    chst[s] = "closed" /\ s \notin reg =>
        /\ join[s] = Len(emitted)
        /\ status # "cancelled" =>
              LET told == <<Synthetic(TerminalOf(status))>>
              IN  \/ got[s] = <<>> /\ buf[s] = told
                  \/ got[s] = told /\ buf[s] = <<>>

DrainInv ==
    /\ AccountInv /\ ChannelInv /\ OutcomeInv
    /\ Early /\ \A s \in Subscribers : Late(s)

LEMMA DrainInit == Init => DrainInv
  <1> SUFFICES ASSUME Init PROVE Early /\ \A s \in Subscribers : Late(s)
    BY AccountInit, ChannelInit, OutcomeInit DEF DrainInv
  <1> QED
    BY DEF Init, Early, Late, IsTerminated

\* The step that ends an execution.
LEMMA TheEnd ==
    ASSUME TypeOK, [Next]_vars, ~IsTerminated, IsTerminated'
    PROVE  /\ \E st \in {"completed", "failed", "cancelled"} : End(st)
           /\ UNCHANGED <<reg, join, got>> /\ Len(emitted') = Len(emitted) + 1
           /\ \A s \in Subscribers : s \notin reg => chst'[s] = chst[s]
  <1>1. PICK st \in {"completed", "failed", "cancelled"} : End(st)
    BY DEF Next, StartOnce, Start, PublishRunning, Publish, Complete, Fail, Cancel, Subscribe, Receive,
           SetExecContextOnce, SetExecContext, CtxDone, ExecCtxDone, Tick, vars, resultVars, IsTerminated
  <1>2. PICK o \in Outcomes : Broadcast(TerminalOf(st), o)
    BY <1>1 DEF End, Finish
  <1>3. TerminalOf(st) \in EventTypes
    BY DEF TerminalOf, EventTypes, TerminalTypes
  <1>4. Len(emitted') = Len(emitted) + 1
    BY <1>2, <1>3, BroadcastLog
  <1>5. UNCHANGED <<reg, join, got>> /\ \A s \in Subscribers : s \notin reg => chst'[s] = chst[s]
    BY <1>1 DEF End, Finish, CloseAll, readVars
  <1> QED
    BY <1>1, <1>4, <1>5

\* After the end only subscribing and receiving touch a channel.
LEMMA AfterTheEnd ==
    ASSUME TypeOK, [Next]_vars, IsTerminated
    PROVE  \/ \E t \in Subscribers : Subscribe(t) \/ Receive(t)
           \/ UNCHANGED <<chst, buf, got, join>>
  <1>1. ~StartOnce /\ ~(\E type \in ContentTypes : PublishRunning(type))
        /\ ~(\E out \in Outputs : Complete(out)) /\ ~(\E e \in Errors : Fail(e))
        /\ ~Cancel
    BY DEF StartOnce, Start, PublishRunning, Publish, Complete, Fail, Cancel, End, Finish, IsTerminated
  <1> QED
    BY <1>1 DEF Next, SetExecContextOnce, SetExecContext, CtxDone, ExecCtxDone, Tick, vars,
                channelVars, readVars

LEMMA DrainNext == DrainInv /\ [Next]_vars => DrainInv'
  <1> SUFFICES ASSUME DrainInv, [Next]_vars, AccountInv', ChannelInv', OutcomeInv'
               PROVE  Early' /\ \A s \in Subscribers : Late(s)'
    BY AccountNext, ChannelNext, OutcomeNext DEF DrainInv
  <1>1. /\ TypeOK /\ Len(emitted) \in Nat /\ reg \subseteq Subscribers
        /\ \A s \in Subscribers : join[s] \in Nat /\ join[s] <= Len(emitted)
    BY DEF DrainInv, AccountInv, FeedInv, DeliveryInv, TypeOK
  <1>2. CASE ~IsTerminated'
    BY <1>2 DEF Early, Late, ChannelInv, ClosedIffEnded
  <1>3. CASE ~IsTerminated /\ IsTerminated'
    <2>1. /\ UNCHANGED <<reg, join, got>> /\ Len(emitted') = Len(emitted) + 1
          /\ \A s \in Subscribers : s \notin reg => chst'[s] = chst[s]
      BY <1>1, <1>3, TheEnd
    <2>2. \A s \in Subscribers : s \notin reg => chst'[s] # "closed"
      BY <1>3, <2>1 DEF DrainInv, ChannelInv, ClosedIffEnded
    <2> QED
      BY <1>1, <2>1, <2>2 DEF Early, Late
  <1>4. CASE IsTerminated
    <2>1. UNCHANGED <<status, emitted, reg>>
      BY <1>1, <1>4, FinalStep
    <2>2. ASSUME NEW t \in Subscribers, Subscribe(t)
          PROVE  Early' /\ \A s \in Subscribers : Late(s)'
      <3>1. /\ chst[t] = "none" /\ t \notin reg /\ buf'[t] = Replay /\ join'[t] = Len(emitted)
            /\ got'[t] = <<>>
            /\ \A s \in Subscribers \ {t} :
                  chst'[s] = chst[s] /\ buf'[s] = buf[s] /\ got'[s] = got[s] /\ join'[s] = join[s]
        BY <1>1, <2>2 DEF Subscribe, DrainInv, AccountInv, FeedInv, DeliveryInv, TypeOK
      <3>2. status # "cancelled" => Replay = <<Synthetic(TerminalOf(status))>>
        BY <1>4 DEF IsTerminated, Replay, TerminalOf
      <3> QED
        BY <1>1, <2>1, <3>1, <3>2 DEF DrainInv, Early, Late, IsTerminated
    <2>3. ASSUME NEW t \in Subscribers, Receive(t)
          PROVE  Early' /\ \A s \in Subscribers : Late(s)'
      <3>1. /\ buf[t] # <<>> /\ buf'[t] = Tail(buf[t]) /\ got'[t] = Append(got[t], Head(buf[t]))
            /\ UNCHANGED <<chst, join>>
            /\ \A s \in Subscribers \ {t} : buf'[s] = buf[s] /\ got'[s] = got[s]
        BY <1>1, <2>3 DEF Receive, TypeOK
      <3>2. ASSUME NEW told, got[t] = <<>>, buf[t] = <<told>>
            PROVE  got'[t] = <<told>> /\ buf'[t] = <<>>
        BY <3>1, <3>2
      <3>3. Late(t)'
        BY <2>1, <3>1, <3>2 DEF DrainInv, Late
      <3> QED
        BY <1>1, <2>1, <3>1, <3>3 DEF DrainInv, Early, Late, IsTerminated
    <2>4. CASE UNCHANGED <<chst, buf, got, join>>
      BY <2>1, <2>4 DEF DrainInv, Early, Late, IsTerminated
    <2> QED
      BY <1>1, <1>4, <2>2, <2>3, <2>4, AfterTheEnd
  <1> QED
    BY <1>2, <1>3, <1>4

\* A drained channel ends with the last event of the log, when that one was
\* seen at all.
LEMMA LastSeen ==
    ASSUME FeedInv, NEW s \in Subscribers, buf[s] = <<>>, emitted # <<>>, Len(emitted) \in Seen(s)
    PROVE  got[s] # <<>> /\ got[s][Len(got[s])] = emitted[Len(emitted)]
  <1>1. /\ got[s] \in Seq(Events) /\ buf[s] \in Seq(Events) /\ Len(got[s]) \in Nat
        /\ emitted \in Seq(Events) /\ Len(emitted) \in Nat \ {0}
    BY DEF FeedInv, TypeOK
  <1>2. Positions(buf[s]) = {}
    BY DEF Positions
  <1>3. Len(emitted) \in Positions(got[s])
    BY <1>2, SeenParts DEF FeedInv
  <1>4. PICK i \in 1..Len(got[s]) : got[s][i].n = Len(emitted)
    BY <1>3 DEF Positions
  <1>5. Ordered(got[s]) /\ Genuine(got[s], join[s], emitted) /\ join[s] \in Nat
    BY DEF FeedInv, DeliveryInv, TypeOK
  <1>6. i = Len(got[s])
    <2> SUFFICES ASSUME i < Len(got[s]) PROVE FALSE
      BY <1>1
    <2>1. got[s][Len(got[s])].n > Len(emitted) /\ got[s][Len(got[s])].n # 0
      <3>1. got[s][Len(got[s])] \in Events
        BY <1>1, <1>4
      <3>2. got[s][Len(got[s])].n \in Nat
        BY <3>1 DEF Events
      <3>3. got[s][i].n < got[s][Len(got[s])].n
        BY <1>1, <1>5 DEF Ordered
      <3> QED
        BY <1>1, <1>4, <3>2, <3>3
    <2> QED
      BY <1>1, <1>5, <2>1 DEF Genuine
  <1>7. got[s][i] = emitted[Len(emitted)]
    BY <1>1, <1>4, <1>5 DEF Genuine
  <1> QED
    BY <1>1, <1>4, <1>6, <1>7

LEMMA DrainKnows == DrainInv => DrainedKnowsOutcome
  <1> SUFFICES ASSUME DrainInv, NEW s \in Subscribers, Drained(s), Len(emitted) \notin lost[s],
                      status = "cancelled" => join[s] < Len(emitted)
               PROVE  /\ got[s] # <<>>
                      /\ got[s][Len(got[s])].type = emitted[Len(emitted)].type
    BY DEF DrainedKnowsOutcome
  <1>1. IsTerminated /\ emitted # <<>> /\ emitted[Len(emitted)].type = TerminalOf(status)
    BY DEF DrainInv, ChannelInv, ClosedIffEnded, OutcomeInv, OneOutcome, Drained
  <1>2. FeedInv /\ join[s] \in Nat /\ Len(emitted) \in Nat
    BY DEF DrainInv, AccountInv, FeedInv, TypeOK
  <1>3. CASE s \in reg
    <2>1. Len(emitted) \in (join[s] + 1)..Len(emitted)
      BY <1>1, <1>2, <1>3 DEF DrainInv, Early
    <2>2. Len(emitted) \in Seen(s)
      BY <1>3, <2>1 DEF DrainInv, AccountInv, Accounted
    <2> QED
      BY <1>1, <1>2, <2>2, LastSeen DEF Drained
  <1>4. CASE s \notin reg
    <2>1. join[s] = Len(emitted) /\ status # "cancelled" /\ got[s] = <<Synthetic(TerminalOf(status))>>
      BY <1>2, <1>4 DEF DrainInv, Late, Drained
    <2>2. Synthetic(TerminalOf(status)).type = TerminalOf(status)
      BY DEF Synthetic, Event
    <2> QED
      BY <1>1, <2>1, <2>2
  <1> QED
    BY <1>3, <1>4

\* A subscriber that drains its closed channel has been told the outcome last,
\* unless its channel was full then or it came after a cancellation.
THEOREM DrainedToldOutcome == Spec => []DrainedKnowsOutcome
  BY DrainKnows, DrainInit, DrainNext, PTL DEF Spec

-----------------------------------------------------------------------------
(***************************************************************************)
(* The store.  Each entry is the log's event of its ID; expiry drops all   *)
(* of them, so what is there is there without a hole.                      *)
(***************************************************************************)
StoredInv == TypeOK /\ StoredWithoutHole

LEMMA StoredInit == Init => StoredInv
  <1> SUFFICES ASSUME Init PROVE StoredWithoutHole
    BY InitType DEF StoredInv
  <1> QED
    BY DEF Init, StoreInit, StoredWithoutHole

LEMMA StoredBroadcast ==
    ASSUME StoredInv, NEW type \in EventTypes, NEW o, Broadcast(type, o)
    PROVE  StoredWithoutHole'
  <1> DEFINE n == Len(emitted) + 1
             e == Entry(n, type)
  <1>1. /\ Len(emitted) \in Nat /\ Len(stream) \in Nat
        /\ stream \in Seq([id : Nat, type : EventTypes])
        /\ n \in Nat /\ n = Len(emitted) + 1
    BY DEF StoredInv, TypeOK
  <1>2. /\ Len(emitted') = n
        /\ \A i \in 1..Len(emitted) : emitted'[i] = emitted[i]
        /\ emitted'[n].type = type
        /\ emitted'[n].sid = ReturnedID(n, o)
    BY BroadcastLog DEF StoredInv
  <1>3. e.id = n /\ e.type = type /\ e \in [id : Nat, type : EventTypes]
    BY <1>1 DEF Entry
  <1>4. o # "fail" => stream' = Append(stream, e)
    BY DEF Broadcast, StreamAfterAppend
  <1>5. o = "fail" => stream' = stream
    BY DEF Broadcast, StreamAfterAppend
  <1> HIDE DEF n, e
  <1>6. \A i \in 1..Len(stream) :
           /\ stream[i].id \in 1..Len(emitted)
           /\ stream[i].type = emitted[stream[i].id].type
           /\ emitted[stream[i].id].sid \in {stream[i].id, NoID}
           /\ \A j \in 1..(i - 1) : stream[j].id < stream[i].id
    BY DEF StoredInv, StoredWithoutHole
  <1>7. stream # <<>> =>
           \A m \in stream[1].id..Len(emitted) :
              emitted[m].sid # NoID => \E i \in 1..Len(stream) : stream[i].id = m
    BY DEF StoredInv, StoredWithoutHole
  <1>8. CASE o = "fail"
    <2>1. emitted'[n].sid = NoID
      BY <1>2, <1>8 DEF ReturnedID
    <2>2. \A i \in 1..Len(stream') :
             /\ stream'[i].id \in 1..Len(emitted')
             /\ stream'[i].type = emitted'[stream'[i].id].type
             /\ emitted'[stream'[i].id].sid \in {stream'[i].id, NoID}
             /\ \A j \in 1..(i - 1) : stream'[j].id < stream'[i].id
      BY <1>1, <1>2, <1>5, <1>6, <1>8
    <2>3. ASSUME stream' # <<>>, NEW m \in stream'[1].id..Len(emitted'), emitted'[m].sid # NoID
          PROVE  \E i \in 1..Len(stream') : stream'[i].id = m
      <3>1. stream[1].id \in 1..Len(emitted)
        BY <1>1, <1>5, <1>6, <1>8, <2>3
      <3>2. m \in 1..Len(emitted) /\ m \in stream[1].id..Len(emitted)
        BY <1>1, <1>2, <1>5, <1>8, <2>1, <2>3, <3>1
      <3> QED
        BY <1>2, <1>5, <1>7, <1>8, <2>3, <3>2
    <2> QED
      BY <2>2, <2>3 DEF StoredWithoutHole
  <1>9. CASE o # "fail"
    <2>1. /\ Len(stream') = Len(stream) + 1
          /\ \A i \in 1..Len(stream) : stream'[i] = stream[i]
          /\ stream'[Len(stream) + 1] = e
      BY <1>1, <1>3, <1>4, <1>9
    <2>2. emitted'[n].sid \in {n, NoID}
      BY <1>2 DEF ReturnedID
    <2>3. ASSUME NEW i \in 1..Len(stream')
          PROVE  /\ stream'[i].id \in 1..Len(emitted')
                 /\ stream'[i].type = emitted'[stream'[i].id].type
                 /\ emitted'[stream'[i].id].sid \in {stream'[i].id, NoID}
                 /\ \A j \in 1..(i - 1) : stream'[j].id < stream'[i].id
      <3>1. CASE i \in 1..Len(stream)
        <4>1. stream'[i] = stream[i] /\ stream[i].id \in 1..Len(emitted)
              /\ emitted'[stream[i].id] = emitted[stream[i].id]
          BY <1>2, <1>6, <2>1, <3>1
        <4>2. \A j \in 1..(i - 1) : stream'[j] = stream[j]
          BY <1>1, <2>1, <3>1
        <4> QED
          BY <1>1, <1>2, <1>6, <3>1, <4>1, <4>2
      <3>2. CASE i = Len(stream) + 1
        <4>1. stream'[i].id = n /\ stream'[i].type = type
          BY <1>3, <2>1, <3>2
        <4>2. \A j \in 1..(i - 1) : stream'[j].id < n
          BY <1>1, <1>6, <2>1, <3>2
        <4> QED
          BY <1>1, <1>2, <2>2, <4>1, <4>2
      <3> QED
        BY <1>1, <2>1, <3>1, <3>2
    <2>4. ASSUME NEW m \in stream'[1].id..Len(emitted'), emitted'[m].sid # NoID
          PROVE  \E i \in 1..Len(stream') : stream'[i].id = m
      <3>1. CASE m = n
        BY <1>1, <1>3, <2>1, <3>1
      <3>2. CASE m # n /\ stream = <<>>
        <4>1. stream'[1].id = n
          BY <1>1, <1>3, <2>1, <3>2
        <4> QED
          BY <1>1, <1>2, <2>4, <3>2, <4>1
      <3>3. CASE m # n /\ stream # <<>>
        <4>1. 1 \in 1..Len(stream) /\ stream'[1] = stream[1]
          BY <1>1, <2>1, <3>3
        <4>2. m \in stream[1].id..Len(emitted) /\ m \in 1..Len(emitted)
          BY <1>1, <1>2, <1>6, <2>4, <3>3, <4>1
        <4>3. PICK i \in 1..Len(stream) : stream[i].id = m
          BY <1>2, <1>7, <2>4, <3>3, <4>2
        <4> QED
          BY <1>1, <2>1, <4>3
      <3> QED
        BY <3>1, <3>2, <3>3
    <2> QED
      BY <2>3, <2>4 DEF StoredWithoutHole
  <1> QED
    BY <1>8, <1>9

LEMMA StoredNext == StoredInv /\ [Next]_vars => StoredInv'
  <1> SUFFICES ASSUME StoredInv, [Next]_vars
               PROVE  StoredWithoutHole'
    BY NextType DEF StoredInv
  <1>1. ASSUME NEW st \in {"completed", "failed", "cancelled"}, End(st)
        PROVE  StoredWithoutHole'
    <2>1. PICK o \in Outcomes : Broadcast(TerminalOf(st), o)
      BY <1>1 DEF End, Finish
    <2>2. TerminalOf(st) \in EventTypes
      BY DEF TerminalOf, EventTypes, TerminalTypes
    <2> QED
      BY <2>1, <2>2, StoredBroadcast
  <1>2. CASE StartOnce \/ \E type \in ContentTypes : PublishRunning(type)
    <2>1. PICK type \in EventTypes, o \in Outcomes : Broadcast(type, o)
      BY <1>2 DEF StartOnce, Start, PublishRunning, Publish, EventTypes
    <2> QED
      BY <2>1, StoredBroadcast
  <1>3. CASE (\E out \in Outputs : Complete(out)) \/ (\E e \in Errors : Fail(e)) \/ Cancel
    BY <1>1, <1>3 DEF Complete, Fail, Cancel
  <1>4. CASE Tick
    <2>1. emitted' = emitted /\ stream' \in {<<>>, stream}
      BY <1>4 DEF Tick, StoreTick, logVars
    <2> QED
      BY <2>1 DEF StoredInv, StoredWithoutHole
  <1>5. CASE (\E s \in Subscribers : Subscribe(s) \/ Receive(s))
             \/ SetExecContextOnce \/ CtxDone \/ ExecCtxDone \/ UNCHANGED vars
    <2>1. UNCHANGED <<emitted, stream>>
      BY <1>5 DEF Subscribe, Receive, SetExecContextOnce, SetExecContext, CtxDone, ExecCtxDone, vars,
         logVars, storeVars
    <2> QED
      BY <2>1 DEF StoredInv, StoredWithoutHole
  <1> QED
    BY <1>2, <1>3, <1>4, <1>5 DEF Next

\* Whatever fails in Redis: the stored entries are events of the log in order,
\* under the IDs their live copies carry, and no stored event is missing between
\* the oldest and the last.
THEOREM StoreHasNoHole == Spec => []StoredWithoutHole
  <1>1. StoredInv => StoredWithoutHole
    BY DEF StoredInv
  <1> QED
    BY <1>1, StoredInit, StoredNext, PTL DEF Spec
=============================================================================
