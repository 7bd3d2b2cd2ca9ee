------------------------- MODULE AgentStreamProofs --------------------------
(***************************************************************************)
(* Every run of an agent, however long, is a run as AgentRun has it; what  *)
(* it says is in its log and in its output.                                *)
(*                                                                         *)
(* Between the handler and executeAgent the outcome is told by one of them *)
(* only: TellInv says which, for each cause.  What the log tells is        *)
(* compared with the history of the iterator event by event (Ledger), and  *)
(* the usage by where the handler is (UsageInv).                           *)
(***************************************************************************)
EXTENDS AgentStream, FiniteSetTheorems, SequenceTheorems, TLAPS

Contents == {"chunk", "tool.call", "tool.result", "token.usage"}
Causes == {"canceled", "other", "panic"}
Outcomes == {"completed", "failed", "cancelled"}
Datas == Texts \cup Usages \cup {NoUsage, "named", "more", "none"}
Records(types) == [type: types, data: Datas]

\* The types of events, in order: what a follower of the run goes by.
Types(s) == [n \in DOMAIN s |-> s[n].type]

TellInv ==
    /\ pc \in {"next", "recv", "complete"} => status = "running" /\ cause = "none"
    /\ pc = "unwind" =>
         status = CASE cause = "none" -> "completed" [] cause = "other" -> "failed" [] OTHER -> "running"
    /\ pc = "done" => status # "running"

SaidInv ==
    /\ content = said
    /\ status = "completed" => output.content = said

EventsInv ==
    /\ events \in Seq(Records(Contents \cup Outcomes))
    /\ status = "running" => events \in Seq(Records(Contents))

IInv == StreamTypeOK /\ EventsInv /\ TellInv /\ SaidInv

-----------------------------------------------------------------------------
LEMMA TypesOf ==
    ASSUME NEW T, NEW s \in Seq(Records(T))
    PROVE  /\ Types(s) \in Seq(T) /\ Len(Types(s)) = Len(s)
           /\ \A n \in 1..Len(s) : Types(s)[n] = s[n].type
  <1>1. Len(s) \in Nat /\ DOMAIN s = 1..Len(s) /\ \A n \in 1..Len(s) : s[n] \in Records(T)
    BY LenProperties, ElementOfSeq
  <1>2. \A n \in 1..Len(s) : s[n].type \in T
    BY <1>1 DEF Records
  <1>3. Types(s) \in [1..Len(s) -> T]
    BY <1>1, <1>2 DEF Types
  <1>4. Types(s) \in Seq(T)
    BY <1>1, <1>3, SeqDef
  <1> QED
    BY <1>1, <1>3, <1>4 DEF Types

LEMMA TypesGrow ==
    ASSUME NEW T, NEW s \in Seq(Records(T)), NEW x \in Seq(Records(T)), x # <<>>
    PROVE  IsStrictPrefix(Types(s), Types(s \o x))
  <1>1. /\ s \o x \in Seq(Records(T)) /\ Len(s \o x) = Len(s) + Len(x)
        /\ \A n \in 1..Len(s) : (s \o x)[n] = s[n]
    BY ConcatProperties
  <1>2. Len(s) \in Nat /\ Len(x) \in Nat /\ Len(x) # 0
    BY EmptySeq, LenProperties
  <1>3. /\ Types(s) \in Seq(T) /\ Len(Types(s)) = Len(s)
        /\ Types(s \o x) \in Seq(T) /\ Len(Types(s \o x)) = Len(s) + Len(x)
        /\ \A n \in 1..Len(s) : Types(s \o x)[n] = Types(s)[n]
    <2> DEFINE t == s \o x
    <2> HIDE DEF t
    <2>1. t \in Seq(Records(T)) /\ Len(t) = Len(s) + Len(x) /\ \A n \in 1..Len(s) : t[n] = s[n]
      BY <1>1 DEF t
    <2>2. /\ Types(s) \in Seq(T) /\ Len(Types(s)) = Len(s)
          /\ \A n \in 1..Len(s) : Types(s)[n] = s[n].type
      BY TypesOf
    <2>3. /\ Types(t) \in Seq(T) /\ Len(Types(t)) = Len(t)
          /\ \A n \in 1..Len(t) : Types(t)[n] = t[n].type
      BY <2>1, TypesOf
    <2>4. ASSUME NEW n \in 1..Len(s) PROVE Types(t)[n] = Types(s)[n]
      <3>1. n \in 1..Len(t)
        BY <1>2, <2>1
      <3> QED
        BY <2>1, <2>2, <2>3, <3>1
    <2> QED
      BY <2>1, <2>2, <2>3, <2>4 DEF t
  <1> DEFINE a == Types(s)  b == Types(s \o x)
  <1> HIDE DEF a, b
  <1>4. SubSeq(a, 1, Len(a)) = SubSeq(b, 1, Len(a))
    <2>1. \A n \in 1..Len(a) : a[n] \in T /\ b[n] \in T /\ a[n] = b[n]
      BY <1>2, <1>3, ElementOfSeq DEF a, b
    <2>2. Len(a) \in Nat
      BY <1>2, <1>3 DEF a
    <2>3. /\ SubSeq(a, 1, Len(a)) \in Seq(T) /\ Len(SubSeq(a, 1, Len(a))) = Len(SubSeq(b, 1, Len(a)))
          /\ SubSeq(b, 1, Len(a)) \in Seq(T) /\ Len(SubSeq(a, 1, Len(a))) = Len(a)
          /\ \A n \in 1..Len(a) : SubSeq(a, 1, Len(a))[n] = a[n] /\ SubSeq(b, 1, Len(a))[n] = b[n]
      BY <2>1, <2>2, SubSeqProperties
    <2> QED
      BY <2>1, <2>3, SeqEqual
  <1>5. Len(a) <= Len(b) /\ a # b
    BY <1>2, <1>3 DEF a, b
  <1> QED
    BY <1>4, <1>5 DEF IsPrefix, IsStrictPrefix, a, b

LEMMA TypesAppend ==
    ASSUME NEW T, NEW s \in Seq(Records(T)), NEW e \in Records(T)
    PROVE  Types(Append(s, e)) = Append(Types(s), e.type)
  <1>1. Append(s, e) \in Seq(Records(T)) /\ Len(Append(s, e)) = Len(s) + 1 /\ e.type \in T
    BY DEF Records
  <1>2. /\ Types(s) \in Seq(T) /\ Len(Types(s)) = Len(s)
        /\ \A n \in 1..Len(s) : Types(s)[n] = s[n].type
        /\ Types(Append(s, e)) \in Seq(T) /\ Len(Types(Append(s, e))) = Len(s) + 1
        /\ \A n \in 1..Len(s) + 1 : Types(Append(s, e))[n] = Append(s, e)[n].type
    BY <1>1, TypesOf
  <1>3. Append(Types(s), e.type) \in Seq(T) /\ Len(Append(Types(s), e.type)) = Len(s) + 1
    BY <1>1, <1>2
  <1>4. \A n \in 1..Len(s) + 1 : Types(Append(s, e))[n] = Append(Types(s), e.type)[n]
    BY <1>1, <1>2
  <1> QED
    BY <1>2, <1>3, <1>4, SeqEqual

-----------------------------------------------------------------------------
LEMMA InitIInv == Init => IInv
  <1> SUFFICES ASSUME Init PROVE IInv
    OBVIOUS
  <1>1. StreamTypeOK
    BY StreamAssumption DEF Init, StreamTypeOK, NoOutput
  <1>2. EventsInv /\ TellInv /\ SaidInv
    BY DEF Init, EventsInv, TellInv, SaidInv
  <1> QED
    BY <1>1, <1>2 DEF IInv

\* A step in which the executor does not take part, apart from events published.
LEMMA QuietKeeps ==
    ASSUME IInv, UNCHANGED <<status, output>>, StreamTypeOK', TellInv',
           status = "running" \/ events' = events,
           events' = events \/ \E x \in Seq(Records(Contents)) : events' = events \o x,
           (content' = content /\ said' = said) \/ (status = "running" /\ content' = said')
    PROVE  IInv'
  <1>1. EventsInv'
    <2>1. CASE events' = events
      BY <2>1 DEF IInv, EventsInv
    <2>2. CASE status = "running" /\ \E x \in Seq(Records(Contents)) : events' = events \o x
      <3>1. events' \in Seq(Records(Contents))
        BY <2>2, ConcatProperties DEF IInv, EventsInv
      <3>2. Records(Contents) \subseteq Records(Contents \cup Outcomes)
        BY DEF Records
      <3> QED
        BY <3>1, <3>2, SeqMonotonic DEF EventsInv
    <2> QED
      BY <2>1, <2>2
  <1>2. SaidInv'
    BY DEF IInv, SaidInv
  <1> QED
    BY <1>1, <1>2 DEF IInv

-----------------------------------------------------------------------------
(* What the steps do.  First those by which the run goes on.               *)

Going ==
    \/ \E p \in Pieces : NextMessage(p) \/ Recv(p)
    \/ NextStream \/ RecvEOF \/ NextEmpty
    \/ \E u \in Usages \cup {NoUsage} : ToolResult(u)
    \/ NextEnds \/ CtxDone

\* A piece of a message.
LEMMA HandleFacts ==
    ASSUME IInv, NEW p \in Pieces, Handle(p)
    PROVE  /\ \E x \in Seq(Records(Contents)) : events' = events \o x
           /\ content' \in Seq(Texts) /\ said' \in Seq(Texts) /\ content' = said'
           /\ usage' \in Usages \cup {NoUsage} /\ reported' \in Seq(Usages)
           /\ calls' \in Nat /\ results \in 0..calls'
  <1> DEFINE chunk == IF p.text = Empty THEN <<>> ELSE <<Ev("chunk", p.text)>>
  <1>1. /\ p.text \in Texts \cup {Empty} /\ p.usage \in Usages \cup {NoUsage}
        /\ p.call \in {"none", "named", "more"}
    BY DEF Pieces
  <1>2. Announce(p) \in Seq(Records(Contents))
    <2>1. p.call # "none" => Ev("tool.call", p.call) \in Records(Contents)
      BY <1>1 DEF Ev, Records, Contents, Datas
    <2> QED
      BY <2>1 DEF Announce
  <1>3. chunk \in Seq(Records(Contents))
    <2>1. p.text # Empty => Ev("chunk", p.text) \in Records(Contents)
      BY <1>1 DEF Ev, Records, Contents, Datas
    <2> QED
      BY <2>1
  <1>4. events \in Seq(Records(Contents \cup Outcomes))
    BY DEF IInv, EventsInv
  <1>5. Records(Contents) \subseteq Records(Contents \cup Outcomes)
    BY DEF Records
  <1>6. events' = (events \o Announce(p)) \o chunk
    BY DEF Handle
  <1> HIDE DEF chunk
  <1>7. Announce(p) \in Seq(Records(Contents \cup Outcomes)) /\ chunk \in Seq(Records(Contents \cup Outcomes))
    BY <1>2, <1>3, <1>5, SeqMonotonic
  <1>8. events' = events \o (Announce(p) \o chunk)
    BY <1>4, <1>6, <1>7, ConcatAssociative
  <1>9. Announce(p) \o chunk \in Seq(Records(Contents))
    BY <1>2, <1>3, ConcatProperties
  <1>10. /\ content' \in Seq(Texts) /\ said' \in Seq(Texts) /\ content' = said'
         /\ usage' \in Usages \cup {NoUsage} /\ reported' \in Seq(Usages)
    BY <1>1 DEF Handle, KeepText, KeepUsage, IInv, StreamTypeOK, SaidInv
  <1>11. calls' \in Nat /\ results \in 0..calls'
    BY DEF Handle, IInv, StreamTypeOK
  <1> QED
    BY <1>8, <1>9, <1>10, <1>11

LEMMA GoingFacts ==
    ASSUME IInv, Going
    PROVE  /\ UNCHANGED <<cause, status, output>> /\ StreamTypeOK' /\ TellInv'
           /\ events' = events \/ (status = "running" /\ cause = "none")
           /\ events' = events \/ \E x \in Seq(Records(Contents)) : events' = events \o x
           /\ (content' = content /\ said' = said) \/ (status = "running" /\ content' = said')
  <1> USE StreamAssumption DEF Yield
  <1>1. ASSUME NEW p \in Pieces, NextMessage(p) \/ Recv(p)
        PROVE  /\ UNCHANGED <<handler, ctx, pc, cause, status, output, results>> /\ Handle(p)
               /\ pc \in {"next", "recv"} /\ yields' \in 0..MaxYields
    <2>1. Handle(p) /\ pc' = pc /\ pc \in {"next", "recv"} /\ yields < MaxYields /\ yields' = yields + 1
      BY <1>1 DEF NextMessage, Recv
    <2>2. UNCHANGED <<handler, ctx, cause, status, output, results>>
      BY <2>1 DEF Handle
    <2>3. yields' \in 0..MaxYields
      BY <2>1 DEF IInv, StreamTypeOK
    <2> QED
      BY <2>1, <2>2, <2>3
  <1>2. ASSUME NEW p \in Pieces, NextMessage(p) \/ Recv(p)
        PROVE  /\ UNCHANGED <<cause, status, output>> /\ StreamTypeOK' /\ TellInv'
               /\ status = "running" /\ cause = "none" /\ content' = said'
               /\ \E x \in Seq(Records(Contents)) : events' = events \o x
    <2>1. /\ UNCHANGED <<handler, ctx, pc, cause, status, output, results>> /\ Handle(p)
          /\ pc \in {"next", "recv"} /\ yields' \in 0..MaxYields
      BY <1>1, <1>2
    <2>2. StreamTypeOK'
      BY <2>1, HandleFacts DEF IInv, StreamTypeOK
    <2>3. TellInv' /\ status = "running" /\ cause = "none"
      BY <2>1 DEF IInv, TellInv
    <2> QED
      BY <2>1, <2>2, <2>3, HandleFacts
  <1>3. CASE NextStream \/ RecvEOF \/ NextEmpty \/ CtxDone
    <2> USE <1>3 DEF NextStream, RecvEOF, NextEmpty, CtxDone, execVars, histVars
    <2>1. StreamTypeOK'
      BY DEF IInv, StreamTypeOK
    <2>2. TellInv'
      BY DEF IInv, TellInv
    <2> QED
      BY <2>1, <2>2
  <1>4. ASSUME NEW u \in Usages \cup {NoUsage}, ToolResult(u)
        PROVE  /\ UNCHANGED <<cause, status, output>> /\ StreamTypeOK' /\ TellInv'
               /\ status = "running" /\ cause = "none" /\ content' = content /\ said' = said
               /\ \E x \in Seq(Records(Contents)) : events' = events \o x
    <2> USE <1>4 DEF ToolResult
    <2>1. StreamTypeOK'
      BY DEF IInv, StreamTypeOK
    <2>2. TellInv' /\ status = "running" /\ cause = "none"
      BY DEF IInv, TellInv
    <2>3. Ev("tool.result", "none") \in Records(Contents)
      BY DEF Ev, Records, Contents, Datas
    <2>4. events' = events \o <<Ev("tool.result", "none")>>
      BY DEF IInv, EventsInv
    <2>5. <<Ev("tool.result", "none")>> \in Seq(Records(Contents))
      BY <2>3
    <2> QED
      BY <2>1, <2>2, <2>4, <2>5
  <1>5. CASE NextEnds
    <2> USE <1>5 DEF NextEnds, histVars
    <2>1. StreamTypeOK'
      BY DEF IInv, StreamTypeOK
    <2>2. TellInv' /\ status = "running" /\ cause = "none"
      BY DEF IInv, TellInv
    <2>3. Ev("token.usage", usage) \in Records(Contents)
      BY DEF Ev, Records, Contents, Datas, IInv, StreamTypeOK
    <2>4. events' = events \/ events' = events \o <<Ev("token.usage", usage)>>
      BY DEF IInv, EventsInv
    <2>5. <<Ev("token.usage", usage)>> \in Seq(Records(Contents))
      BY <2>3
    <2> QED
      BY <2>1, <2>2, <2>4, <2>5
  <1> QED
    BY <1>2, <1>3, <1>4, <1>5 DEF Going

\* An execution that runs ends.
LEMMA EndFacts ==
    ASSUME IInv, status = "running", NEW out \in [content: Seq(Texts), usage: Usages \cup {NoUsage}],
           NEW s \in Outcomes, End(s, out)
    PROVE  /\ status' = s /\ output' = out
           /\ events' \in Seq(Records(Contents \cup Outcomes))
           /\ Types(events') = Append(Types(events), s)
  <1>1. Ev(s, NoUsage) \in Records(Contents \cup Outcomes) /\ Ev(s, NoUsage).type = s
    BY DEF Ev, Records, Datas
  <1>2. status' = s /\ output' = out /\ events' = Append(events, Ev(s, NoUsage))
    BY DEF End, Ended
  <1>3. events \in Seq(Records(Contents \cup Outcomes))
    BY DEF IInv, EventsInv
  <1> QED
    BY <1>1, <1>2, <1>3, TypesAppend

\* The iterator stops with an error of the given cause, or panics.
LEMMA StopFacts ==
    ASSUME IInv, Fails \/ ToolFails \/ Panics
    PROVE  /\ IInv' /\ status = "running" /\ cause = "none"
           /\ \/ cause' \in {"canceled", "panic"} /\ UNCHANGED execVars
              \/ /\ cause' = "other" /\ status' = "failed"
                 /\ Types(events') = Append(Types(events), "failed")
  <1>1. PICK e \in {"other", "canceled", "panic"} :
          /\ Stop(e) /\ pc \in {"next", "recv"}
          /\ IF e = "other" THEN End("failed", NoOutput) ELSE UNCHANGED execVars
    BY DEF Fails, ToolFails, Panics, Errors, FailIfNotCanceled
  <1>2. status = "running" /\ cause = "none" /\ cause' = e /\ pc' = "unwind"
        /\ UNCHANGED <<handler, ctx, content, usage, said, reported, calls, results, yields>>
    BY <1>1 DEF IInv, TellInv, Stop, histVars
  <1>3. CASE e = "other"
    <2>1. NoOutput \in [content: Seq(Texts), usage: Usages \cup {NoUsage}] /\ "failed" \in Outcomes
      BY DEF NoOutput, Outcomes
    <2>2. /\ status' = "failed" /\ output' = NoOutput
          /\ events' \in Seq(Records(Contents \cup Outcomes))
          /\ Types(events') = Append(Types(events), "failed")
      BY <1>1, <1>2, <1>3, <2>1, EndFacts
    <2>3. StreamTypeOK'
      BY <1>2, <1>3, <2>1, <2>2 DEF IInv, StreamTypeOK
    <2>4. EventsInv' /\ TellInv' /\ SaidInv'
      BY <1>2, <1>3, <2>2 DEF IInv, EventsInv, TellInv, SaidInv
    <2> QED
      BY <1>2, <1>3, <2>2, <2>3, <2>4 DEF IInv
  <1>4. CASE e # "other"
    <2>1. UNCHANGED execVars
      BY <1>1, <1>4
    <2>2. StreamTypeOK'
      BY <1>2, <2>1 DEF IInv, StreamTypeOK, execVars
    <2>3. EventsInv' /\ TellInv' /\ SaidInv'
      BY <1>2, <1>4, <2>1 DEF IInv, EventsInv, TellInv, SaidInv, execVars
    <2> QED
      BY <1>2, <1>4, <2>1, <2>2, <2>3 DEF IInv
  <1> QED
    BY <1>3, <1>4

\* The handler completes the run, or executeAgent tells what it did not.
LEMMA FinishFacts ==
    ASSUME IInv, Complete \/ ExecuteAgent
    PROVE  /\ IInv' /\ cause' = cause
           /\ \/ UNCHANGED execVars
              \/ /\ status = "running" /\ status' = Run!Outcome(cause)
                 /\ Types(events') = Append(Types(events), status')
  <1>1. NoOutput \in [content: Seq(Texts), usage: Usages \cup {NoUsage}] /\ Outcomes = {"completed", "failed", "cancelled"}
    BY DEF NoOutput, Outcomes
  <1>2. CASE Complete
    <2> DEFINE out == [content |-> content, usage |-> usage]
    <2>1. out \in [content: Seq(Texts), usage: Usages \cup {NoUsage}] /\ out.content = content
      BY DEF IInv, StreamTypeOK
    <2>2. /\ End("completed", out) /\ status = "running" /\ cause = "none" /\ pc' = "unwind"
          /\ UNCHANGED <<handler, ctx, content, usage, cause, said, reported, calls, results, yields>>
      BY <1>2 DEF Complete, IInv, TellInv, histVars
    <2> HIDE DEF out
    <2>3. /\ status' = "completed" /\ output' = out
          /\ events' \in Seq(Records(Contents \cup Outcomes))
          /\ Types(events') = Append(Types(events), "completed")
      BY <1>1, <2>1, <2>2, EndFacts
    <2>4. StreamTypeOK'
      BY <2>1, <2>2, <2>3 DEF IInv, StreamTypeOK
    <2>5. EventsInv' /\ TellInv' /\ SaidInv'
      BY <2>1, <2>2, <2>3 DEF IInv, EventsInv, TellInv, SaidInv
    <2> QED
      BY <2>2, <2>3, <2>4, <2>5 DEF IInv, Run!Outcome
  <1>3. CASE ExecuteAgent
    <2>1. /\ pc = "unwind" /\ pc' = "done"
          /\ UNCHANGED <<handler, ctx, content, usage, cause, said, reported, calls, results, yields>>
          /\ CASE cause = "none"     -> UNCHANGED execVars
               [] cause = "canceled" -> End("cancelled", NoOutput)
               [] OTHER              -> End("failed", NoOutput)
      BY <1>3 DEF ExecuteAgent, histVars
    <2>2. CASE cause \in {"none", "other"}
      <3>1. UNCHANGED execVars /\ status \in {"completed", "failed"}
        BY <2>1, <2>2 DEF IInv, TellInv, End, Ended
      <3>2. StreamTypeOK'
        BY <2>1, <3>1 DEF IInv, StreamTypeOK, execVars
      <3>3. EventsInv' /\ TellInv' /\ SaidInv'
        BY <2>1, <3>1 DEF IInv, EventsInv, TellInv, SaidInv, execVars
      <3> QED
        BY <2>1, <3>1, <3>2, <3>3 DEF IInv
    <2>3. CASE cause \in {"canceled", "panic"}
      <3> DEFINE s == IF cause = "canceled" THEN "cancelled" ELSE "failed"
      <3>1. status = "running" /\ End(s, NoOutput) /\ s \in Outcomes /\ s = Run!Outcome(cause)
            /\ s # "completed"
        BY <1>1, <2>1, <2>3 DEF IInv, TellInv, Run!Outcome
      <3> HIDE DEF s
      <3>2. /\ status' = s /\ output' = NoOutput
            /\ events' \in Seq(Records(Contents \cup Outcomes))
            /\ Types(events') = Append(Types(events), s)
        BY <1>1, <3>1, EndFacts
      <3>3. StreamTypeOK'
        BY <1>1, <2>1, <3>1, <3>2 DEF IInv, StreamTypeOK
      <3>4. EventsInv' /\ TellInv' /\ SaidInv'
        BY <1>1, <2>1, <3>1, <3>2 DEF IInv, EventsInv, TellInv, SaidInv
      <3> QED
        BY <2>1, <3>1, <3>2, <3>3, <3>4 DEF IInv
    <2> QED
      BY <2>2, <2>3 DEF IInv, StreamTypeOK
  <1> QED
    BY <1>2, <1>3

-----------------------------------------------------------------------------
LEMMA NextIInv == IInv /\ [Next]_vars => IInv'
  <1> SUFFICES ASSUME IInv, [Next]_vars PROVE IInv'
    OBVIOUS
  <1>1. CASE UNCHANGED vars
    BY <1>1 DEF vars, IInv, StreamTypeOK, EventsInv, TellInv, SaidInv
  <1>2. CASE Going
    BY <1>2, GoingFacts, QuietKeeps
  <1> QED
    BY <1>1, <1>2, StopFacts, FinishFacts DEF Next, Iterate, Going

LEMMA Inductive == Spec => []IInv
  BY InitIInv, NextIInv, PTL DEF Spec

\* Every variable keeps to its type.
THEOREM StreamTypeCorrect == Spec => []StreamTypeOK
  <1>1. IInv => StreamTypeOK
    BY DEF IInv
  <1> QED
    BY <1>1, Inductive, PTL

LEMMA StepImplements ==
    ASSUME IInv, IInv', [Next]_vars
    PROVE  [Run!Next]_<<Types(events), cause, status>>
  <1>1. CASE UNCHANGED vars
    BY <1>1 DEF vars, Types
  <1>2. CASE Going
    <2>1. CASE events' = events
      BY <1>2, <2>1, GoingFacts DEF Types
    <2>2. CASE status = "running" /\ cause = "none" /\ events' # events
      <3>1. PICK x \in Seq(Records(Contents)) : events' = events \o x
        BY <1>2, <2>2, GoingFacts
      <3>2. events \in Seq(Records(Contents)) /\ events' \in Seq(Records(Contents)) /\ x # <<>>
        BY <2>2, <3>1, ConcatProperties, ConcatEmptySeq DEF IInv, EventsInv
      <3>3. IsStrictPrefix(Types(events), Types(events')) /\ Types(events') \in Seq(Contents)
        BY <3>1, <3>2, TypesGrow, TypesOf
      <3>4. UNCHANGED <<cause, status>>
        BY <1>2, GoingFacts
      <3>5. Run!Say
        <4>1. /\ Types(events) = [n \in DOMAIN events |-> events[n].type]
              /\ Types(events') = [n \in DOMAIN events' |-> events'[n].type]
          BY DEF Types
        <4>2. IsStrictPrefix([n \in DOMAIN events |-> events[n].type],
                             [n \in DOMAIN events' |-> events'[n].type])
              /\ [n \in DOMAIN events' |-> events'[n].type]
                   \in Seq({"chunk", "tool.call", "tool.result", "token.usage"})
          BY <3>3, <4>1 DEF Contents
        <4> QED
          BY <2>2, <3>4, <4>2 DEF Run!Say, Run!IsStrictPrefix, Run!IsPrefix, IsStrictPrefix, IsPrefix
      <3> QED
        BY <3>5 DEF Run!Next
    <2> QED
      BY <1>2, <2>1, <2>2, GoingFacts
  <1>3. CASE Fails \/ ToolFails \/ Panics
    <2>1. CASE cause' \in {"canceled", "panic"} /\ UNCHANGED execVars
      <3>1. Run!Break(cause') 
        BY <1>3, <2>1, StopFacts DEF Run!Break, execVars
      <3> QED
        BY <2>1, <3>1 DEF Run!Next
    <2>2. CASE cause' = "other" /\ status' = "failed" /\ Types(events') = Append(Types(events), "failed")
      <3>1. Run!Finish
        BY <1>3, <2>2, StopFacts DEF Run!Finish, Run!Outcome, Types
      <3> QED
        BY <3>1 DEF Run!Next
    <2> QED
      BY <1>3, <2>1, <2>2, StopFacts
  <1>4. CASE Complete \/ ExecuteAgent
    <2>1. CASE UNCHANGED execVars
      BY <1>4, <2>1, FinishFacts DEF execVars, Types
    <2>2. CASE /\ status = "running" /\ status' = Run!Outcome(cause)
               /\ Types(events') = Append(Types(events), status')
      <3>1. Run!Finish
        BY <1>4, <2>2, FinishFacts DEF Run!Finish, Types
      <3> QED
        BY <3>1 DEF Run!Next
    <2> QED
      BY <1>4, <2>1, <2>2, FinishFacts
  <1> QED
    BY <1>1, <1>2, <1>3, <1>4 DEF Next, Iterate, Going

LEMMA InitImplements == Init => Run!Init
  BY DEF Init, Run!Init

\* Whatever the iterator yields, one last event ends the run and tells why: the
\* steps of AgentRun are kept for runs of any length.
THEOREM RunStepsKept == Spec => Run!Init /\ [][Run!Next]_<<Types(events), cause, status>>
  BY InitImplements, StepImplements, Inductive, PTL DEF Spec

-----------------------------------------------------------------------------
(* What is told.  The events of the log are counted by their positions.    *)

\* Some positions of a log of N events, when it grows by one.
Extends(S, N) ==
    /\ Cardinality(S) \in Nat /\ Cardinality(S \cup {N + 1}) = Cardinality(S) + 1
    /\ \A n \in 1..N : UpTo(S, n) \in 0..Cardinality(S) /\ UpTo(S \cup {N + 1}, n) = UpTo(S, n)
    /\ UpTo(S, N + 1) = Cardinality(S) /\ UpTo(S \cup {N + 1}, N + 1) = Cardinality(S) + 1
    /\ \A n \in S : UpTo(S, n) \in 1..Cardinality(S)

LEMMA OneMore ==
    ASSUME NEW N \in Nat, NEW S, S \subseteq 1..N
    PROVE  Extends(S, N)
  <1>1. IsFiniteSet(S) /\ Cardinality(S) \in Nat
    <2>1. IsFiniteSet(1..N)
      BY FS_Interval
    <2> QED
      BY <2>1, FS_Subset, FS_CardinalityType
  <1>2. N + 1 \notin S
    OBVIOUS
  <1>3. Cardinality(S \cup {N + 1}) = Cardinality(S) + 1
    BY <1>1, <1>2, FS_AddElement
  <1>4. ASSUME NEW n \in 1..N
        PROVE  UpTo(S, n) \in 0..Cardinality(S) /\ UpTo(S \cup {N + 1}, n) = UpTo(S, n)
    <2>1. {k \in S \cup {N + 1} : k <= n} = {k \in S : k <= n}
      OBVIOUS
    <2>2. {k \in S : k <= n} \subseteq S
      OBVIOUS
    <2>3. Cardinality({k \in S : k <= n}) \in 0..Cardinality(S)
      BY <1>1, <2>2, FS_Subset, FS_CardinalityType
    <2> QED
      BY <2>1, <2>3 DEF UpTo
  <1>5. {k \in S : k <= N + 1} = S /\ {k \in S \cup {N + 1} : k <= N + 1} = S \cup {N + 1}
    <2>1. \A k \in S \cup {N + 1} : k <= N + 1
      OBVIOUS
    <2> QED
      BY <2>1
  <1>6. ASSUME NEW n \in S
        PROVE  UpTo(S, n) \in 1..Cardinality(S)
    <2>1. n \in {k \in S : k <= n} /\ n \in 1..N
      OBVIOUS
    <2>2. IsFiniteSet({k \in S : k <= n})
      BY <1>1, FS_Subset
    <2>3. Cardinality({k \in S : k <= n}) # 0
      BY <2>1, <2>2, FS_EmptySet
    <2> QED
      BY <1>1, <1>4, <2>1, <2>3 DEF UpTo
  <1> QED
    BY <1>1, <1>3, <1>4, <1>5, <1>6 DEF UpTo, Extends

LEMMA AtAppend ==
    ASSUME NEW T, NEW s \in Seq(Records(T)), NEW e \in Records(T)
    PROVE  LET t == Append(s, e)
           IN  /\ Len(s) \in Nat /\ Len(t) = Len(s) + 1 /\ t[Len(s) + 1] = e
               /\ \A n \in 1..Len(s) : t[n] = s[n]
               /\ \A type : /\ At(s, type) \subseteq 1..Len(s)
                                       /\ At(t, type) = IF e.type = type THEN At(s, type) \cup {Len(s) + 1}
                                                                         ELSE At(s, type)
               /\ Named(s) \subseteq 1..Len(s)
               /\ Named(t) = IF e.type = "tool.call" /\ e.data = "named" THEN Named(s) \cup {Len(s) + 1}
                                                                        ELSE Named(s)
  <1> DEFINE t == Append(s, e)
  <1>1. /\ Len(s) \in Nat /\ Len(t) = Len(s) + 1 /\ t[Len(s) + 1] = e
        /\ \A n \in 1..Len(s) : t[n] = s[n]
        /\ DOMAIN s = 1..Len(s) /\ DOMAIN t = 1..(Len(s) + 1)
    OBVIOUS
  <1> HIDE DEF t
  <1>2. DOMAIN t = DOMAIN s \cup {Len(s) + 1} /\ Len(s) + 1 \notin DOMAIN s
    BY <1>1
  <1>3. ASSUME NEW type
        PROVE  /\ At(s, type) \subseteq 1..Len(s)
               /\ At(t, type) = IF e.type = type THEN At(s, type) \cup {Len(s) + 1} ELSE At(s, type)
    BY <1>1, <1>2 DEF At
  <1>4. Named(s) \subseteq 1..Len(s)
    BY <1>3 DEF Named
  <1>5. Named(t) = IF e.type = "tool.call" /\ e.data = "named" THEN Named(s) \cup {Len(s) + 1} ELSE Named(s)
    BY <1>1, <1>2 DEF At, Named
  <1> QED
    BY <1>1, <1>3, <1>4, <1>5 DEF t

-----------------------------------------------------------------------------
(* What is said in the log: the texts, the calls, and the results, each    *)
(* after its call.                                                         *)

Ledger(log, texts, c, r) ==
    /\ Tells(log, texts) /\ Answers(log)
    /\ Cardinality(Named(log)) = c /\ Cardinality(At(log, "tool.result")) = r

LEMMA LedgerAppend ==
    ASSUME NEW T, NEW s \in Seq(Records(T)), NEW e \in Records(T), NEW texts \in Seq(Texts),
           NEW c \in Nat, NEW r \in Nat, Ledger(s, texts, c, r),
           e.type = "chunk" => e.data \in Texts, e.type = "tool.result" => r < c
    PROVE  Ledger(Append(s, e),
                  IF e.type = "chunk" THEN Append(texts, e.data) ELSE texts,
                  IF e.type = "tool.call" /\ e.data = "named" THEN c + 1 ELSE c,
                  IF e.type = "tool.result" THEN r + 1 ELSE r)
  <1> DEFINE t == Append(s, e)
             N == Len(s)
             texts2 == IF e.type = "chunk" THEN Append(texts, e.data) ELSE texts
  <1>1. /\ N \in Nat /\ Len(t) = N + 1 /\ t[N + 1] = e
        /\ \A n \in 1..N : t[n] = s[n]
        /\ \A type : /\ At(s, type) \subseteq 1..N
                                /\ At(t, type) = IF e.type = type THEN At(s, type) \cup {N + 1} ELSE At(s, type)
        /\ Named(s) \subseteq 1..N
        /\ Named(t) = IF e.type = "tool.call" /\ e.data = "named" THEN Named(s) \cup {N + 1} ELSE Named(s)
    BY AtAppend
  <1> HIDE DEF t, N
  <1>2. Tells(t, texts2)
    <2> DEFINE S == At(s, "chunk")
    <2>1. S \subseteq 1..N /\ At(t, "chunk") = IF e.type = "chunk" THEN S \cup {N + 1} ELSE S
      BY <1>1, Zenon
    <2>2. Cardinality(S) = Len(texts) /\ \A n \in S : s[n].data = texts[UpTo(S, n)]
      BY DEF Ledger, Tells
    <2> HIDE DEF S
    <2>3. \A n \in S : t[n] = s[n]
      BY <1>1, <2>1
    <2>4. CASE e.type # "chunk"
      BY <2>1, <2>2, <2>3, <2>4 DEF Tells
    <2>5. CASE e.type = "chunk"
      <3>1. /\ Len(texts) \in Nat /\ texts2 = Append(texts, e.data) /\ Len(texts2) = Len(texts) + 1
            /\ \A n \in 1..Len(texts) : texts2[n] = texts[n]
            /\ texts2[Len(texts) + 1] = e.data
        BY <2>5
      <3> HIDE DEF texts2
      <3>2. /\ Cardinality(S \cup {N + 1}) = Cardinality(S) + 1
            /\ \A n \in S : UpTo(S \cup {N + 1}, n) = UpTo(S, n) /\ UpTo(S, n) \in 1..Cardinality(S)
            /\ UpTo(S \cup {N + 1}, N + 1) = Cardinality(S) + 1
        <4>1. N \in Nat /\ S \subseteq 1..N
          BY <1>1, <2>1
        <4>2. Extends(S, N)
          BY <4>1, OneMore
        <4> QED
          BY <4>1, <4>2 DEF Extends
      <3>3. \A n \in S : t[n].data = texts2[UpTo(S \cup {N + 1}, n)]
        BY <2>2, <2>3, <3>1, <3>2
      <3>4. t[N + 1].data = texts2[UpTo(S \cup {N + 1}, N + 1)]
        BY <1>1, <2>2, <3>1, <3>2
      <3> QED
        BY <2>1, <2>2, <2>5, <3>1, <3>2, <3>3, <3>4 DEF Tells
    <2> QED
      BY <2>4, <2>5
  <1>3. /\ Cardinality(Named(t)) = IF e.type = "tool.call" /\ e.data = "named" THEN c + 1 ELSE c
        /\ Cardinality(At(t, "tool.result")) = IF e.type = "tool.result" THEN r + 1 ELSE r
    <2>1. N \in Nat /\ Named(s) \subseteq 1..N /\ At(s, "tool.result") \subseteq 1..N
      BY <1>1
    <2>2. /\ Cardinality(Named(s)) = c /\ Cardinality(At(s, "tool.result")) = r
          /\ Cardinality(Named(s) \cup {N + 1}) = Cardinality(Named(s)) + 1
          /\ Cardinality(At(s, "tool.result") \cup {N + 1}) = Cardinality(At(s, "tool.result")) + 1
      <3>1. Extends(Named(s), N) /\ Extends(At(s, "tool.result"), N)
        BY <2>1, OneMore
      <3> QED
        BY <3>1 DEF Ledger, Extends
    <2>3. At(t, "tool.result") = IF e.type = "tool.result" THEN At(s, "tool.result") \cup {N + 1}
                                                           ELSE At(s, "tool.result")
      BY <1>1, Zenon
    <2> QED
      BY <1>1, <2>2, <2>3
  <1>4. Answers(t)
    <2> DEFINE R == At(s, "tool.result")
               C == Named(s)
    <2>1. /\ R \subseteq 1..N /\ At(t, "tool.result") = IF e.type = "tool.result" THEN R \cup {N + 1} ELSE R
          /\ C \subseteq 1..N /\ Named(t) \in {C, C \cup {N + 1}}
          /\ e.type = "tool.result" => Named(t) = C
      <3>1. Named(t) = IF e.type = "tool.call" /\ e.data = "named" THEN C \cup {N + 1} ELSE C
        BY <1>1, Zenon
      <3>2. /\ R \subseteq 1..N /\ C \subseteq 1..N
            /\ At(t, "tool.result") = IF e.type = "tool.result" THEN R \cup {N + 1} ELSE R
        BY <1>1, Zenon
      <3> HIDE DEF R, C
      <3> QED
        BY <3>1, <3>2
    <2>2. Cardinality(R) = r /\ Cardinality(C) = c /\ \A n \in R : UpTo(R, n) <= UpTo(C, n)
      BY DEF Ledger, Answers
    <2> HIDE DEF R, C
    <2>3. /\ \A n \in 1..N : UpTo(R \cup {N + 1}, n) = UpTo(R, n) /\ UpTo(C \cup {N + 1}, n) = UpTo(C, n)
          /\ UpTo(R \cup {N + 1}, N + 1) = r + 1 /\ UpTo(C, N + 1) = c
      <3>1. N \in Nat /\ R \subseteq 1..N /\ C \subseteq 1..N
        BY <1>1, <2>1
      <3>2. Extends(R, N) /\ Extends(C, N)
        BY <3>1, OneMore
      <3> QED
        BY <2>2, <3>2 DEF Extends
    <2>4. ASSUME NEW n \in R
          PROVE  UpTo(At(t, "tool.result"), n) <= UpTo(Named(t), n)
      BY <2>1, <2>2, <2>3
    <2>5. ASSUME e.type = "tool.result"
          PROVE  UpTo(At(t, "tool.result"), N + 1) <= UpTo(Named(t), N + 1)
      <3>1. At(t, "tool.result") = R \cup {N + 1} /\ Named(t) = C
        BY <2>1, <2>5, Zenon
      <3>2. r + 1 <= c
        BY <2>5
      <3> QED
        BY <2>3, <3>1, <3>2
    <2>6. ASSUME NEW n \in At(t, "tool.result")
          PROVE  n \in R \/ (n = N + 1 /\ e.type = "tool.result")
      BY <2>1, <2>6
    <2> QED
      BY <2>4, <2>5, <2>6 DEF Answers
  <1> QED
    BY <1>2, <1>3, <1>4 DEF Ledger, t

All == Contents \cup Outcomes
UsagesAt(log) == At(log, "token.usage")

LedgerInv == Ledger(events, said, calls, results)

\* What the handler knows of the usage, and where it is told.
UsageInv ==
    /\ usage = IF reported = <<>> THEN NoUsage ELSE Last(reported)
    /\ pc \in {"next", "recv"} \/ cause # "none" => UsagesAt(events) = {}
    /\ pc = "complete" =>
         /\ UsagesAt(events) = IF usage = NoUsage THEN {} ELSE {Len(events)}
         /\ \A n \in UsagesAt(events) : events[n].data = usage
    /\ status \in {"failed", "cancelled"} => cause # "none"
    /\ status = "completed" =>
         /\ UsagesAt(events) = IF usage = NoUsage THEN {} ELSE {Len(events) - 1}
         /\ \A n \in UsagesAt(events) : events[n].data = usage
         /\ output.usage = usage

ToldInv == IInv /\ LedgerInv /\ UsageInv

\* One event more in the log.
LEMMA LedgerMore ==
    ASSUME NEW s \in Seq(Records(All)), NEW e \in Records(All), NEW texts \in Seq(Texts),
           NEW c \in Nat, NEW r \in Nat, Ledger(s, texts, c, r)
    PROVE  /\ Append(s, e) \in Seq(Records(All)) /\ Len(Append(s, e)) = Len(s) + 1
           /\ UsagesAt(Append(s, e)) = IF e.type = "token.usage" THEN UsagesAt(s) \cup {Len(s) + 1}
                                                                 ELSE UsagesAt(s)
           /\ e.type = "chunk" /\ e.data \in Texts => Ledger(Append(s, e), Append(texts, e.data), c, r)
           /\ e.type = "tool.call" =>
                Ledger(Append(s, e), texts, IF e.data = "named" THEN c + 1 ELSE c, r)
           /\ e.type = "tool.result" /\ r < c => Ledger(Append(s, e), texts, c, r + 1)
           /\ e.type \notin {"chunk", "tool.call", "tool.result"} => Ledger(Append(s, e), texts, c, r)
  <1>1. Append(s, e) \in Seq(Records(All)) /\ Len(Append(s, e)) = Len(s) + 1
    OBVIOUS
  <1>2. UsagesAt(Append(s, e)) = IF e.type = "token.usage" THEN UsagesAt(s) \cup {Len(s) + 1} ELSE UsagesAt(s)
    <2>1. \A type : At(Append(s, e), type) = IF e.type = type THEN At(s, type) \cup {Len(s) + 1} ELSE At(s, type)
      BY AtAppend
    <2> QED
      BY <2>1, Zenon DEF UsagesAt
  <1>3. (e.type = "chunk" => e.data \in Texts) /\ (e.type = "tool.result" => r < c) =>
           Ledger(Append(s, e),
                  IF e.type = "chunk" THEN Append(texts, e.data) ELSE texts,
                  IF e.type = "tool.call" /\ e.data = "named" THEN c + 1 ELSE c,
                  IF e.type = "tool.result" THEN r + 1 ELSE r)
    BY LedgerAppend
  <1> QED
    BY <1>1, <1>2, <1>3

LEMMA LogOf ==
    ASSUME ToldInv
    PROVE  /\ events \in Seq(Records(All)) /\ Len(events) \in Nat /\ LedgerInv
           /\ said \in Seq(Texts) /\ calls \in Nat /\ results \in Nat
  BY DEF ToldInv, IInv, EventsInv, StreamTypeOK, All

LEMMA HandleLedger ==
    ASSUME ToldInv, NEW p \in Pieces, Handle(p)
    PROVE  LedgerInv' /\ UsagesAt(events') = UsagesAt(events)
  <1> DEFINE mid == events \o Announce(p)
             call == Ev("tool.call", p.call)
             chunk == Ev("chunk", p.text)
  <1>1. /\ events \in Seq(Records(All)) /\ Ledger(events, said, calls, results)
        /\ said \in Seq(Texts) /\ calls \in Nat /\ results \in Nat
    BY LogOf DEF LedgerInv
  <1>2. /\ p.text \in Texts \cup {Empty} /\ p.call \in {"none", "named", "more"}
        /\ events' = mid \o (IF p.text = Empty THEN <<>> ELSE <<chunk>>)
        /\ said' = IF p.text = Empty THEN said ELSE Append(said, p.text)
        /\ calls' = IF handler = "tools" /\ p.call = "named" THEN calls + 1 ELSE calls
        /\ results' = results
    BY DEF Pieces, Handle
  <1>3. /\ mid \in Seq(Records(All)) /\ Ledger(mid, said, calls', results)
        /\ UsagesAt(mid) = UsagesAt(events)
    <2>1. CASE handler = "tools" /\ p.call # "none"
      <3>1. call \in Records(All) /\ call.type = "tool.call" /\ call.data = p.call
        BY <1>2 DEF Ev, Records, All, Contents, Datas
      <3> HIDE DEF call
      <3>2. mid = Append(events, call)
        BY <1>1, <2>1, <3>1 DEF Announce, call
      <3> HIDE DEF mid
      <3>3. /\ Append(events, call) \in Seq(Records(All))
            /\ Ledger(Append(events, call), said, IF call.data = "named" THEN calls + 1 ELSE calls, results)
            /\ UsagesAt(Append(events, call)) = UsagesAt(events)
        BY <1>1, <3>1, LedgerMore
      <3> QED
        BY <1>2, <2>1, <3>1, <3>2, <3>3
    <2>2. CASE ~(handler = "tools" /\ p.call # "none")
      <3>1. mid = events
        BY <1>1, <2>2 DEF Announce
      <3>2. calls' = calls
        BY <1>2, <2>2
      <3> QED
        BY <1>1, <3>1, <3>2
    <2> QED
      BY <2>1, <2>2
  <1> HIDE DEF mid
  <1>4. CASE p.text = Empty
    <2>1. events' = mid /\ said' = said
      BY <1>2, <1>3, <1>4
    <2> QED
      BY <1>2, <1>3, <2>1 DEF LedgerInv
  <1>5. CASE p.text # Empty
    <2>1. chunk \in Records(All) /\ chunk.type = "chunk" /\ chunk.data = p.text /\ p.text \in Texts
      BY <1>2, <1>5 DEF Ev, Records, All, Contents, Datas
    <2> HIDE DEF chunk
    <2>2. events' = Append(mid, chunk) /\ said' = Append(said, chunk.data)
      BY <1>2, <1>3, <1>5, <2>1
    <2>3. calls' \in Nat
      BY <1>1, <1>2
    <2>4. Ledger(Append(mid, chunk), Append(said, chunk.data), calls', results)
          /\ UsagesAt(Append(mid, chunk)) = UsagesAt(mid)
      BY <1>1, <1>3, <2>1, <2>3, LedgerMore
    <2> QED
      BY <1>2, <1>3, <2>2, <2>4 DEF LedgerInv
  <1> QED
    BY <1>4, <1>5

\* The last usage reported is the one the handler keeps.
LEMMA UsageKept ==
    ASSUME NEW u \in Usages \cup {NoUsage}, reported \in Seq(Usages),
           usage = IF reported = <<>> THEN NoUsage ELSE Last(reported),
           usage' = (IF u = NoUsage THEN usage ELSE u),
           reported' = (IF u = NoUsage THEN reported ELSE Append(reported, u))
    PROVE  usage' = IF reported' = <<>> THEN NoUsage ELSE Last(reported')
  <1>1. CASE u = NoUsage
    BY <1>1
  <1>2. CASE u # NoUsage
    <2> DEFINE q == Append(reported, u)
    <2>1. q # <<>> /\ q[Len(q)] = u
      BY <1>2
    <2> QED
      BY <1>2, <2>1 DEF Last
  <1> QED
    BY <1>1, <1>2

\* The end of a run is neither said, nor a call, nor a result.
LEMMA EndLedger ==
    ASSUME ToldInv, status = "running", NEW s \in Outcomes, NEW out, End(s, out),
           UNCHANGED <<said, calls, results>>
    PROVE  /\ LedgerInv' /\ UsagesAt(events') = UsagesAt(events)
           /\ Len(events') = Len(events) + 1 /\ \A n \in 1..Len(events) : events'[n] = events[n]
           /\ status' = s /\ output' = out
  <1> DEFINE e == Ev(s, NoUsage)
  <1>1. e \in Records(All) /\ e.type \notin {"chunk", "tool.call", "tool.result", "token.usage"}
    BY DEF Ev, Records, All, Outcomes, Datas
  <1>2. events' = Append(events, e) /\ status' = s /\ output' = out
    BY DEF End, Ended
  <1> HIDE DEF e
  <1>3. /\ events \in Seq(Records(All)) /\ Ledger(events, said, calls, results)
        /\ said \in Seq(Texts) /\ calls \in Nat /\ results \in Nat
    BY LogOf DEF LedgerInv
  <1>4. /\ Ledger(Append(events, e), said, calls, results) /\ UsagesAt(Append(events, e)) = UsagesAt(events)
        /\ Len(Append(events, e)) = Len(events) + 1
    BY <1>1, <1>3, LedgerMore
  <1>5. \A n \in 1..Len(events) : Append(events, e)[n] = events[n]
    BY <1>1, <1>3
  <1> QED
    BY <1>2, <1>4, <1>5 DEF LedgerInv

LEMMA ToldStarts == Init => ToldInv
  <1> SUFFICES ASSUME Init PROVE LedgerInv /\ UsageInv
    BY InitIInv DEF ToldInv
  <1>1. /\ events = <<>> /\ said = <<>> /\ reported = <<>> /\ calls = 0 /\ results = 0
        /\ usage = NoUsage /\ pc = "next" /\ status = "running"
    BY DEF Init
  <1>2. \A type : At(events, type) = {}
    BY <1>1 DEF At
  <1>3. Named(events) = {}
    BY <1>2 DEF Named
  <1>4. Cardinality({}) = 0
    BY FS_EmptySet
  <1>5. LedgerInv
    <2>1. Tells(events, said)
      BY <1>1, <1>2, <1>4 DEF Tells
    <2> QED
      BY <1>1, <1>2, <1>3, <1>4, <2>1 DEF LedgerInv, Ledger, Answers
  <1>6. UsageInv
    BY <1>1, <1>2 DEF UsageInv, UsagesAt
  <1> QED
    BY <1>5, <1>6

\* Steps of the handler, and of the context under it.
LEMMA HandlerTells ==
    ASSUME ToldInv, \E p \in Pieces : NextMessage(p) \/ Recv(p)
    PROVE  LedgerInv' /\ UsageInv'
  <1>1. PICK p \in Pieces : Handle(p) /\ pc' = pc /\ pc \in {"next", "recv"}
    BY DEF NextMessage, Recv
  <1>2. LedgerInv' /\ UsagesAt(events') = UsagesAt(events)
    BY <1>1, HandleLedger
  <1>3. UNCHANGED <<cause, status, output>> /\ status = "running" /\ cause = "none"
    BY <1>1 DEF Handle, ToldInv, IInv, TellInv
  <1>4. usage' = IF reported' = <<>> THEN NoUsage ELSE Last(reported')
    <2>1. p.usage \in Usages \cup {NoUsage}
      BY DEF Pieces
    <2>2. usage' = (IF p.usage = NoUsage THEN usage ELSE p.usage)
          /\ reported' = (IF p.usage = NoUsage THEN reported ELSE Append(reported, p.usage))
      BY <1>1 DEF Handle, KeepUsage
    <2>3. reported \in Seq(Usages) /\ usage = IF reported = <<>> THEN NoUsage ELSE Last(reported)
      BY DEF ToldInv, IInv, StreamTypeOK, UsageInv
    <2> QED
      BY <2>1, <2>2, <2>3, UsageKept
  <1> QED
    BY <1>1, <1>2, <1>3, <1>4 DEF UsageInv, ToldInv

LEMMA ToolTells ==
    ASSUME ToldInv, NEW u \in Usages \cup {NoUsage}, ToolResult(u)
    PROVE  LedgerInv' /\ UsageInv'
  <1> DEFINE e == Ev("tool.result", "none")
  <1>1. e \in Records(All) /\ e.type = "tool.result"
    BY DEF Ev, Records, All, Contents, Datas
  <1>2. /\ events' = Append(events, e) /\ results' = results + 1 /\ results < calls
        /\ UNCHANGED <<said, calls, cause, status, output, pc>> /\ pc = "next"
        /\ usage' = (IF u = NoUsage THEN usage ELSE u)
        /\ reported' = (IF u = NoUsage THEN reported ELSE Append(reported, u))
    BY DEF ToolResult
  <1> HIDE DEF e
  <1>3. /\ events \in Seq(Records(All)) /\ Ledger(events, said, calls, results)
        /\ said \in Seq(Texts) /\ calls \in Nat /\ results \in Nat
    BY LogOf DEF LedgerInv
  <1>4. /\ Ledger(Append(events, e), said, calls, results + 1)
        /\ UsagesAt(Append(events, e)) = UsagesAt(events)
    BY <1>1, <1>2, <1>3, LedgerMore
  <1>5. usage' = IF reported' = <<>> THEN NoUsage ELSE Last(reported')
    <2>1. reported \in Seq(Usages) /\ usage = IF reported = <<>> THEN NoUsage ELSE Last(reported)
      BY DEF ToldInv, IInv, StreamTypeOK, UsageInv
    <2> QED
      BY <1>2, <2>1, UsageKept
  <1>6. status = "running" /\ cause = "none"
    BY <1>2 DEF ToldInv, IInv, TellInv
  <1>7. UsageInv'
    BY <1>2, <1>4, <1>5, <1>6 DEF UsageInv, ToldInv
  <1> QED
    BY <1>2, <1>4, <1>7 DEF LedgerInv

LEMMA EndTells ==
    ASSUME ToldInv, NextEnds
    PROVE  LedgerInv' /\ UsageInv'
  <1> DEFINE e == Ev("token.usage", usage)
  <1>1. /\ e \in Records(All) /\ e.type = "token.usage" /\ e.data = usage
    BY DEF Ev, Records, All, Contents, Datas, ToldInv, IInv, StreamTypeOK
  <1>2. /\ events' = IF usage = NoUsage THEN events ELSE Append(events, e)
        /\ UNCHANGED <<said, reported, calls, results, cause, status, output, usage>>
        /\ pc = "next" /\ pc' = "complete"
    BY DEF NextEnds, histVars
  <1> HIDE DEF e
  <1>3. /\ events \in Seq(Records(All)) /\ Ledger(events, said, calls, results)
        /\ said \in Seq(Texts) /\ calls \in Nat /\ results \in Nat
    BY LogOf DEF LedgerInv
  <1>4. /\ Ledger(Append(events, e), said, calls, results)
        /\ UsagesAt(Append(events, e)) = UsagesAt(events) \cup {Len(events) + 1}
        /\ Len(Append(events, e)) = Len(events) + 1
    BY <1>1, <1>3, LedgerMore
  <1>5. Append(events, e)[Len(events) + 1] = e
    BY <1>1, <1>3
  <1>6. status = "running" /\ cause = "none" /\ UsagesAt(events) = {}
    BY <1>2 DEF ToldInv, IInv, TellInv, UsageInv
  <1>7. UsageInv'
    <2>1. UsagesAt(events') = IF usage = NoUsage THEN {} ELSE {Len(events')}
      BY <1>2, <1>4, <1>6
    <2>2. \A n \in UsagesAt(events') : events'[n].data = usage
      BY <1>1, <1>2, <1>4, <1>5, <1>6
    <2> QED
      BY <1>2, <1>6, <2>1, <2>2 DEF UsageInv, ToldInv
  <1> QED
    BY <1>2, <1>3, <1>4, <1>7 DEF LedgerInv

LEMMA QuietTells ==
    ASSUME ToldInv, NextStream \/ RecvEOF \/ NextEmpty \/ CtxDone \/ UNCHANGED vars
    PROVE  LedgerInv' /\ UsageInv'
  <1>1. /\ UNCHANGED <<events, status, output, said, reported, calls, results, usage, cause>>
        /\ pc' = pc \/ {pc, pc'} \subseteq {"next", "recv"}
    BY DEF NextStream, RecvEOF, NextEmpty, CtxDone, vars, execVars, histVars
  <1> QED
    BY <1>1 DEF LedgerInv, UsageInv, ToldInv

\* Steps by which a run ends.
LEMMA StopTells ==
    ASSUME ToldInv, Fails \/ ToolFails \/ Panics
    PROVE  LedgerInv' /\ UsageInv'
  <1>1. PICK e \in {"other", "canceled", "panic"} :
          /\ Stop(e) /\ pc \in {"next", "recv"}
          /\ IF e = "other" THEN End("failed", NoOutput) ELSE UNCHANGED execVars
    BY DEF Fails, ToolFails, Panics, Errors, FailIfNotCanceled
  <1>2. /\ cause' = e /\ pc' = "unwind" /\ UNCHANGED <<usage, said, reported, calls, results>>
        /\ status = "running" /\ UsagesAt(events) = {}
    BY <1>1 DEF Stop, histVars, ToldInv, IInv, TellInv, UsageInv
  <1>3. CASE e = "other"
    <2>1. "failed" \in Outcomes
      BY DEF Outcomes
    <2>2. LedgerInv' /\ UsagesAt(events') = {} /\ status' = "failed"
      BY <1>1, <1>2, <1>3, <2>1, EndLedger
    <2> QED
      BY <1>2, <1>3, <2>2 DEF UsageInv, ToldInv
  <1>4. CASE e # "other"
    <2>1. UNCHANGED <<events, status, output>>
      BY <1>1, <1>4 DEF execVars
    <2> QED
      BY <1>2, <1>4, <2>1 DEF LedgerInv, UsageInv, ToldInv
  <1> QED
    BY <1>3, <1>4

LEMMA CompleteTells ==
    ASSUME ToldInv, Complete
    PROVE  LedgerInv' /\ UsageInv'
  <1> DEFINE out == [content |-> content, usage |-> usage]
  <1>1. /\ End("completed", out) /\ out.usage = usage /\ status = "running" /\ cause = "none"
        /\ UNCHANGED <<usage, cause, said, reported, calls, results>> /\ pc = "complete" /\ pc' = "unwind"
    BY DEF Complete, histVars, ToldInv, IInv, TellInv
  <1> HIDE DEF out
  <1>2. /\ LedgerInv' /\ UsagesAt(events') = UsagesAt(events)
        /\ Len(events') = Len(events) + 1 /\ \A n \in 1..Len(events) : events'[n] = events[n]
        /\ status' = "completed" /\ output' = out
    <2>1. "completed" \in Outcomes
      BY DEF Outcomes
    <2> QED
      BY <1>1, <2>1, EndLedger
  <1>3. /\ UsagesAt(events) = IF usage = NoUsage THEN {} ELSE {Len(events)}
        /\ \A n \in UsagesAt(events) : n \in 1..Len(events) /\ events[n].data = usage
    <2>1. Len(events) \in Nat /\ DOMAIN events = 1..Len(events)
      BY LogOf
    <2> QED
      BY <1>1, <2>1 DEF ToldInv, UsageInv, UsagesAt, At
  <1>4. Len(events') - 1 = Len(events)
    BY <1>2, LogOf
  <1>5. UsageInv'
    BY <1>1, <1>2, <1>3, <1>4 DEF UsageInv, ToldInv
  <1> QED
    BY <1>2, <1>5

LEMMA AgentTells ==
    ASSUME ToldInv, ExecuteAgent
    PROVE  LedgerInv' /\ UsageInv'
  <1>1. /\ pc = "unwind" /\ pc' = "done" /\ UNCHANGED <<usage, cause, said, reported, calls, results>>
        /\ CASE cause = "none"     -> UNCHANGED execVars
             [] cause = "canceled" -> End("cancelled", NoOutput)
             [] OTHER              -> End("failed", NoOutput)
    BY DEF ExecuteAgent, histVars
  <1>2. CASE UNCHANGED <<events, status, output>>
    BY <1>1, <1>2 DEF LedgerInv, UsageInv, ToldInv
  <1>3. CASE ~UNCHANGED <<events, status, output>>
    <2>1. PICK s \in {"cancelled", "failed"} : End(s, NoOutput) /\ cause # "none" /\ status = "running"
      BY <1>1, <1>3 DEF execVars, End, Ended
    <2>2. s \in Outcomes
      BY DEF Outcomes
    <2>3. LedgerInv' /\ UsagesAt(events') = UsagesAt(events) /\ status' = s
      BY <1>1, <2>1, <2>2, EndLedger
    <2>4. UsagesAt(events) = {}
      BY <2>1 DEF ToldInv, UsageInv
    <2> QED
      BY <1>1, <2>1, <2>3, <2>4 DEF UsageInv, ToldInv
  <1> QED
    BY <1>2, <1>3

LEMMA ToldKeeps == ToldInv /\ [Next]_vars => ToldInv'
  <1> SUFFICES ASSUME ToldInv, [Next]_vars PROVE LedgerInv' /\ UsageInv'
    BY NextIInv DEF ToldInv
  <1>1. CASE \E u \in Usages \cup {NoUsage} : ToolResult(u)
    BY <1>1, ToolTells
  <1> QED
    BY <1>1, HandlerTells, EndTells, QuietTells, StopTells, CompleteTells, AgentTells DEF Next, Iterate

LEMMA ToldInvariant == Spec => []ToldInv
  BY ToldStarts, ToldKeeps, PTL DEF Spec

\* What the assistant says is told in order and in full, and no tool's answer
\* with it, in runs of any length.
THEOREM SaidIsTold == Spec => []ContentTold
  <1>1. ToldInv => ContentTold
    BY DEF ToldInv, LedgerInv, Ledger, IInv, SaidInv, ContentTold
  <1> QED
    BY <1>1, ToldInvariant, PTL

\* The last usage reported is told once, right before the end and in the output,
\* by runs that complete and by no other.
THEOREM LastUsageIsTold == Spec => []UsageTold
  <1>1. ToldInv => UsageTold
    <2> SUFFICES ASSUME ToldInv PROVE UsageTold
      OBVIOUS
    <2>1. usage = NoUsage <=> reported = <<>>
      <3>1. reported # <<>> => Last(reported) \in Usages
        BY DEF ToldInv, IInv, StreamTypeOK, Last
      <3> QED
        BY <3>1, StreamAssumption DEF ToldInv, UsageInv
    <2> QED
      BY <2>1 DEF ToldInv, UsageInv, UsagesAt, UsageTold
  <1> QED
    BY <1>1, ToldInvariant, PTL

\* However many calls a run makes, no result comes before its call, and each
\* call is named once.
THEOREM ResultsFollowCalls == Spec => []CallsBeforeResults
  <1>1. ToldInv => CallsBeforeResults
    BY DEF ToldInv, LedgerInv, Ledger, CallsBeforeResults
  <1> QED
    BY <1>1, ToldInvariant, PTL
=============================================================================
