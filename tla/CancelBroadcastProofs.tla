----------------------- MODULE CancelBroadcastProofs ------------------------
(***************************************************************************)
(* What holds of cancellation between any number of instances, tasks and   *)
(* requests, with any number of lost connections and crashes.              *)
(*                                                                         *)
(* Types alone are not inductive: a request that broadcasts appends its    *)
(* task to inboxes, so it must be known to hold one.  Asked says that      *)
(* whatever travels names a task somebody asked for; Located, that a       *)
(* cancelFunc is held only in the instance its task runs in, so that a     *)
(* crash takes both.  With them RegistryIsTrue and AnswerExplained are     *)
(* inductive.                                                              *)
(***************************************************************************)
EXTENDS CancelBroadcast, TLAPS

Steps == {"new", "local", "call", "broadcast", "answered", "broken"}
RequestRecords ==
    [step: Steps, at: Instances \cup {NoInstance}, task: Tasks \cup {NoTask}]
Active == {"local", "call", "broadcast", "answered"}

Asked ==
    /\ \A t \in Tasks : ctx[t] = "done" => t \in asked
    /\ \A q \in Requests : req[q].step \in Active =>
         req[q].task \in asked /\ req[q].at \in Instances
    /\ \A i \in Instances : sub[i] # NoTask => sub[i] \in asked
    /\ \A i \in Instances : \A n \in 1..Len(inbox[i]) : inbox[i][n] \in asked

Located ==
    /\ \A t \in Tasks : IF task[t] = "new" THEN home[t] = NoInstance /\ t \notin asked
                                           ELSE home[t] \in Instances
    /\ \A i \in Instances : sub[i] # NoTask => home[sub[i]] = i
    /\ \A q \in Requests : req[q].step = "call" => home[req[q].task] = req[q].at

IInv == CancelTypeOK /\ Asked /\ Located /\ RegistryIsTrue /\ AnswerExplained

LEMMA InitIInv == Init => IInv
  BY CancelAssumption DEF Init, IInv, CancelTypeOK, NoReq, Asked, Located, RegistryIsTrue,
     AnswerExplained, Explained, Active

\* What changes when a request goes on.
LEMMA GoFacts ==
    ASSUME CancelTypeOK, NEW q \in Requests, NEW s \in Steps, Go(q, s)
    PROVE  /\ req' \in [Requests -> RequestRecords]
           /\ req'[q].step = s /\ req'[q].at = req[q].at /\ req'[q].task = req[q].task
           /\ \A p \in Requests : p # q => req'[p] = req[p]
  BY DEF CancelTypeOK, Go, Steps, RequestRecords

\* What changes when a task is taken out of a registry.
LEMMA TakenOut ==
    ASSUME NEW R \in [Instances -> SUBSET Tasks], NEW i \in Instances, NEW t
    PROVE  LET S == [R EXCEPT ![i] = @ \ {t}]
           IN  /\ S \in [Instances -> SUBSET Tasks]
               /\ \A j \in Instances, u \in Tasks : u \in S[j] <=> (u \in R[j] /\ ~(j = i /\ u = t))
  OBVIOUS

-----------------------------------------------------------------------------
(* The steps of a task.                                                    *)

LEMMA RegisterKeeps ==
    ASSUME IInv, NEW t \in Tasks, NEW i \in Instances, Register(t, i)
    PROVE  IInv'
  <1> USE CancelAssumption DEF instVars, histVars
  <1>1. CancelTypeOK' /\ (\A u \in Tasks : u # t => task'[u] = task[u] /\ home'[u] = home[u])
        /\ task'[t] = "running" /\ home'[t] = i
    BY DEF IInv, CancelTypeOK, Register
  <1>2. Asked'
    BY DEF IInv, Asked, Register
  <1>3. t \notin asked
    BY DEF IInv, Located, Register
  <1>4. Located'
    BY <1>1, <1>3 DEF IInv, Located, Asked, Active, CancelTypeOK, Register
  <1>5. \A j \in Instances : \A u \in Tasks :
          u \in reg'[j] <=> u \in reg[j] \/ (j = i /\ u = t)
    BY DEF IInv, CancelTypeOK, Register
  <1>6. RegistryIsTrue'
    <2>1. \A j \in Instances : \A u \in reg'[j] :
            home'[u] = j /\ task'[u] \in {"running", "unwinding"}
      BY <1>1, <1>5 DEF IInv, RegistryIsTrue, Register, CancelTypeOK
    <2>2. ASSUME NEW u \in Tasks, task'[u] = "running"
          PROVE  u \in reg'[home'[u]] \/ Held(u)' \/ ctx'[u] = "done"
      BY <1>1, <1>5, <2>2 DEF IInv, RegistryIsTrue, Register, Located, Held
    <2> QED
      BY <2>1, <2>2 DEF RegistryIsTrue
  <1>7. AnswerExplained'
    <2> SUFFICES ASSUME NEW q \in Requests, NEW u \in Tasks, req[q].step = "answered",
                        req[q].task = u, task'[u] = "running"
                 PROVE  Explained(u)'
      BY DEF AnswerExplained, Register
    <2>1. u \in asked
      BY DEF IInv, Asked, Active
    <2> QED
      BY <1>1, <1>3, <2>1 DEF IInv, AnswerExplained, Explained, Register, Held
  <1> QED
    BY <1>1, <1>2, <1>4, <1>6, <1>7 DEF IInv

\* A task that leaves "running" needs no explanation any more.
LEMMA AgentReturnsKeeps ==
    ASSUME IInv, NEW t \in Tasks, AgentReturns(t)
    PROVE  IInv'
  <1> USE DEF instVars, histVars
  <1>1. CancelTypeOK' /\ (\A u \in Tasks : u # t => task'[u] = task[u]) /\ task'[t] = "unwinding"
    BY DEF IInv, CancelTypeOK, AgentReturns
  <1>2. Asked'
    BY DEF IInv, Asked, AgentReturns
  <1>3. Located'
    BY <1>1 DEF IInv, Located, AgentReturns
  <1>4. RegistryIsTrue'
    BY <1>1 DEF IInv, RegistryIsTrue, CancelTypeOK, AgentReturns, Held
  <1>5. AnswerExplained'
    BY <1>1 DEF IInv, AnswerExplained, Explained, AgentReturns, Held
  <1> QED
    BY <1>1, <1>2, <1>3, <1>4, <1>5 DEF IInv

LEMMA UnregisterKeeps ==
    ASSUME IInv, NEW t \in Tasks, Unregister(t)
    PROVE  IInv'
  <1> USE DEF instVars, histVars
  <1>1. (\A u \in Tasks : u # t => task'[u] = task[u]) /\ task'[t] = "ended"
    BY DEF IInv, CancelTypeOK, Unregister
  <1>2. home[t] \in Instances
    BY DEF IInv, Located, Unregister
  <1>3. /\ reg' \in [Instances -> SUBSET Tasks]
        /\ \A j \in Instances, u \in Tasks : u \in reg'[j] <=> (u \in reg[j] /\ ~(j = home[t] /\ u = t))
    BY <1>2, TakenOut DEF IInv, CancelTypeOK, Unregister
  <1>4. CancelTypeOK'
    BY <1>3 DEF IInv, CancelTypeOK, Unregister
  <1>5. Asked'
    BY DEF IInv, Asked, Unregister
  <1>6. Located'
    BY <1>1 DEF IInv, Located, Unregister
  <1>7. RegistryIsTrue'
    <2>1. \A j \in Instances : \A u \in reg'[j] :
            home'[u] = j /\ task'[u] \in {"running", "unwinding"}
      BY <1>1, <1>3 DEF IInv, RegistryIsTrue, Unregister, CancelTypeOK
    <2>2. ASSUME NEW u \in Tasks, task'[u] = "running"
          PROVE  u \in reg'[home'[u]] \/ Held(u)' \/ ctx'[u] = "done"
      BY <1>1, <1>3, <2>2 DEF IInv, RegistryIsTrue, Unregister, Located, Held
    <2> QED
      BY <2>1, <2>2 DEF RegistryIsTrue
  <1>8. AnswerExplained'
    BY <1>1 DEF IInv, AnswerExplained, Explained, Unregister, Held
  <1> QED
    BY <1>4, <1>5, <1>6, <1>7, <1>8 DEF IInv

-----------------------------------------------------------------------------
(* The steps of a request.                                                 *)

LEMMA AskKeeps ==
    ASSUME IInv, NEW q \in Requests, NEW i \in Instances, NEW t \in Tasks, Ask(q, i, t)
    PROVE  IInv'
  <1> USE CancelAssumption DEF instVars, histVars, taskVars
  <1>1. /\ req' \in [Requests -> RequestRecords]
        /\ req'[q] = [step |-> "local", at |-> i, task |-> t]
        /\ \A p \in Requests : p # q => req'[p] = req[p]
    BY DEF IInv, CancelTypeOK, Ask, RequestRecords, Steps
  <1>2. CancelTypeOK'
    BY <1>1 DEF IInv, CancelTypeOK, Ask, RequestRecords, Steps
  <1>3. Asked'
    BY <1>1 DEF IInv, Asked, Active, Ask
  <1>4. Located'
    BY <1>1 DEF IInv, Located, Ask
  <1>5. \A u : Held(u) => Held(u)'
    BY <1>1 DEF Ask, Held
  <1>6. RegistryIsTrue'
    BY <1>5 DEF IInv, RegistryIsTrue, Ask
  <1>7. AnswerExplained'
    BY <1>1, <1>5 DEF IInv, AnswerExplained, Explained, Ask
  <1> QED
    BY <1>2, <1>3, <1>4, <1>6, <1>7 DEF IInv

\* LoadAndDelete: a task that leaves the registry is held by the request.
LEMMA CancelLocalKeeps ==
    ASSUME IInv, NEW q \in Requests, CancelLocal(q)
    PROVE  IInv'
  <1> USE CancelAssumption DEF instVars, histVars, taskVars
  <1> DEFINE i == req[q].at
             t == req[q].task
             s == IF t \in reg[i] THEN "call" ELSE "broadcast"
  <1>1. i \in Instances /\ t \in Tasks /\ t \in asked /\ req[q].step = "local"
    BY DEF IInv, Asked, Active, CancelTypeOK, CancelLocal
  <1>2. /\ req' \in [Requests -> RequestRecords]
        /\ req'[q].step = s /\ req'[q].at = i /\ req'[q].task = t
        /\ \A p \in Requests : p # q => req'[p] = req[p]
    <2>1. Go(q, s) /\ s \in Steps
      BY DEF CancelLocal, Steps
    <2> QED
      BY <2>1, GoFacts DEF IInv
  <1>3. /\ reg' \in [Instances -> SUBSET Tasks]
        /\ \A j \in Instances, u \in Tasks : u \in reg'[j] <=> (u \in reg[j] /\ ~(j = i /\ u = t))
    BY <1>1, TakenOut DEF IInv, CancelTypeOK, CancelLocal
  <1>4. CancelTypeOK'
    BY <1>2, <1>3 DEF IInv, CancelTypeOK, CancelLocal, RequestRecords, Steps
  <1>5. Asked'
    BY <1>1, <1>2 DEF IInv, Asked, Active, CancelLocal
  <1>6. t \in reg[i] => home[t] = i
    BY <1>1 DEF IInv, RegistryIsTrue
  <1>7. Located'
    BY <1>2, <1>6 DEF IInv, Located, CancelLocal
  <1>8. \A u : Held(u) => Held(u)'
    BY <1>1, <1>2 DEF CancelLocal, Held
  <1>9. \A u : u = t /\ u \in reg[i] => Held(u)'
    BY <1>2 DEF Held
  <1>10. RegistryIsTrue'
    <2>1. \A j \in Instances : \A u \in reg'[j] :
            home'[u] = j /\ task'[u] \in {"running", "unwinding"}
      BY <1>3 DEF IInv, RegistryIsTrue, CancelLocal, CancelTypeOK
    <2>2. ASSUME NEW u \in Tasks, task'[u] = "running"
          PROVE  u \in reg'[home'[u]] \/ Held(u)' \/ ctx'[u] = "done"
      <3>1. task[u] = "running" /\ home' = home /\ ctx' = ctx
        BY <2>2 DEF CancelLocal
      <3>2. u \in reg[home[u]] \/ Held(u) \/ ctx[u] = "done"
        BY <3>1 DEF IInv, RegistryIsTrue
      <3>3. home[u] \in Instances
        BY <3>1 DEF IInv, Located
      <3>4. u \in reg'[home[u]] \/ Held(u)' \/ ctx[u] = "done"
        <4>1. CASE u \in reg[home[u]] /\ home[u] = i /\ u = t
          BY <1>9, <4>1
        <4>2. CASE u \in reg[home[u]] /\ ~(home[u] = i /\ u = t)
          BY <1>3, <3>3, <4>2
        <4>3. CASE Held(u)
          BY <1>8, <4>3
        <4> QED
          BY <3>2, <4>1, <4>2, <4>3
      <3> QED
        BY <3>1, <3>4
    <2> QED
      BY <2>1, <2>2 DEF RegistryIsTrue
  <1>11. AnswerExplained'
    BY <1>2, <1>8 DEF IInv, AnswerExplained, Explained, CancelLocal
  <1> QED
    BY <1>4, <1>5, <1>7, <1>10, <1>11 DEF IInv

LEMMA CallLocalKeeps ==
    ASSUME IInv, NEW q \in Requests, CallLocal(q)
    PROVE  IInv'
  <1> USE CancelAssumption DEF instVars, histVars, taskVars
  <1> DEFINE t == req[q].task
  <1>1. t \in Tasks /\ t \in asked /\ req[q].step = "call" /\ req[q].at \in Instances
    BY DEF IInv, Asked, Active, CancelTypeOK, CallLocal
  <1>2. /\ req' \in [Requests -> RequestRecords]
        /\ req'[q].step = "broadcast" /\ req'[q].at = req[q].at /\ req'[q].task = t
        /\ \A p \in Requests : p # q => req'[p] = req[p]
    <2>1. Go(q, "broadcast") /\ "broadcast" \in Steps
      BY DEF CallLocal, Steps
    <2> QED
      BY <2>1, GoFacts DEF IInv
  <1>3. /\ ctx' \in [Tasks -> {"live", "done"}] /\ ctx'[t] = "done"
        /\ \A u \in Tasks : u # t => ctx'[u] = ctx[u]
    BY <1>1 DEF IInv, CancelTypeOK, CallLocal
  <1>4. CancelTypeOK'
    BY <1>2, <1>3 DEF IInv, CancelTypeOK, CallLocal, RequestRecords, Steps
  <1>5. Asked'
    BY <1>1, <1>2, <1>3 DEF IInv, Asked, Active, CallLocal
  <1>6. Located'
    BY <1>2 DEF IInv, Located, CallLocal
  <1>7. \A u \in Tasks : Held(u) \/ ctx[u] = "done" => Held(u)' \/ ctx'[u] = "done"
    BY <1>2, <1>3 DEF CallLocal, Held
  <1>8. RegistryIsTrue'
    BY <1>7 DEF IInv, RegistryIsTrue, CallLocal
  <1>9. AnswerExplained'
    <2> SUFFICES ASSUME NEW p \in Requests, NEW u \in Tasks, req'[p].step = "answered",
                        req'[p].task = u, task[u] = "running"
                 PROVE  Explained(u)'
      BY DEF AnswerExplained, CallLocal
    <2>1. Explained(u)
      BY <1>2 DEF IInv, AnswerExplained
    <2> QED
      BY <1>7, <2>1 DEF Explained, CallLocal
  <1> QED
    BY <1>4, <1>5, <1>6, <1>8, <1>9 DEF IInv

\* The message reaches the task's instance, or the task is counted as missed.
LEMMA BroadcastKeeps ==
    ASSUME IInv, NEW q \in Requests, Broadcast(q)
    PROVE  IInv'
  <1> USE CancelAssumption DEF instVars, histVars, taskVars
  <1> DEFINE t == req[q].task
  <1>1. t \in Tasks /\ t \in asked /\ req[q].step = "broadcast" /\ home[t] \in Instances
    BY DEF IInv, Asked, Active, CancelTypeOK, Broadcast, Located
  <1>2. /\ req' \in [Requests -> RequestRecords]
        /\ req'[q].step = "answered" /\ req'[q].at = req[q].at /\ req'[q].task = t
        /\ \A p \in Requests : p # q => req'[p] = req[p]
    <2>1. Go(q, "answered") /\ "answered" \in Steps
      BY DEF Broadcast, Steps
    <2> QED
      BY <2>1, GoFacts DEF IInv
  <1>3. PICK to \in {{}, {j \in Instances : up[j] /\ link[j]}} :
          /\ inbox' = [j \in Instances |-> IF j \in to THEN Append(inbox[j], t) ELSE inbox[j]]
          /\ lost' = IF home[t] \in to THEN lost ELSE lost \cup {t}
    BY DEF Broadcast
  <1>4. ASSUME NEW j \in Instances
        PROVE  /\ inbox'[j] \in Seq(Tasks)
               /\ \A n \in 1..Len(inbox[j]) : n \in 1..Len(inbox'[j]) /\ inbox'[j][n] = inbox[j][n]
               /\ \A n \in 1..Len(inbox'[j]) : n \in 1..Len(inbox[j]) \/ inbox'[j][n] = t
               /\ j \in to => \E n \in 1..Len(inbox'[j]) : inbox'[j][n] = t
    <2>1. inbox[j] \in Seq(Tasks)
      BY DEF IInv, CancelTypeOK
    <2>2. CASE j \in to
      <3>1. inbox'[j] = Append(inbox[j], t)
        BY <1>3, <2>2
      <3>2. /\ inbox'[j] \in Seq(Tasks) /\ Len(inbox'[j]) = Len(inbox[j]) + 1
            /\ inbox'[j][Len(inbox[j]) + 1] = t /\ Len(inbox[j]) \in Nat
            /\ \A n \in 1..Len(inbox[j]) : inbox'[j][n] = inbox[j][n]
        BY <1>1, <2>1, <3>1
      <3>3. Len(inbox[j]) + 1 \in 1..Len(inbox'[j])
        BY <3>2
      <3> QED
        BY <3>2, <3>3
    <2>3. CASE j \notin to
      BY <1>3, <2>1, <2>3
    <2> QED
      BY <2>2, <2>3
  <1>5. CancelTypeOK'
    <2>1. inbox' \in [Instances -> Seq(Tasks)]
      BY <1>3, <1>4
    <2>2. lost' \subseteq Tasks
      BY <1>1, <1>3 DEF IInv, CancelTypeOK
    <2> QED
      BY <1>2, <2>1, <2>2 DEF IInv, CancelTypeOK, Broadcast, RequestRecords, Steps
  <1>6. Asked'
    <2>1. \A j \in Instances : \A n \in 1..Len(inbox'[j]) : inbox'[j][n] \in asked
      BY <1>1, <1>4 DEF IInv, Asked
    <2> QED
      BY <1>1, <1>2, <2>1 DEF IInv, Asked, Active, Broadcast
  <1>7. Located'
    BY <1>2 DEF IInv, Located, Broadcast
  <1>8. \A u : Held(u) => Held(u)'
    BY <1>1, <1>2 DEF Broadcast, Held
  <1>9. RegistryIsTrue'
    BY <1>8 DEF IInv, RegistryIsTrue, Broadcast
  <1>10. AnswerExplained'
    <2> SUFFICES ASSUME NEW p \in Requests, NEW u \in Tasks, req'[p].step = "answered",
                        req'[p].task = u, task[u] = "running"
                 PROVE  Explained(u)'
      BY DEF AnswerExplained, Broadcast
    <2>1. home' = home /\ ctx' = ctx
      BY DEF Broadcast
    <2>2. CASE p = q
      <3>1. u = t
        BY <1>2, <2>2
      <3>2. home[t] \in to \/ t \in lost'
        BY <1>3
      <3> QED
        BY <1>1, <1>4, <2>1, <3>1, <3>2 DEF Explained
    <2>3. CASE p # q
      <3>1. Explained(u)
        BY <1>2, <2>3 DEF IInv, AnswerExplained
      <3>2. home[u] \in Instances
        BY DEF IInv, Located
      <3>3. lost \subseteq lost'
        BY <1>3
      <3> QED
        BY <1>4, <1>8, <2>1, <3>1, <3>2, <3>3 DEF Explained
    <2> QED
      BY <2>2, <2>3
  <1> QED
    BY <1>5, <1>6, <1>7, <1>9, <1>10 DEF IInv

-----------------------------------------------------------------------------
(* The steps of a listener.                                                *)

\* What leaves the inbox is a task: the listener loads its cancelFunc, or does
\* not find it, and then RegistryIsTrue says that it is held or done already.
LEMMA ReceiveKeeps ==
    ASSUME IInv, NEW i \in Instances, Receive(i)
    PROVE  IInv'
  <1> USE CancelAssumption DEF instVars, histVars, taskVars
  <1>1. PICK t : t = Head(inbox[i])
    OBVIOUS
  <1>2. /\ inbox[i] \in Seq(Tasks) /\ inbox[i] # <<>> /\ sub[i] = NoTask
        /\ inbox' = [inbox EXCEPT ![i] = Tail(@)]
        /\ reg' = [reg EXCEPT ![i] = @ \ {t}]
        /\ sub' = IF t \in reg[i] THEN [sub EXCEPT ![i] = t] ELSE sub
    BY <1>1 DEF IInv, CancelTypeOK, Receive
  <1>3. t \in Tasks /\ t \in asked
    <2>1. t = inbox[i][1] /\ 1 \in 1..Len(inbox[i])
      BY <1>1, <1>2
    <2> QED
      BY <1>2, <2>1 DEF IInv, Asked
  <1>4. /\ inbox' \in [Instances -> Seq(Tasks)]
        /\ \A j \in Instances : j # i => inbox'[j] = inbox[j]
        /\ inbox'[i] = Tail(inbox[i])
    BY <1>2 DEF IInv, CancelTypeOK
  <1>5. /\ \A n \in 1..Len(inbox'[i]) : n + 1 \in 1..Len(inbox[i])
                                        /\ inbox'[i][n] = inbox[i][n + 1]
        /\ \A n \in 1..Len(inbox[i]) : n # 1 => n - 1 \in 1..Len(inbox'[i])
                                        /\ inbox'[i][n - 1] = inbox[i][n]
    BY <1>2, <1>4
  <1>6. /\ reg' \in [Instances -> SUBSET Tasks]
        /\ \A j \in Instances, u \in Tasks : u \in reg'[j] <=> (u \in reg[j] /\ ~(j = i /\ u = t))
    BY <1>2, TakenOut DEF IInv, CancelTypeOK
  <1>7. /\ sub' \in [Instances -> Tasks \cup {NoTask}]
        /\ \A j \in Instances : j # i => sub'[j] = sub[j]
        /\ sub'[i] = IF t \in reg[i] THEN t ELSE NoTask
    BY <1>2, <1>3 DEF IInv, CancelTypeOK
  <1>8. CancelTypeOK'
    BY <1>4, <1>6, <1>7 DEF IInv, CancelTypeOK, Receive
  <1>9. Asked'
    <2>1. ASSUME NEW j \in Instances, NEW n \in 1..Len(inbox'[j]) PROVE inbox'[j][n] \in asked
      BY <1>4, <1>5 DEF IInv, Asked
    <2>2. \A j \in Instances : sub'[j] # NoTask => sub'[j] \in asked
      BY <1>3, <1>7 DEF IInv, Asked
    <2> QED
      BY <2>1, <2>2 DEF IInv, Asked, Receive
  <1>10. t \in reg[i] => home[t] = i
    BY DEF IInv, RegistryIsTrue
  <1>11. Located'
    BY <1>7, <1>10 DEF IInv, Located, Receive
  <1>12. \A u \in Tasks : Held(u) => Held(u)'
    BY <1>2, <1>7 DEF Receive, Held
  <1>13. t \in reg[i] => Held(t)'
    BY <1>7 DEF Held
  <1>14. RegistryIsTrue'
    <2>1. \A j \in Instances : \A u \in reg'[j] :
            home'[u] = j /\ task'[u] \in {"running", "unwinding"}
      BY <1>6 DEF IInv, RegistryIsTrue, Receive, CancelTypeOK
    <2>2. ASSUME NEW u \in Tasks, task'[u] = "running"
          PROVE  u \in reg'[home'[u]] \/ Held(u)' \/ ctx'[u] = "done"
      <3>1. task[u] = "running" /\ home' = home /\ ctx' = ctx
        BY <2>2 DEF Receive
      <3>2. u \in reg[home[u]] \/ Held(u) \/ ctx[u] = "done"
        BY <3>1 DEF IInv, RegistryIsTrue
      <3>3. home[u] \in Instances
        BY <3>1 DEF IInv, Located
      <3> QED
        BY <1>6, <1>12, <1>13, <3>1, <3>2, <3>3
    <2> QED
      BY <2>1, <2>2 DEF RegistryIsTrue
  <1>15. AnswerExplained'
    <2> SUFFICES ASSUME NEW q \in Requests, NEW u \in Tasks, req[q].step = "answered",
                        req[q].task = u, task[u] = "running"
                 PROVE  Explained(u)'
      BY DEF AnswerExplained, Receive
    <2>1. home' = home /\ ctx' = ctx /\ lost' = lost
      BY DEF Receive
    <2>2. Explained(u) /\ home[u] \in Instances
      BY DEF IInv, AnswerExplained, Located
    <2>3. CASE ctx[u] = "done" \/ Held(u) \/ u \in lost
      BY <1>12, <2>1, <2>3 DEF Explained
    <2>4. ASSUME NEW n \in 1..Len(inbox[home[u]]), inbox[home[u]][n] = u PROVE Explained(u)'
      <3>1. CASE home[u] # i
        BY <1>4, <2>1, <2>2, <2>4, <3>1 DEF Explained
      <3>2. CASE home[u] = i /\ n # 1
        <4>1. n - 1 \in 1..Len(inbox'[i]) /\ inbox'[i][n - 1] = u
          BY <1>5, <2>4, <3>2
        <4>2. home'[u] = i
          BY <2>1, <3>2
        <4> QED
          BY <4>1, <4>2 DEF Explained
      <3>3. CASE home[u] = i /\ n = 1
        <4>1. u = t
          BY <1>1, <1>2, <2>4, <3>3
        <4>2. u \in reg[i] \/ Held(u) \/ ctx[u] = "done"
          BY <3>3 DEF IInv, RegistryIsTrue
        <4> QED
          BY <1>12, <1>13, <2>1, <4>1, <4>2 DEF Explained
      <3> QED
        BY <3>1, <3>2, <3>3
    <2> QED
      BY <2>2, <2>3, <2>4 DEF Explained
  <1> QED
    BY <1>8, <1>9, <1>11, <1>14, <1>15 DEF IInv

LEMMA CallReceivedKeeps ==
    ASSUME IInv, NEW i \in Instances, CallReceived(i)
    PROVE  IInv'
  <1> USE CancelAssumption DEF instVars, histVars, taskVars
  <1>1. PICK t : t = sub[i]
    OBVIOUS
  <1>2. t \in Tasks /\ t \in asked
    BY <1>1 DEF IInv, CancelTypeOK, Asked, CallReceived
  <1>3. /\ ctx' \in [Tasks -> {"live", "done"}] /\ ctx'[t] = "done"
        /\ \A u \in Tasks : u # t => ctx'[u] = ctx[u]
    BY <1>1, <1>2 DEF IInv, CancelTypeOK, CallReceived
  <1>4. /\ sub' \in [Instances -> Tasks \cup {NoTask}] /\ sub'[i] = NoTask
        /\ \A j \in Instances : j # i => sub'[j] = sub[j]
    BY DEF IInv, CancelTypeOK, CallReceived
  <1>5. CancelTypeOK'
    BY <1>3, <1>4 DEF IInv, CancelTypeOK, CallReceived
  <1>6. Asked'
    BY <1>2, <1>3, <1>4 DEF IInv, Asked, CallReceived
  <1>7. Located'
    BY <1>4 DEF IInv, Located, CallReceived
  <1>8. \A u \in Tasks : Held(u) \/ ctx[u] = "done" => Held(u)' \/ ctx'[u] = "done"
    BY <1>1, <1>3, <1>4 DEF CallReceived, Held
  <1>9. RegistryIsTrue'
    BY <1>8 DEF IInv, RegistryIsTrue, CallReceived
  <1>10. AnswerExplained'
    <2> SUFFICES ASSUME NEW q \in Requests, NEW u \in Tasks, req[q].step = "answered",
                        req[q].task = u, task[u] = "running"
                 PROVE  Explained(u)'
      BY DEF AnswerExplained, CallReceived
    <2>1. Explained(u)
      BY DEF IInv, AnswerExplained
    <2> QED
      BY <1>8, <2>1 DEF Explained, CallReceived
  <1> QED
    BY <1>5, <1>6, <1>7, <1>9, <1>10 DEF IInv

-----------------------------------------------------------------------------
(* Faults.                                                                 *)

LEMMA LinkKeeps ==
    ASSUME IInv, NEW i \in Instances, Disconnect(i) \/ Reconnect(i) \/ Restart(i)
    PROVE  IInv'
  <1> USE CancelAssumption DEF instVars, histVars, taskVars
  <1>1. UNCHANGED <<task, ctx, home, reg, inbox, sub, req, asked, lost>>
    BY DEF Disconnect, Reconnect, Restart
  <1>2. CancelTypeOK'
    <2>1. /\ up' \in [Instances -> BOOLEAN] /\ link' \in [Instances -> BOOLEAN]
          /\ faults' \in Nat
      <3>1. CASE Disconnect(i)
        BY <3>1 DEF IInv, CancelTypeOK, Disconnect
      <3>2. CASE Reconnect(i)
        BY <3>2 DEF IInv, CancelTypeOK, Reconnect
      <3>3. CASE Restart(i)
        BY <3>3 DEF IInv, CancelTypeOK, Restart
      <3> QED
        BY <3>1, <3>2, <3>3
    <2> QED
      BY <1>1, <2>1 DEF IInv, CancelTypeOK
  <1> QED
    BY <1>1, <1>2 DEF IInv, Asked, Located, RegistryIsTrue, AnswerExplained, Explained, Held

\* A crash takes the tasks of the instance and every cancelFunc that was loaded
\* for one of them, since both are there.
LEMMA CrashKeeps ==
    ASSUME IInv, NEW i \in Instances, Crash(i)
    PROVE  IInv'
  <1> USE CancelAssumption DEF instVars, histVars, taskVars
  <1>1. /\ task' \in [Tasks -> {"new", "running", "unwinding", "ended"}]
        /\ \A u \in Tasks : task'[u] = IF home[u] = i THEN "ended" ELSE task[u]
    BY DEF IInv, CancelTypeOK, Crash
  <1>2. /\ reg' \in [Instances -> SUBSET Tasks] /\ reg'[i] = {}
        /\ \A j \in Instances : j # i => reg'[j] = reg[j]
    BY DEF IInv, CancelTypeOK, Crash
  <1>3. /\ inbox' \in [Instances -> Seq(Tasks)] /\ inbox'[i] = <<>>
        /\ \A j \in Instances : j # i => inbox'[j] = inbox[j]
    BY DEF IInv, CancelTypeOK, Crash
  <1>4. /\ sub' \in [Instances -> Tasks \cup {NoTask}] /\ sub'[i] = NoTask
        /\ \A j \in Instances : j # i => sub'[j] = sub[j]
    BY DEF IInv, CancelTypeOK, Crash
  <1>5. /\ req' \in [Requests -> RequestRecords]
        /\ \A q \in Requests :
            /\ req'[q].at = req[q].at /\ req'[q].task = req[q].task
            /\ req'[q].step = IF req[q].at = i /\ req[q].step # "answered" THEN "broken"
                                                                          ELSE req[q].step
    <2>1. ASSUME NEW q \in Requests
          PROVE  /\ req'[q] \in RequestRecords
                 /\ req'[q].at = req[q].at /\ req'[q].task = req[q].task
                 /\ req'[q].step = IF req[q].at = i /\ req[q].step # "answered" THEN "broken"
                                                                               ELSE req[q].step
      <3>1. req[q] \in RequestRecords
        BY DEF IInv, CancelTypeOK, RequestRecords, Steps
      <3>2. req'[q] = IF req[q].at = i /\ req[q].step # "answered"
                      THEN [req[q] EXCEPT !.step = "broken"] ELSE req[q]
        BY DEF Crash
      <3> QED
        BY <3>1, <3>2 DEF RequestRecords, Steps
    <2>2. req' = [q \in Requests |-> req'[q]]
      BY DEF Crash
    <2> QED
      BY <2>1, <2>2
  <1>6. CancelTypeOK'
    BY <1>1, <1>2, <1>3, <1>4, <1>5 DEF IInv, CancelTypeOK, Crash, RequestRecords, Steps
  <1>7. Asked'
    <2>1. \A q \in Requests : req'[q].step \in Active =>
            req'[q].task \in asked /\ req'[q].at \in Instances
      BY <1>5 DEF IInv, Asked, Active
    <2>2. \A j \in Instances : \A n \in 1..Len(inbox'[j]) : inbox'[j][n] \in asked
      BY <1>3 DEF IInv, Asked
    <2> QED
      BY <1>4, <2>1, <2>2 DEF IInv, Asked, Crash
  <1>8. Located'
    <2>1. \A u \in Tasks : IF task'[u] = "new" THEN home[u] = NoInstance /\ u \notin asked
                                               ELSE home[u] \in Instances
      BY <1>1 DEF IInv, Located
    <2> QED
      BY <1>4, <1>5, <2>1 DEF IInv, Located, Crash
  <1>9. \A u \in Tasks : home[u] # i /\ Held(u) => Held(u)'
    <2> SUFFICES ASSUME NEW u \in Tasks, home[u] # i, Held(u) PROVE Held(u)'
      OBVIOUS
    <2>1. ASSUME NEW j \in Instances, sub[j] = u PROVE Held(u)'
      BY <1>4, <2>1 DEF IInv, Located, Held
    <2>2. ASSUME NEW q \in Requests, req[q].step = "call", req[q].task = u PROVE Held(u)'
      BY <1>5, <2>2 DEF IInv, Located, Held
    <2> QED
      BY <2>1, <2>2 DEF Held
  <1>10. RegistryIsTrue'
    <2>1. \A j \in Instances : \A u \in reg'[j] :
            home'[u] = j /\ task'[u] \in {"running", "unwinding"}
      BY <1>1, <1>2 DEF IInv, RegistryIsTrue, Crash, CancelTypeOK
    <2>2. ASSUME NEW u \in Tasks, task'[u] = "running"
          PROVE  u \in reg'[home'[u]] \/ Held(u)' \/ ctx'[u] = "done"
      <3>1. task[u] = "running" /\ home[u] # i /\ home' = home /\ ctx' = ctx
        BY <1>1, <2>2 DEF Crash
      <3>2. u \in reg[home[u]] \/ Held(u) \/ ctx[u] = "done"
        BY <3>1 DEF IInv, RegistryIsTrue
      <3>3. home[u] \in Instances
        BY <3>1 DEF IInv, Located
      <3> QED
        BY <1>2, <1>9, <3>1, <3>2, <3>3
    <2> QED
      BY <2>1, <2>2 DEF RegistryIsTrue
  <1>11. AnswerExplained'
    <2> SUFFICES ASSUME NEW q \in Requests, NEW u \in Tasks, req'[q].step = "answered",
                        req'[q].task = u, task'[u] = "running"
                 PROVE  Explained(u)'
      BY DEF AnswerExplained
    <2>1. task[u] = "running" /\ home[u] # i /\ home' = home /\ ctx' = ctx /\ lost' = lost
      BY <1>1 DEF Crash
    <2>2. Explained(u) /\ home[u] \in Instances
      BY <1>5, <2>1 DEF IInv, AnswerExplained, Located
    <2> QED
      BY <1>3, <1>9, <2>1, <2>2 DEF Explained
  <1> QED
    BY <1>6, <1>7, <1>8, <1>10, <1>11 DEF IInv

LEMMA StutterKeeps == ASSUME IInv, UNCHANGED vars PROVE IInv'
  BY DEF IInv, vars, CancelTypeOK, Asked, Located, RegistryIsTrue, AnswerExplained, Explained, Held

-----------------------------------------------------------------------------
LEMMA NextKeeps == IInv /\ [Next]_vars => IInv'
  <1> SUFFICES ASSUME IInv, [Next]_vars PROVE IInv'
    OBVIOUS
  <1>1. ASSUME NEW t \in Tasks, TaskStep(t) PROVE IInv'
    BY <1>1, RegisterKeeps, AgentReturnsKeeps, UnregisterKeeps DEF TaskStep
  <1>2. ASSUME NEW q \in Requests, NEW i \in Instances, NEW t \in Tasks, Ask(q, i, t) PROVE IInv'
    BY <1>2, AskKeeps
  <1>3. ASSUME NEW q \in Requests, RequestStep(q) PROVE IInv'
    BY <1>3, CancelLocalKeeps, CallLocalKeeps, BroadcastKeeps DEF RequestStep
  <1>4. ASSUME NEW i \in Instances, ListenerStep(i) PROVE IInv'
    BY <1>4, ReceiveKeeps, CallReceivedKeeps DEF ListenerStep
  <1>5. ASSUME NEW i \in Instances, Fault(i) PROVE IInv'
    BY <1>5, LinkKeeps, CrashKeeps DEF Fault
  <1>6. CASE UNCHANGED vars
    BY <1>6, StutterKeeps
  <1> QED
    BY <1>1, <1>2, <1>3, <1>4, <1>5, <1>6 DEF Next

LEMMA Inductive == Spec => []IInv
  BY InitIInv, NextKeeps, PTL DEF Spec

\* Types: every variable of the protocol stays in its range.
THEOREM CancelTypeCorrect == Spec => []CancelTypeOK
  <1>1. IInv => CancelTypeOK
    BY DEF IInv
  <1> QED
    BY <1>1, Inductive, PTL

\* A running task is in the registry of its instance, or its cancelFunc is about
\* to be called, or its context is done; a registry holds no other task.
THEOREM RegistryStaysTrue == Spec => []RegistryIsTrue
  <1>1. IInv => RegistryIsTrue
    BY DEF IInv
  <1> QED
    BY <1>1, Inductive, PTL

\* A task that runs on after success was answered for it is being cancelled, or
\* its message waits in the channel of its instance, or was lost on the way.
THEOREM AnswersExplained == Spec => []AnswerExplained
  <1>1. IInv => AnswerExplained
    BY DEF IInv
  <1> QED
    BY <1>1, Inductive, PTL

-----------------------------------------------------------------------------
(***************************************************************************)
(* The protocol implements TaskCancellation.  What a task looks like moves *)
(* with task and ctx only, and the two change in the steps of a task, the  *)
(* two calls of a cancelFunc and a crash; the rest stutters.               *)
(***************************************************************************)

\* States of tasks, and what a step of one task does to them.
LEMMA StateMoves ==
    ASSUME NEW t \in Tasks, \A u \in Tasks : u # t => State(u)' = State(u)
    PROVE  [u \in Tasks |-> State(u)]' = [[u \in Tasks |-> State(u)] EXCEPT ![t] = State(t)']
  BY Zenon

LEMMA StatesStay ==
    ASSUME UNCHANGED <<task, ctx>>
    PROVE  UNCHANGED [t \in Tasks |-> State(t)]
  <1>1. \A t : State(t)' = State(t)
    BY DEF State
  <1> QED
    BY <1>1

LEMMA InitImplements == Init => Abstract!Init
  <1> SUFFICES ASSUME Init PROVE Abstract!Init
    OBVIOUS
  <1>1. \A t \in Tasks : State(t) = "new"
    BY DEF Init, State
  <1> QED
    BY <1>1 DEF Init, Abstract!Init

\* Calling the cancelFunc of a task: it is cancelled if it runs, and untouched
\* if it ended or was cancelled before.
LEMMA CallImplements ==
    ASSUME IInv, NEW t \in Tasks, t \in asked, task[t] # "new",
           ctx' = [ctx EXCEPT ![t] = "done"], task' = task, asked' = asked
    PROVE  [Abstract!Next]_<<[u \in Tasks |-> State(u)], asked>>
  <1>1. ctx'[t] = "done" /\ \A u \in Tasks : u # t => ctx'[u] = ctx[u]
    BY DEF IInv, CancelTypeOK
  <1>2. \A u \in Tasks : u # t => State(u)' = State(u)
    BY <1>1 DEF State
  <1>3. [u \in Tasks |-> State(u)]' = [[u \in Tasks |-> State(u)] EXCEPT ![t] = State(t)']
    BY <1>2, StateMoves
  <1>4. CASE State(t) = "running"
    <2>1. State(t)' = "cancelled"
      BY <1>1, <1>4 DEF State
    <2> QED
      BY <1>3, <1>4, <2>1 DEF Abstract!Next, Abstract!Go
  <1>5. CASE State(t) # "running"
    <2>1. State(t)' = State(t)
      BY <1>1, <1>5 DEF State
    <2> QED
      BY <1>3, <2>1
  <1> QED
    BY <1>4, <1>5

\* A task that ends, by its own return, by unwinding or in a crash.
LEMMA EndImplements ==
    ASSUME IInv, NEW dead \in SUBSET Tasks, ctx' = ctx, asked' = asked,
           \A t \in Tasks \ dead : task'[t] = task[t],
           \A t \in dead : task[t] # "new" /\ task'[t] \in {"unwinding", "ended"}
    PROVE  Abstract!Next
  <1>1. ASSUME NEW t \in Tasks
        PROVE  State(t)' = IF t \in dead /\ State(t) # "new" THEN "ended" ELSE State(t)
    BY DEF State
  <1>2. [t \in Tasks |-> State(t)]'
          = [t \in Tasks |-> IF t \in dead /\ State(t) # "new" THEN "ended" ELSE State(t)]
    BY <1>1
  <1>3. Abstract!EndAll(dead)
    BY <1>2 DEF Abstract!EndAll
  <1> QED
    BY <1>3 DEF Abstract!Next

LEMMA NextImplements ==
    IInv /\ [Next]_vars => [Abstract!Next]_<<[t \in Tasks |-> State(t)], asked>>
  <1> SUFFICES ASSUME IInv, [Next]_vars
               PROVE  [Abstract!Next]_<<[t \in Tasks |-> State(t)], asked>>
    OBVIOUS
  <1> USE DEF instVars, histVars, taskVars
  <1>1. ASSUME NEW t \in Tasks, NEW i \in Instances, Register(t, i)
        PROVE  Abstract!Next
    <2>1. State(t) = "new" /\ \A u \in Tasks : u # t => State(u)' = State(u)
      BY <1>1 DEF IInv, CancelTypeOK, Register, State
    <2>2. ctx[t] # "done"
      BY <1>1 DEF IInv, Asked, Located, Register
    <2>3. State(t)' = "running"
      BY <1>1, <2>2 DEF IInv, CancelTypeOK, Register, State
    <2>4. Abstract!Go(t, {"new"}, "running")
      BY <1>1, <2>1, <2>3, StateMoves DEF Register, Abstract!Go
    <2> QED
      BY <2>4 DEF Abstract!Next
  <1>2. ASSUME NEW t \in Tasks, AgentReturns(t) \/ Unregister(t)
        PROVE  Abstract!Next
    <2>1. /\ ctx' = ctx /\ asked' = asked /\ task[t] # "new"
          /\ task'[t] \in {"unwinding", "ended"}
          /\ \A u \in Tasks \ {t} : task'[u] = task[u]
      BY <1>2 DEF IInv, CancelTypeOK, AgentReturns, Unregister
    <2>2. {t} \in SUBSET Tasks
      OBVIOUS
    <2> QED
      BY <2>1, <2>2, EndImplements
  <1>3. ASSUME NEW q \in Requests, NEW i \in Instances, NEW t \in Tasks, Ask(q, i, t)
        PROVE  Abstract!Next
    <2>1. State(t) # "new" /\ UNCHANGED [u \in Tasks |-> State(u)]
      BY <1>3, StatesStay DEF IInv, CancelTypeOK, Ask, State
    <2>2. Abstract!Ask(t)
      BY <1>3, <2>1 DEF Ask, Abstract!Ask
    <2> QED
      BY <2>2 DEF Abstract!Next
  <1>4. ASSUME NEW q \in Requests, CallLocal(q)
        PROVE  [Abstract!Next]_<<[t \in Tasks |-> State(t)], asked>>
    <2>1. req[q].task \in Tasks /\ req[q].task \in asked /\ task[req[q].task] # "new"
      BY <1>4 DEF IInv, Asked, Active, CancelTypeOK, Located, CallLocal
    <2> QED
      BY <1>4, <2>1, CallImplements DEF CallLocal
  <1>5. ASSUME NEW i \in Instances, CallReceived(i)
        PROVE  [Abstract!Next]_<<[t \in Tasks |-> State(t)], asked>>
    <2>1. sub[i] \in Tasks /\ sub[i] \in asked /\ task[sub[i]] # "new"
      BY <1>5 DEF IInv, Asked, CancelTypeOK, Located, CallReceived
    <2> QED
      BY <1>5, <2>1, CallImplements DEF CallReceived
  <1>6. ASSUME NEW i \in Instances, Crash(i)
        PROVE  Abstract!Next
    <2> DEFINE dead == {t \in Tasks : home[t] = i}
    <2>1. /\ ctx' = ctx /\ asked' = asked
          /\ \A t \in dead : task[t] # "new" /\ task'[t] = "ended"
          /\ \A t \in Tasks \ dead : task'[t] = task[t]
      BY <1>6, CancelAssumption DEF IInv, Located, Crash
    <2> QED
      BY <2>1, EndImplements
  <1>7. ASSUME UNCHANGED <<task, ctx, asked>>
        PROVE  UNCHANGED <<[t \in Tasks |-> State(t)], asked>>
    BY <1>7, StatesStay
  <1>8. ASSUME NEW q \in Requests, CancelLocal(q) \/ Broadcast(q)
        PROVE  UNCHANGED <<task, ctx, asked>>
    BY <1>8 DEF CancelLocal, Broadcast
  <1>9. ASSUME NEW i \in Instances,
               Receive(i) \/ Disconnect(i) \/ Reconnect(i) \/ Restart(i)
        PROVE  UNCHANGED <<task, ctx, asked>>
    BY <1>9 DEF Receive, Disconnect, Reconnect, Restart
  <1>10. CASE UNCHANGED vars
    BY <1>7, <1>10 DEF vars
  <1>11. CASE \E t \in Tasks : TaskStep(t)
    BY <1>1, <1>2, <1>11 DEF TaskStep
  <1>12. CASE \E q \in Requests : \/ \E i \in Instances, t \in Tasks : Ask(q, i, t)
                                  \/ RequestStep(q)
    BY <1>3, <1>4, <1>7, <1>8, <1>12 DEF RequestStep
  <1>13. CASE \E i \in Instances : ListenerStep(i) \/ Fault(i)
    BY <1>5, <1>6, <1>7, <1>9, <1>13 DEF ListenerStep, Fault
  <1> QED
    BY <1>10, <1>11, <1>12, <1>13 DEF Next

\* Only a task somebody asked for is cancelled and no ended task comes back,
\* whatever is lost, crashes or overtakes whatever else.
THEOREM OnlyAskedIsCancelled == Spec => ImplementsCancellation
  BY InitImplements, NextImplements, Inductive, PTL
     DEF Spec, ImplementsCancellation, Abstract!Spec
=============================================================================
