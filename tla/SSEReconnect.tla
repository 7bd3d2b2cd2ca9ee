---------------------------- MODULE SSEReconnect ----------------------------
(***************************************************************************)
(* A client of a resumable streaming task that loses its connection and    *)
(* reconnects with its Last-Event-ID: chatAppService.Reconnect,            *)
(* ChatHandler.StreamReconnect / handleReconnect and                       *)
(* SSEAdapter.HandleReconnection, on top of the task of ChatTask (whose    *)
(* request goroutine serves the first connection).                         *)
(***************************************************************************)
EXTENDS ChatTask

CONSTANTS
    MaxReplay,       \* COUNT of the replay (10000)
    Radix,           \* base of the sequence part of a stream ID (10)
    MaxDrops,        \* bound: times the client drops a reconnection
    NoEvents         \* cached, outside a replay

ASSUME ReconnectAssumption ==
    /\ MaxReplay \in Nat \ {0}
    /\ Radix \in Nat \ {0, 1}
    /\ MaxDrops \in Nat

VARIABLES
    link,            \* the client's connection, and how far a reconnect got
    live,            \* liveExec # nil
    cached,          \* cached events still to be replayed
    sentID,          \* lastSentID
    rcur,            \* the channel of the current reconnection
    lastID,          \* the client's Last-Event-ID
    seen,            \* history: log positions the client received
    window,          \* history: positions broadcast between the read of the
                     \* cache and the subscription that follows
    cut,             \* history: positions beyond the COUNT of such a read
    drops            \* reconnections the client dropped

clientVars    == <<lastID, seen>>
sessionVars   == <<live, cached, sentID, rcur>>
historyVars   == <<window, cut>>
reconnectVars == <<link, sessionVars, clientVars, historyVars, drops>>
allVars       == <<taskVars, reconnectVars>>

ReconnectInit ==
    /\ TaskInit
    /\ mode = "streaming" /\ hasStore
    /\ link = "first"
    /\ live = FALSE /\ cached = NoEvents /\ sentID = NoID /\ rcur = NoChannel
    /\ lastID = NoID /\ seen = <<>>
    /\ window = {} /\ cut = {} /\ drops = 0

(***************************************************************************)
(* Stream IDs are compared as strings.  IDs of one millisecond differ in   *)
(* their decimal sequence number only, and position n has number n - 1:    *)
(* a number with fewer digits is written shorter, and then the first       *)
(* differing digit decides, not the magnitude.                             *)
(***************************************************************************)
Digits[k \in Nat] == IF k < Radix THEN <<k>> ELSE Append(Digits[k \div Radix], k % Radix)

StringLE(m, n) ==
    LET a == Digits[m - 1]
        b == Digits[n - 1]
        differ == {i \in 1..Len(a) : i <= Len(b) /\ a[i] # b[i]}
    IN  IF differ = {} THEN Len(a) <= Len(b)
        ELSE LET i == CHOOSE i \in differ : \A j \in differ : i <= j
             IN  a[i] < b[i]

-----------------------------------------------------------------------------
\* Faulty: a synthetic event is taken for one of the log.
DeliverAny(n, sid) ==
    /\ seen' = Append(seen, n)
    /\ lastID' = IF sid = NoID THEN lastID ELSE sid

\* SendEvent reaches the client, which keeps the ID if the event carries one.
Deliver(n, sid) ==
    /\ seen' = IF n = 0 THEN seen ELSE Append(seen, n)
    /\ lastID' = IF sid = NoID THEN lastID ELSE sid

\* The client has been told how the task ended, and stops reconnecting.
Told == \E i \in 1..Len(seen) : emitted[seen[i]].type \in TerminalTypes

(* The first connection: what ChatTask's request goroutine reads and sends. *)
FirstRead ==
    /\ Read
    /\ IF link = "first" THEN Deliver(Head(buf[cur]).n, Head(buf[cur]).sid)
                         ELSE UNCHANGED clientVars
    /\ UNCHANGED <<link, sessionVars, historyVars, drops>>

FirstEnds ==
    /\ StreamEnds \/ StreamLeaves
    /\ link' = IF link = "first" THEN "offline" ELSE link
    /\ UNCHANGED <<sessionVars, clientVars, historyVars, drops>>

\* The client of the first connection is gone once its request's context is.
FirstLost ==
    /\ RequestCtxDone
    /\ link' = IF link = "first" THEN "offline" ELSE link
    /\ UNCHANGED <<sessionVars, clientVars, historyVars, drops>>

-----------------------------------------------------------------------------
(* Reconnect: Exists, Get and IsRunning, ReadAfter.                        *)

CheckExists ==
    /\ link = "offline" /\ lastID # NoID /\ ~Told
    /\ link' = IF Exists THEN "found" ELSE "expired"
    /\ UNCHANGED <<taskVars, sessionVars, clientVars, historyVars, drops>>

\* The instance that serves the reconnect may be another one, whose registry
\* does not hold the executor.  (Bound: it is, when no channel is left.)
LookUp ==
    /\ link = "found"
    /\ \E here \in BOOLEAN :
          /\ here => \E s \in Subscribers : chst[s] = "none"
          /\ live' = (here /\ execReg /\ status = "running")
    /\ link' = "looked"
    /\ UNCHANGED <<taskVars, cached, sentID, rcur, clientVars, historyVars, drops>>

ReadCache ==
    /\ link = "looked"
    /\ cached' = ReadAfter(lastID, MaxReplay)
    /\ cut' = IF live THEN cut \cup LeftOut(lastID, MaxReplay) ELSE cut
    /\ sentID' = NoID
    /\ link' = "replaying"
    /\ UNCHANGED <<taskVars, live, rcur, clientVars, window, drops>>

\* ReadAfter fails: SendError, which carries no ID and no outcome of the task.
ReadFails ==
    /\ link = "looked" /\ "fail" \in StoreFaults
    /\ link' = "offline"
    /\ UNCHANGED <<taskVars, sessionVars, clientVars, historyVars, drops>>

(* HandleReconnection: the replay, then the live executor.                 *)

Replayed ==
    /\ link = "replaying" /\ cached # <<>>
    /\ Deliver(Head(cached).id, Head(cached).id)
    /\ sentID' = Head(cached).id
    /\ cached' = Tail(cached)
    /\ UNCHANGED <<taskVars, link, live, rcur, historyVars, drops>>

CloseAfterReplay ==
    /\ link = "replaying" /\ cached = <<>> /\ ~live
    /\ link' = "offline"
    /\ cached' = NoEvents
    /\ UNCHANGED <<taskVars, live, sentID, rcur, clientVars, historyVars, drops>>

SubscribeLive ==
    /\ link = "replaying" /\ cached = <<>> /\ live
    /\ \E s \in Subscribers : Subscribe(s) /\ rcur' = s
    /\ link' = "live"
    /\ cached' = NoEvents
    /\ UNCHANGED <<reqVars, agent, regVars, live, sentID, clientVars, historyVars, drops>>

\* Faulty: without a replay, everything is one.
IsDuplicateUnset(ev) == ev.sid # NoID /\ (sentID = NoID \/ StringLE(ev.sid, sentID))

\* An event without a stream ID, or not after the last one sent, is skipped.
IsDuplicate(ev) == ev.sid # NoID /\ sentID # NoID /\ StringLE(ev.sid, sentID)
Skips(ev) == ev.sid = NoID \/ IsDuplicate(ev)

Forward ==
    /\ link = "live"
    /\ Receive(rcur)
    /\ LET ev == Head(buf[rcur])
       IN  IF Skips(ev) THEN UNCHANGED clientVars ELSE Deliver(ev.n, ev.sid)
    /\ UNCHANGED <<reqVars, agent, regVars, link, sessionVars, historyVars, drops>>

LiveEnds ==
    /\ link = "live" /\ Drained(rcur)
    /\ link' = "offline"
    /\ UNCHANGED <<taskVars, sessionVars, clientVars, historyVars, drops>>

\* The client loses a reconnection, wherever its handler is.
DropLink ==
    /\ link \in {"found", "looked", "replaying", "live"}
    /\ drops < MaxDrops
    /\ drops' = drops + 1
    /\ link' = "offline"
    /\ cached' = NoEvents
    /\ UNCHANGED <<taskVars, live, sentID, rcur, clientVars, historyVars>>

-----------------------------------------------------------------------------
(* The rest of the task, with the history of the unsubscribed window.      *)

Watched(A) ==
    /\ A
    /\ window' = IF link = "replaying" /\ live
                 THEN window \cup ((Len(emitted) + 1)..Len(emitted'))
                 ELSE window
    /\ UNCHANGED <<link, sessionVars, clientVars, cut, drops>>

TaskSteps ==
    \/ Build \/ RegisterTask \/ StartTask \/ Launch \/ Open
    \/ \E type \in ContentTypes : AgentPublish(type)
    \/ AgentReturns
    \/ ArmUnregister \/ UnregisterTask
    \/ CancelLoads \/ CancelCalls

TimePasses ==
    /\ Clock
    /\ UNCHANGED <<link, sessionVars, clientVars, historyVars, drops>>

ReconnectSteps ==
    CheckExists \/ LookUp \/ ReadCache \/ ReadFails \/ Replayed \/ CloseAfterReplay
    \/ SubscribeLive \/ Forward \/ LiveEnds

ReconnectNext ==
    \/ FirstRead \/ FirstEnds \/ FirstLost
    \/ ReconnectSteps
    \/ DropLink
    \/ Watched(TaskSteps)
    \/ TimePasses

(***************************************************************************)
(* As in ChatTask, and a client that keeps reconnecting until it is told   *)
(* the outcome or that the stream is gone; Redis does not fail every time  *)
(* it is asked.                                                            *)
(***************************************************************************)
ReconnectFairness ==
    /\ WF_allVars(Watched(Build \/ RegisterTask \/ StartTask \/ Launch \/ Open))
    /\ WF_allVars(FirstRead \/ FirstEnds)
    /\ WF_allVars(ReconnectSteps)
    /\ SF_allVars(ReadCache)

ReconnectSpec == ReconnectInit /\ [][ReconnectNext]_allVars /\ ReconnectFairness

-----------------------------------------------------------------------------
\* Types of the variables this module adds.
ReconnectTypeOK ==
    /\ TaskTypeOK
    /\ link \in {"first", "offline", "found", "looked", "replaying", "live", "expired"}
    /\ live \in BOOLEAN
    /\ cached = NoEvents \/ cached \in Seq([id : Nat \ {0}, type : EventTypes])
    /\ sentID \in 0..Len(emitted) /\ lastID \in 0..Len(emitted)
    /\ rcur \in Subscribers \cup {NoChannel}
    /\ seen \in Seq(1..Len(emitted))
    /\ window \subseteq 1..Len(emitted) /\ cut \subseteq 1..Len(emitted)
    /\ drops \in 0..MaxDrops

Received == {seen[i] : i \in 1..Len(seen)}

\* Across all its connections the client receives no event twice: the replay
\* starts after its last ID, and what the live channel repeats of the replay is
\* skipped.  Nor does it receive any out of order, except that an event whose
\* write failed has no ID: it may have come before a stored one that met a full
\* channel, and the replay brings that one after it; or it was stored although
\* the write was reported as failed, and the replay brings it once more.
NoDuplicates ==
    \A i, j \in 1..Len(seen) : i < j =>
        \/ seen[i] < seen[j]
        \/ /\ emitted[seen[i]].sid = NoID
           /\ seen[i] = seen[j] => "lostreply" \in StoreFaults

\* Positions of what the reader of a channel has taken off it.
Brought(s) == {got[s][i].n : i \in 1..Len(got[s])}

\* The later of two positions has an ID that strings order first.
Misordered(m, n) == m < n /\ StringLE(n, m)

\* A full channel dropped the event, and then brought the client a later one.
Overflowed(n) ==
    \E s \in Subscribers : n \in lost[s] /\ \E m \in Received \cap Brought(s) : n < m

\* A handler took the event off its channel, and strings order its ID before that
\* of an earlier event the client has.
Mistaken(n) ==
    \E s \in Subscribers : n \in Brought(s) /\ \E m \in Received : Misordered(m, n)

\* An event that is still stored but behind the client's last ID, which no
\* reconnect will ever replay, was received; or it was broadcast before the
\* first subscription, or while a reconnect had read the cache and not yet
\* subscribed, or was beyond the COUNT of that read, or it met the full channel of
\* a connection that went on, or it was mistaken for a duplicate because IDs are
\* compared as strings.  There is no other way to lose one.
LossesExplained ==
    \A i \in 1..Len(stream) :
        LET n == stream[i].id
        IN  n < lastID /\ emitted[n].sid # NoID =>
                \/ n \in Received
                \/ cur # NoChannel /\ n <= join[cur]
                \/ n \in window
                \/ n \in cut
                \/ Overflowed(n)
                \/ Mistaken(n)

\* What a reconnected client's handler takes off its channel reaches the client
\* if it was stored: what it skips as a duplicate was sent, or strings order its
\* ID before that of an earlier event that ended the replay.  An event whose write
\* failed has no ID and never arrives, unlike on a first connection.
StoredIsPushed ==
    link = "live" =>
        \A i \in 1..Len(got[rcur]) :
            LET ev == got[rcur][i] IN
            ev.sid # NoID =>
                ev.n \in Received \/ (sentID # NoID /\ Misordered(sentID, ev.n))

\* A completed or failed task is told to every client that keeps reconnecting,
\* even when it ends between the checks and the subscription of a reconnect,
\* unless the stream expires first.
OutcomeTold ==
    (status \in {"completed", "failed"} /\ emitted[Len(emitted)].sid # NoID /\ link = "offline" /\ lastID # NoID)
        ~> (Told \/ link = "expired")

\* The SSE design's third acceptance criterion: a client that reconnects within
\* the TTL continues without loss.  (Everything else that loses events is
\* excluded: only events still stored, and none that met a full channel.)
NoLossOnReconnect ==
    \A i \in 1..Len(stream) :
        LET n == stream[i].id
        IN  n < lastID /\ (cur # NoChannel => n > join[cur])
                       /\ (\A s \in Subscribers : n \notin lost[s])
            => n \in Received
=============================================================================
