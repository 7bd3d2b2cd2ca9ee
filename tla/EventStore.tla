----------------------------- MODULE EventStore -----------------------------
(***************************************************************************)
(* The Redis stream that backs a resumable task:                           *)
(* internal/infrastructure/agent/stream/event_store.go, one stream key per *)
(* task.  A stream ID is the position of the event in the task's log: the  *)
(* model needs only that the IDs Redis hands out increase, which positions *)
(* do.  Time is counted in ticks; a key whose countdown reaches zero is    *)
(* gone together with its entries.                                         *)
(***************************************************************************)
EXTENDS Integers, Sequences

CONSTANTS
    DefaultTTL,    \* ticks armed by every Append       (defaultTTL, 60 s)
    TerminalTTL,   \* ticks armed when the task ends    (2*time.Minute)
    StoreFaults    \* which of Faults Redis may show; {}: Redis is healthy

(***************************************************************************)
(* What a call to Append may come back with.  "ok": stored, expiry armed.  *)
(* "noexpire": stored and the ID returned, but the EXPIRE that follows got *)
(* lost (its error is ignored).  "lostreply": XADD took effect but the     *)
(* caller got an error.  "fail": nothing was stored.                       *)
(***************************************************************************)
Faults == {"noexpire", "lostreply", "fail"}

ASSUME StoreAssumption ==
    /\ StoreFaults \subseteq Faults
    /\ DefaultTTL \in Nat \ {0}
    /\ TerminalTTL \in Nat \ {0}

VARIABLES
    stream,        \* the entries of the key, oldest first; <<>>: no such key
    ttl            \* ticks until the key expires; NoTTL: no expiry is armed

storeVars == <<stream, ttl>>

NoTTL == 0
NoID  == 0         \* the empty StreamID of an event that was not stored

AppendOutcomes == {"ok"} \cup StoreFaults

\* Whether a SetTTL reaches Redis.
SetTTLOutcomes == IF "fail" \in StoreFaults THEN {TRUE, FALSE} ELSE {TRUE}

Entry(id, type) == [id |-> id, type |-> type]

StoreInit == stream = <<>> /\ ttl = NoTTL

\* Append, the entries it leaves: XADD of one more.
StreamAfterAppend(id, type, o) ==
    IF o = "fail" THEN stream ELSE Append(stream, Entry(id, type))

\* Append, the expiry it leaves: EXPIRE defaultTTL when XADD was acknowledged.
TTLAfterAppend(o) == IF o = "ok" THEN DefaultTTL ELSE ttl

\* Faulty: an ID although nothing was stored.
ReturnedAnyway(id, o) == id

\* The StreamID the caller of Append is left with.
ReturnedID(id, o) == IF o \in {"ok", "noexpire"} THEN id ELSE NoID

Exists == stream # <<>>

\* SetTTL on a key with entries `entries' and countdown t: EXPIRE on a missing
\* key arms nothing, and its error is ignored.
TTLAfterSetTTL(entries, t, ok) ==
    IF ok /\ entries # <<>> THEN TerminalTTL ELSE t

\* Faulty: XRANGE without the "(", which includes lastID; or one entry too late.
ReadFrom(lastID, count) == SelectSeq(stream, LAMBDA e : e.id >= lastID)
ReadAfterNext(lastID, count) == SelectSeq(stream, LAMBDA e : e.id > lastID + 1)

\* XRANGE (lastID passes over the entries up to that ID: IDs only increase.
Passed(lastID) ==
    CHOOSE k \in 0..Len(stream) :
        \A i \in 1..Len(stream) : stream[i].id <= lastID <=> i <= k

\* ReadAfter: XRANGE (lastID + COUNT count.
ReadAfter(lastID, count) ==
    LET last == Passed(lastID) + count
    IN  SubSeq(stream, Passed(lastID) + 1, IF last < Len(stream) THEN last ELSE Len(stream))

\* The IDs after lastID that are beyond the COUNT.
LeftOut(lastID, count) ==
    {stream[i].id : i \in (Passed(lastID) + count + 1)..Len(stream)}

\* Redis counts down the armed expiry and drops the key at zero.
StoreTick ==
    /\ ttl # NoTTL
    /\ ttl' = ttl - 1
    /\ stream' = IF ttl = 1 THEN <<>> ELSE stream

=============================================================================
