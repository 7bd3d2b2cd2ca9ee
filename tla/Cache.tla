------------------------------- MODULE Cache --------------------------------
(***************************************************************************)
(* The cache (internal/infrastructure/pkg/cache): one interface over a     *)
(* sync.Map with a collector goroutine or over Redis.  Map operations and  *)
(* Redis commands are atomic; what a method does between two of them is    *)
(* not, and neither is the clock.  Serialization is left out: a value that *)
(* cannot be marshalled is refused before anything happens.                *)
(***************************************************************************)
EXTENDS Naturals, FiniteSets

CONSTANTS
    Clients, Keys,
    Matching,        \* the keys with the prefix BatchDelete is given
    Lifetimes,       \* 0: for ever
    None,            \* no item, no key
    MaxTime, MaxOps  \* bounds: the clock; calls

ASSUME CacheAssumption ==
    /\ Matching \subseteq Keys /\ Lifetimes \subseteq Nat
    /\ MaxTime \in Nat /\ MaxOps \in Nat

VARIABLES
    driver,          \* "memory" or "redis"
    now,
    items,           \* what is stored per key, expired or not
    op,              \* per client: its call
    gc,              \* the collector
    calls,           \* calls made so far
    owed,            \* history: the last item stored and not deleted since
    raced,           \* history: keys the collector deleted after a Put
    saw              \* history: per client, what its key held in the call

vars == <<driver, now, items, op, gc, calls, owed, raced, saw>>

\* An item is known by the number of the call that stored it.
Item(n, life) == [n |-> n, life |-> life, created |-> now]

\* isExpire; Redis expires a key when its time has come, not after it.
Expired(i, t) ==
    /\ i.life # 0
    /\ IF driver = "memory" THEN t - i.created > i.life ELSE t - i.created >= i.life

\* What a key shows at time t: an item that has not expired, or nothing.
Shown(m, t, k) == IF m[k] = None \/ Expired(m[k], t) THEN None ELSE m[k]

Idle == [kind |-> "none", step |-> "idle", key |-> None, item |-> None, todo |-> {},
         last |-> FALSE, error |-> FALSE, failed |-> {}, again |-> {}]

Init ==
    /\ driver \in {"memory", "redis"} /\ now = 0
    /\ items = [k \in Keys |-> None]
    /\ op = [c \in Clients |-> Idle]
    /\ gc = [step |-> "idle", todo |-> {}, key |-> None, item |-> None]
    /\ calls = 0
    /\ owed = items /\ raced = {} /\ saw = [c \in Clients |-> {}]

-----------------------------------------------------------------------------
\* Reads in progress see what happens to their key.
Reads(c) == op[c].kind \in {"get", "exist"} /\ op[c].step # "end"
Observe(m, t) ==
    saw' = [c \in Clients |->
              IF Reads(c) THEN saw[c] \cup {Shown(m, t, op[c].key)} ELSE saw[c]]

Set(k, i) ==
    /\ items' = [items EXCEPT ![k] = i]
    /\ Observe(items', now)

Call(c, kind, k) ==
    /\ op[c].step \in {"idle", "end"} /\ calls < MaxOps
    /\ calls' = calls + 1
    /\ saw' = [saw EXCEPT ![c] =
                 IF kind \in {"get", "exist"} THEN {Shown(items, now, k)} ELSE {}]
    /\ UNCHANGED <<driver, now, items, gc, owed, raced>>

Begin(c, kind, k, i) ==
    /\ Call(c, kind, k)
    /\ op' = [op EXCEPT ![c] = [Idle EXCEPT !.kind = kind, !.step = "run", !.key = k, !.item = i]]

At(c, kind, step) == op[c].kind = kind /\ op[c].step = step
Answer(c, i, err) == op' = [op EXCEPT ![c].step = "end", ![c].item = i, ![c].error = err]

\* A Redis command that fails was carried out or not; what a write answers is
\* left out.
Fails == driver = "redis"
Rest == UNCHANGED <<driver, now, gc, calls, raced>>

-----------------------------------------------------------------------------
(* Put, PutString: the time is taken before the item is stored.            *)

Put(c, k, life) == Begin(c, "put", k, Item(calls + 1, life))

\* What a batch that is under way may not see any more.
Again(f, k) ==
    [d \in Clients |-> IF f[d].kind = "batch" THEN [f[d] EXCEPT !.again = @ \cup {k}] ELSE f[d]]

PutStores(c) ==
    LET k == op[c].key
        i == IF driver = "redis" THEN [op[c].item EXCEPT !.created = now] ELSE op[c].item
    IN  /\ At(c, "put", "run")
        /\ Set(k, i) /\ owed' = [owed EXCEPT ![k] = i]
        /\ raced' = raced \ {k}
        /\ op' = Again([op EXCEPT ![c] = [Idle EXCEPT !.step = "end"]], k)
        /\ UNCHANGED <<driver, now, gc, calls>>

PutFails(c) ==
    /\ At(c, "put", "run") /\ Fails /\ op' = [op EXCEPT ![c] = [Idle EXCEPT !.step = "end"]]
    /\ UNCHANGED <<items, owed, saw>> /\ Rest

-----------------------------------------------------------------------------
(* Get, GetString: one Load, then the expiry of what was loaded.           *)

Get(c, k) == Begin(c, "get", k, None)

GetLoads(c) ==
    LET i == items[op[c].key] IN
    /\ At(c, "get", "run") /\ driver = "memory"
    /\ IF i = None THEN Answer(c, None, FALSE)
                   ELSE op' = [op EXCEPT ![c].step = "check", ![c].item = i]
    /\ UNCHANGED <<items, owed, saw>> /\ Rest

Check(c) ==
    /\ op[c].step = "check"
    /\ Answer(c, IF Expired(op[c].item, now) THEN None ELSE op[c].item, FALSE)
    /\ UNCHANGED <<items, owed, saw>> /\ Rest

\* Redis answers for itself, to a Get and to an Exists.
RedisReads(c) ==
    /\ op[c].kind \in {"get", "exist"} /\ op[c].step = "run" /\ driver = "redis"
    /\ \/ Answer(c, Shown(items, now, op[c].key), FALSE)
       \/ Answer(c, None, TRUE)
    /\ UNCHANGED <<items, owed, saw>> /\ Rest

-----------------------------------------------------------------------------
(* IsExist: a Load, and a second one in isItemExpired.                     *)

IsExist(c, k) == Begin(c, "exist", k, None)

\* Faulty: what the first Load found exists, expired or not.
IsExistLoadsOnce(c) ==
    /\ At(c, "exist", "run") /\ driver = "memory"
    /\ Answer(c, items[op[c].key], FALSE)
    /\ UNCHANGED <<items, owed, saw>> /\ Rest

IsExistLoads(c) ==
    /\ At(c, "exist", "run") /\ driver = "memory"
    /\ IF items[op[c].key] = None THEN Answer(c, None, FALSE)
                                  ELSE op' = [op EXCEPT ![c].step = "again"]
    /\ UNCHANGED <<items, owed, saw>> /\ Rest

IsItemExpired(c) ==
    LET i == items[op[c].key] IN
    /\ At(c, "exist", "again")
    /\ IF i = None THEN Answer(c, None, FALSE)
                   ELSE op' = [op EXCEPT ![c].step = "check", ![c].item = i]
    /\ UNCHANGED <<items, owed, saw>> /\ Rest

-----------------------------------------------------------------------------
(* Delete and BatchDelete.                                                 *)

Delete(c, k) == Begin(c, "delete", k, None)

DeleteDone(c) ==
    LET k == op[c].key IN
    /\ At(c, "delete", "run")
    /\ \/ Set(k, None) /\ owed' = [owed EXCEPT ![k] = None]
       \/ Fails /\ UNCHANGED <<items, owed, saw>>
    /\ op' = [op EXCEPT ![c] = [Idle EXCEPT !.step = "end"]]
    /\ Rest

\* Range, or SCAN, comes by every key that stays there during the call.
BatchDelete(c) ==
    /\ Call(c, "batch", None)
    /\ op' = [op EXCEPT ![c] = [Idle EXCEPT !.kind = "batch", !.step = "scan",
                                !.todo = IF driver = "memory" THEN Keys ELSE {}]]

\* Range visits a key: its callback looks at the name only.
RangeVisits(c, k) ==
    /\ At(c, "batch", "scan") /\ k \in op[c].todo /\ driver = "memory"
    /\ op' = [op EXCEPT ![c].todo = @ \ {k},
                        ![c].step = IF items[k] # None /\ k \in Matching THEN "del" ELSE "scan",
                        ![c].key = k]
    /\ UNCHANGED <<items, owed, saw>> /\ Rest

RangeDeletes(c) ==
    LET k == op[c].key IN
    /\ At(c, "batch", "del") /\ driver = "memory"
    /\ Set(k, None) /\ owed' = [owed EXCEPT ![k] = None]
    /\ op' = [op EXCEPT ![c].step = "scan"]
    /\ Rest

RangeEnds(c) ==
    /\ At(c, "batch", "scan") /\ op[c].todo = {} /\ driver = "memory"
    /\ Answer(c, None, FALSE)
    /\ UNCHANGED <<items, owed, saw>> /\ Rest

Visible == {k \in Matching : Shown(items, now, k) # None}

\* A page of keys; the last one when the cursor comes back 0.  A key that stays
\* there comes in one page or another.
ScanPage(c) ==
    /\ At(c, "batch", "scan") /\ driver = "redis"
    /\ \E page \in SUBSET Visible, last \in BOOLEAN :
         /\ last => Visible \subseteq page \cup op[c].failed \cup op[c].again
         /\ op' = [op EXCEPT ![c].step = "del", ![c].todo = page,
                             ![c].last = last, ![c].error = FALSE]
    /\ UNCHANGED <<items, owed, saw>> /\ Rest

ScanFails(c) ==
    /\ At(c, "batch", "scan") /\ driver = "redis"
    /\ Answer(c, None, TRUE)
    /\ UNCHANGED <<items, owed, saw>> /\ Rest

\* Faulty: the page is given up at the first error.
DelStops(c, k) ==
    /\ At(c, "batch", "del") /\ driver = "redis" /\ k \in op[c].todo
    /\ \/ /\ Set(k, None) /\ owed' = [owed EXCEPT ![k] = None]
          /\ op' = [op EXCEPT ![c].todo = @ \ {k}]
       \/ /\ op' = [op EXCEPT ![c].todo = {}, ![c].failed = @ \cup {k}]
          /\ UNCHANGED <<items, owed, saw>>
    /\ Rest

\* Each Del overwrites the error of the one before it.
Del(c, k) ==
    /\ At(c, "batch", "del") /\ driver = "redis" /\ k \in op[c].todo
    /\ \/ /\ Set(k, None) /\ owed' = [owed EXCEPT ![k] = None]
          /\ op' = [op EXCEPT ![c].todo = @ \ {k}, ![c].error = FALSE]
       \/ /\ op' = [op EXCEPT ![c].todo = @ \ {k}, ![c].error = TRUE,
                              ![c].failed = @ \cup {k}]
          /\ UNCHANGED <<items, owed, saw>>
    /\ Rest

PageEnds(c) ==
    /\ At(c, "batch", "del") /\ op[c].todo = {} /\ driver = "redis"
    /\ op' = [op EXCEPT ![c].step = IF op[c].last THEN "end" ELSE "scan"]
    /\ UNCHANGED <<items, owed, saw>> /\ Rest

-----------------------------------------------------------------------------
(* The collector of the memory cache, and time.                            *)

GcRest == UNCHANGED <<driver, now, op, calls>>

GcTick ==
    /\ driver = "memory" /\ gc.step = "idle"
    /\ gc' = [gc EXCEPT !.step = "scan", !.todo = Keys]
    /\ UNCHANGED <<items, owed, raced, saw>> /\ GcRest

\* Faulty: an entry without a lifetime is not skipped.
GcVisitsAny(k) ==
    /\ gc.step = "scan" /\ k \in gc.todo
    /\ gc' = IF items[k] # None
             THEN [step |-> "del", todo |-> gc.todo \ {k}, key |-> k, item |-> items[k]]
             ELSE [gc EXCEPT !.todo = @ \ {k}]
    /\ UNCHANGED <<items, owed, raced, saw>> /\ GcRest

GcVisits(k) ==
    /\ gc.step = "scan" /\ k \in gc.todo
    /\ gc' = IF items[k] # None /\ Expired(items[k], now)
             THEN [step |-> "del", todo |-> gc.todo \ {k}, key |-> k, item |-> items[k]]
             ELSE [gc EXCEPT !.todo = @ \ {k}]
    /\ UNCHANGED <<items, owed, raced, saw>> /\ GcRest

\* By key, whatever is there now.
GcDeletes ==
    /\ gc.step = "del"
    /\ Set(gc.key, None)
    /\ raced' = IF items[gc.key] \in {None, gc.item} THEN raced ELSE raced \cup {gc.key}
    /\ gc' = [gc EXCEPT !.step = "scan", !.key = None, !.item = None]
    /\ UNCHANGED owed /\ GcRest

\* Faulty: the collector runs once.
GcEndsForGood ==
    /\ gc.step = "scan" /\ gc.todo = {}
    /\ gc' = [gc EXCEPT !.step = "over"]
    /\ UNCHANGED <<items, owed, raced, saw>> /\ GcRest

GcEnds ==
    /\ gc.step = "scan" /\ gc.todo = {}
    /\ gc' = [gc EXCEPT !.step = "idle"]
    /\ UNCHANGED <<items, owed, raced, saw>> /\ GcRest

Tick ==
    /\ now < MaxTime /\ now' = now + 1
    /\ Observe(items, now')
    /\ UNCHANGED <<driver, items, op, gc, calls, owed, raced>>

-----------------------------------------------------------------------------
Start(c) ==
    \/ \E k \in Keys : \/ \E life \in Lifetimes : Put(c, k, life)
                       \/ Get(c, k) \/ IsExist(c, k) \/ Delete(c, k)
    \/ BatchDelete(c)

Proceed(c) ==
    \/ PutStores(c) \/ PutFails(c) \/ GetLoads(c) \/ Check(c) \/ RedisReads(c)
    \/ IsExistLoads(c) \/ IsItemExpired(c) \/ DeleteDone(c)
    \/ \E k \in Keys : RangeVisits(c, k) \/ Del(c, k)
    \/ RangeDeletes(c) \/ RangeEnds(c) \/ ScanPage(c) \/ ScanFails(c) \/ PageEnds(c)

Collect == GcTick \/ (\E k \in Keys : GcVisits(k)) \/ GcDeletes \/ GcEnds

Next == (\E c \in Clients : Start(c) \/ Proceed(c)) \/ Collect \/ Tick

\* The collector's goroutine and its ticker run; nobody has to call the cache.
Spec == Init /\ [][Next]_vars /\ WF_vars(Collect)

-----------------------------------------------------------------------------
Items == [n : 1..MaxOps, life : Lifetimes, created : 0..MaxTime]

\* Types.
CacheTypeOK ==
    /\ driver \in {"memory", "redis"} /\ now \in 0..MaxTime /\ calls \in 0..MaxOps
    /\ items \in [Keys -> Items \cup {None}] /\ owed \in [Keys -> Items \cup {None}]
    /\ raced \subseteq Keys
    /\ \A c \in Clients :
         /\ op[c].key \in Keys \cup {None} /\ op[c].item \in Items \cup {None}
         /\ op[c].todo \subseteq Keys /\ saw[c] \subseteq Items \cup {None}
    /\ gc.todo \subseteq Keys /\ gc.key \in Keys \cup {None} /\ gc.item \in Items \cup {None}

\* A read tells what its key held at some moment of the call: a value that was
\* there and had not expired, or that there was none.  Two exceptions: an item
\* that expires between its Load and the check is reported expired although a
\* Put has replaced it, and IsExist reports an error of Redis as absence.
ReadExplained ==
    \A c \in Clients : op[c].step = "end" /\ op[c].kind \in {"get", "exist"} =>
        \/ op[c].item \in saw[c]
        \/ driver = "memory" /\ op[c].item = None /\ Cardinality(saw[c]) > 1
        \/ op[c].error

\* What was put and not deleted is there until it expires, whatever the others
\* and the collector do; only an entry the collector found expired and a Put
\* replaced before it was deleted is lost early.
KeptUntilDue ==
    \A k \in Keys : Shown(owed, now, k) # None => items[k] = owed[k] \/ k \in raced

\* When BatchDelete returns without an error, every matching key is gone, was
\* stored after the call began, or is one whose Del failed under an error that
\* a later success overwrote.
BatchRemoves ==
    \A c \in Clients : At(c, "batch", "end") /\ ~op[c].error =>
        \A k \in Matching :
            \/ Shown(items, now, k) = None
            \/ k \in op[c].again \cup op[c].failed

\* An expired entry does not stay in memory.
ExpiredCollected ==
    \A k \in Keys : (driver = "memory" /\ items[k] # None /\ Expired(items[k], now))
        ~> (items[k] = None \/ ~Expired(items[k], now))
=============================================================================
