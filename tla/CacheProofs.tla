---------------------------- MODULE CacheProofs -----------------------------
(***************************************************************************)
(* What holds of the cache for any number of clients, keys, lifetimes and  *)
(* calls, and for both drivers.                                            *)
(*                                                                         *)
(* An item never comes back to life: what is expired stays expired, so the *)
(* collector holds an expired item (GcInv).  A read in progress has seen   *)
(* what its key shows now, and whoever checks the expiry of an item has    *)
(* seen that item or its absence (ReadInv).  BatchDelete is done with the  *)
(* keys it does not hold any more (BatchInv).                              *)
(***************************************************************************)
EXTENDS Cache, FiniteSetTheorems, TLAPS

Calls ==
    [kind: {"none", "put", "get", "exist", "delete", "batch"},
     step: {"idle", "run", "check", "again", "scan", "del", "end"},
     key: Keys \cup {None}, item: Items \cup {None}, todo: SUBSET Keys,
     last: BOOLEAN, error: BOOLEAN, failed: SUBSET Keys, again: SUBSET Keys]
Collectors ==
    [step: {"idle", "scan", "del"}, todo: SUBSET Keys,
     key: Keys \cup {None}, item: Items \cup {None}]

TypeInv ==
    /\ CacheTypeOK
    /\ op \in [Clients -> Calls] /\ gc \in Collectors
    /\ saw \in [Clients -> SUBSET (Items \cup {None})]

\* What a call has in its hands.
HoldInv(c) ==
    /\ op[c].step \in {"run", "check", "again"} =>
         op[c].kind \in {"put", "get", "exist", "delete"} /\ op[c].key \in Keys
    /\ op[c].step \in {"scan", "del"} => op[c].kind = "batch"
    /\ op[c].kind = "batch" => op[c].step \in {"scan", "del", "end"}
    /\ op[c].step = "idle" => op[c].kind = "none"
    /\ At(c, "put", "run") => op[c].item \in Items
    /\ op[c].step \in {"check", "again"} => driver = "memory" /\ op[c].kind \in {"get", "exist"}
    /\ op[c].step = "del" /\ driver = "memory" => op[c].key \in Keys

GcInv ==
    gc.step = "del" => gc.key \in Keys /\ gc.item \in Items /\ Expired(gc.item, now)

\* A finished read, for one client.
Answered(c) ==
    op[c].step = "end" /\ op[c].kind \in {"get", "exist"} =>
        \/ op[c].item \in saw[c]
        \/ driver = "memory" /\ op[c].item = None /\ Cardinality(saw[c]) > 1
        \/ op[c].error

ReadInv(c) ==
    /\ IsFiniteSet(saw[c])
    /\ Reads(c) => Shown(items, now, op[c].key) \in saw[c]
    /\ op[c].step = "check" =>
         /\ op[c].item \in Items
         /\ op[c].item \in saw[c] \/ (None \in saw[c] /\ Expired(op[c].item, now))
    /\ Answered(c)

\* The keys a BatchDelete still has to do something about.
Pending(c) ==
    CASE op[c].step = "scan" -> IF driver = "memory" THEN op[c].todo ELSE Keys
      [] op[c].step = "del" /\ driver = "memory" -> op[c].todo \cup {op[c].key}
      [] op[c].step = "del" /\ driver = "redis" -> IF op[c].last THEN op[c].todo ELSE Keys
      [] OTHER -> IF op[c].error THEN Keys ELSE {}

BatchInv(c) ==
    op[c].kind = "batch" => \A k \in Matching \ Pending(c) :
        Shown(items, now, k) = None \/ k \in op[c].again \cup op[c].failed

IInv ==
    /\ TypeInv /\ GcInv /\ KeptUntilDue
    /\ \A c \in Clients : HoldInv(c) /\ ReadInv(c) /\ BatchInv(c)

-----------------------------------------------------------------------------
LEMMA InitIInv == Init => IInv
  <1> SUFFICES ASSUME Init PROVE IInv
    OBVIOUS
  <1>1. TypeInv
    <2>1. op \in [Clients -> Calls]
      BY DEF Init, Calls, Idle
    <2>2. gc \in Collectors
      BY DEF Init, Collectors
    <2>3. saw \in [Clients -> SUBSET (Items \cup {None})]
      BY DEF Init
    <2>4. CacheTypeOK
      BY <2>1, <2>2, <2>3, CacheAssumption DEF Init, CacheTypeOK, Calls, Collectors
    <2> QED
      BY <2>1, <2>2, <2>3, <2>4 DEF TypeInv
  <1>2. GcInv /\ KeptUntilDue
    BY DEF Init, GcInv, KeptUntilDue, Shown
  <1>3. ASSUME NEW c \in Clients
        PROVE  HoldInv(c) /\ ReadInv(c) /\ BatchInv(c)
    <2>1. op[c] = Idle /\ saw[c] = {}
      BY <1>3 DEF Init
    <2> QED
      BY <2>1, FS_EmptySet DEF HoldInv, ReadInv, BatchInv, Answered, Reads, At, Idle
  <1> QED
    BY <1>1, <1>2, <1>3 DEF IInv

\* Time passes: what is expired stays expired.
LEMMA StaysExpired ==
    ASSUME NEW i \in Items, NEW t \in Nat, NEW u \in Nat, t <= u, Expired(i, t)
    PROVE  Expired(i, u)
  <1>1. i.life \in Lifetimes /\ i.created \in 0..MaxTime
    BY DEF Items
  <1>2. i.life \in Nat
    BY <1>1, CacheAssumption
  <1>3. i.created \in Nat
    BY <1>1, CacheAssumption
  <1> QED
    BY <1>2, <1>3 DEF Expired

\* Two different things in a finite set.
LEMMA TwoSeen ==
    ASSUME NEW S, IsFiniteSet(S), NEW x \in S, NEW y \in S, x # y
    PROVE  Cardinality(S) > 1
  <1>1. IsFiniteSet(S \ {x}) /\ Cardinality(S \ {x}) = Cardinality(S) - 1
    BY FS_RemoveElement
  <1>2. Cardinality(S \ {x}) # 0
    BY <1>1, FS_EmptySet
  <1> QED
    BY <1>1, <1>2, FS_CardinalityType

\* A client whose call does not move keeps its read, whatever happens to the
\* items and the clock, as its saw is kept up to date.
LEMMA ReadStays ==
    ASSUME TypeInv, NEW d \in Clients, ReadInv(d), HoldInv(d),
           driver' = driver, now' \in Nat, now <= now', items' \in [Keys -> Items \cup {None}],
           op'[d].kind = op[d].kind, op'[d].step = op[d].step, op'[d].key = op[d].key,
           op'[d].item = op[d].item, op'[d].error = op[d].error,
           \/ UNCHANGED <<items, now, saw>>
           \/ saw'[d] = IF Reads(d) THEN saw[d] \cup {Shown(items', now', op[d].key)} ELSE saw[d]
    PROVE  ReadInv(d)'
  <1>1. IsFiniteSet(saw'[d])
    BY FS_AddElement DEF ReadInv
  <1>2. Reads(d)' => Shown(items', now', op[d].key) \in saw'[d]
    BY DEF ReadInv, Reads
  <1>3. Shown(items, now, op[d].key)' = Shown(items', now', op[d].key)
    BY DEF Shown, Expired
  <1>4. op'[d].step = "check" =>
         /\ op'[d].item \in Items
         /\ op'[d].item \in saw'[d] \/ (None \in saw'[d] /\ Expired(op[d].item, now)')
    BY StaysExpired DEF ReadInv, Expired, TypeInv, CacheTypeOK
  <1>5. Answered(d)'
    BY DEF ReadInv, Answered, Reads
  <1> QED
    BY <1>1, <1>2, <1>3, <1>4, <1>5 DEF ReadInv

\* The same for a BatchDelete: what is stored meanwhile goes to its again.
LEMMA BatchStays ==
    ASSUME TypeInv, NEW d \in Clients, BatchInv(d),
           driver' = driver, now' \in Nat, now <= now', items' \in [Keys -> Items \cup {None}],
           op'[d].kind = op[d].kind, op'[d].step = op[d].step, op'[d].key = op[d].key,
           op'[d].todo = op[d].todo, op'[d].failed = op[d].failed,
           op'[d].last = op[d].last, op'[d].error = op[d].error,
           op[d].again \subseteq op'[d].again,
           \A k \in Keys : items'[k] \in {items[k], None} \/ op'[d].kind # "batch" \/ k \in op'[d].again
    PROVE  BatchInv(d)'
  <1> SUFFICES ASSUME op'[d].kind = "batch", NEW k \in Matching, k \notin Pending(d)',
                      k \notin op'[d].again, k \notin op'[d].failed
               PROVE  Shown(items, now, k)' = None
    BY DEF BatchInv
  <1>1. k \in Keys /\ items'[k] \in {items[k], None}
    BY CacheAssumption
  <1>2. Pending(d)' = Pending(d)
    BY DEF Pending
  <1>3. items[k] = None \/ Expired(items[k], now)
    BY <1>2 DEF BatchInv, Shown
  <1>4. items'[k] = None \/ Expired(items[k], now')
    BY <1>1, <1>3, StaysExpired DEF TypeInv, CacheTypeOK
  <1> QED
    BY <1>1, <1>4 DEF Shown, Expired

-----------------------------------------------------------------------------
(* A step of one client keeps the invariant if it keeps that client's part. *)

\* The client looks, or begins or ends a call: items stay as they are.
LEMMA QuietKeeps ==
    ASSUME IInv, NEW c \in Clients, NEW rec \in Calls, NEW seen \in SUBSET (Items \cup {None}),
           op' = [op EXCEPT ![c] = rec], saw' = [saw EXCEPT ![c] = seen],
           UNCHANGED <<driver, now, items, gc, owed, raced>>, calls' \in 0..MaxOps,
           HoldInv(c)', ReadInv(c)', BatchInv(c)'
    PROVE  IInv'
  <1>1. TypeInv'
    BY DEF IInv, TypeInv, CacheTypeOK, Calls
  <1>2. GcInv' /\ KeptUntilDue'
    BY DEF IInv, GcInv, KeptUntilDue, Shown, Expired
  <1>3. ASSUME NEW d \in Clients
        PROVE  HoldInv(d)' /\ ReadInv(d)' /\ BatchInv(d)'
    <2>1. CASE d = c
      BY <2>1
    <2>2. CASE d # c
      <3>1. op'[d] = op[d] /\ saw'[d] = saw[d]
        BY <2>2 DEF IInv, TypeInv
      <3> QED
        BY <3>1 DEF IInv, HoldInv, ReadInv, BatchInv, At, Reads, Answered, Pending, Shown, Expired
    <2> QED
      BY <2>1, <2>2
  <1> QED
    BY <1>1, <1>2, <1>3 DEF IInv

\* The client, or the collector if there is none, takes a key's item away.
LEMMA DropKeeps ==
    ASSUME IInv, NEW c \in Clients, NEW rec \in Calls, NEW k \in Keys,
           op' = [op EXCEPT ![c] = rec], Set(k, None), owed' = [owed EXCEPT ![k] = None], Rest,
           HoldInv(c)', ReadInv(c)', BatchInv(c)'
    PROVE  IInv'
  <1>1. items' \in [Keys -> Items \cup {None}] /\ items'[k] = None
        /\ \A j \in Keys \ {k} : items'[j] = items[j]
    BY DEF IInv, TypeInv, CacheTypeOK, Set
  <1>2. saw' \in [Clients -> SUBSET (Items \cup {None})]
    <2>1. ASSUME NEW d \in Clients
          PROVE  (IF Reads(d) THEN saw[d] \cup {Shown(items', now, op[d].key)} ELSE saw[d])
                   \in SUBSET (Items \cup {None})
      <3>1. saw[d] \in SUBSET (Items \cup {None}) /\ op[d] \in Calls
        BY DEF IInv, TypeInv
      <3>2. Reads(d) => op[d].key \in Keys
        BY <3>1 DEF IInv, HoldInv, Reads, Calls
      <3>3. Reads(d) => Shown(items', now, op[d].key) \in Items \cup {None}
        BY <1>1, <3>2 DEF Shown
      <3> QED
        BY <3>1, <3>3
    <2> QED
      BY <2>1 DEF Set, Observe
  <1>3. TypeInv'
    BY <1>1, <1>2 DEF IInv, TypeInv, CacheTypeOK, Calls, Rest
  <1>4. GcInv'
    BY DEF IInv, GcInv, Expired, Rest
  <1>5. KeptUntilDue'
    BY <1>1 DEF IInv, TypeInv, CacheTypeOK, KeptUntilDue, Shown, Expired, Rest
  <1>6. ASSUME NEW d \in Clients
        PROVE  HoldInv(d)' /\ ReadInv(d)' /\ BatchInv(d)'
    <2>1. CASE d = c
      BY <2>1
    <2>2. CASE d # c
      <3>1. op'[d] = op[d]
        BY <2>2 DEF IInv, TypeInv
      <3>2. now' \in Nat /\ now <= now' /\ driver' = driver
        BY DEF IInv, TypeInv, CacheTypeOK, Rest
      <3>3. saw'[d] = IF Reads(d) THEN saw[d] \cup {Shown(items', now', op[d].key)} ELSE saw[d]
        BY DEF Set, Observe, Rest
      <3>4. HoldInv(d)'
        BY <3>1, <3>2 DEF IInv, HoldInv, At
      <3>5. ReadInv(d)'
        BY <1>1, <3>1, <3>2, <3>3, ReadStays DEF IInv
      <3>6. BatchInv(d)'
        BY <1>1, <3>1, <3>2, BatchStays DEF IInv
      <3> QED
        BY <3>4, <3>5, <3>6
    <2> QED
      BY <2>1, <2>2
  <1> QED
    BY <1>3, <1>4, <1>5, <1>6 DEF IInv

\* The same when only the call goes on: its saw stays.
LEMMA StepKeeps ==
    ASSUME IInv, NEW c \in Clients, NEW rec \in Calls, op' = [op EXCEPT ![c] = rec],
           UNCHANGED <<items, owed, saw>>, Rest,
           HoldInv(c)', ReadInv(c)', BatchInv(c)'
    PROVE  IInv'
  <1>1. saw' = [saw EXCEPT ![c] = saw[c]] /\ saw[c] \in SUBSET (Items \cup {None})
    BY DEF IInv, TypeInv
  <1>2. calls' \in 0..MaxOps
    BY DEF Rest, IInv, TypeInv, CacheTypeOK
  <1> QED
    BY <1>1, <1>2, QuietKeeps DEF Rest

-----------------------------------------------------------------------------
(* Calls begin.                                                            *)

LEMMA BeginKeeps ==
    ASSUME IInv, NEW c \in Clients, NEW kind \in {"put", "get", "exist", "delete"},
           NEW k \in Keys, NEW i \in Items \cup {None}, kind = "put" => i \in Items,
           Begin(c, kind, k, i)
    PROVE  IInv'
  <1> DEFINE rec == [Idle EXCEPT !.kind = kind, !.step = "run", !.key = k, !.item = i]
             seen == IF kind \in {"get", "exist"} THEN {Shown(items, now, k)} ELSE {}
  <1>1. rec \in Calls /\ seen \in SUBSET (Items \cup {None})
    BY DEF Idle, Calls, Shown, IInv, TypeInv, CacheTypeOK
  <1>2. op' = [op EXCEPT ![c] = rec] /\ saw' = [saw EXCEPT ![c] = seen]
    BY DEF Begin, Call
  <1>3. op'[c] = rec /\ saw'[c] = seen
    BY <1>2 DEF IInv, TypeInv
  <1>4. rec.kind = kind /\ rec.step = "run" /\ rec.key = k /\ rec.item = i
    BY DEF Idle
  <1>5. HoldInv(c)' /\ BatchInv(c)'
    BY <1>3, <1>4 DEF HoldInv, BatchInv, At
  <1>6. ReadInv(c)'
    <2>1. IsFiniteSet(seen)
      BY FS_EmptySet, FS_Singleton
    <2>2. driver' = driver /\ items' = items /\ now' = now
      BY DEF Begin, Call
    <2> QED
      BY <1>3, <1>4, <2>1, <2>2 DEF ReadInv, Answered, Reads, Shown, Expired
  <1>7. calls' \in 0..MaxOps
    BY CacheAssumption DEF Begin, Call, IInv, TypeInv, CacheTypeOK
  <1> HIDE DEF rec, seen
  <1> QED
    BY <1>1, <1>2, <1>5, <1>6, <1>7, QuietKeeps DEF Begin, Call

LEMMA StartKeeps ==
    ASSUME IInv, NEW c \in Clients, Start(c)
    PROVE  IInv'
  <1>1. ASSUME NEW k \in Keys, NEW life \in Lifetimes, Put(c, k, life)
        PROVE  IInv'
    <2>1. Item(calls + 1, life) \in Items
      BY <1>1, CacheAssumption DEF Put, Begin, Call, Item, Items, IInv, TypeInv, CacheTypeOK
    <2> QED
      BY <1>1, <2>1, BeginKeeps DEF Put
  <1>2. ASSUME NEW k \in Keys, Get(c, k) \/ IsExist(c, k) \/ Delete(c, k)
        PROVE  IInv'
    BY <1>2, BeginKeeps DEF Get, IsExist, Delete
  <1>3. CASE BatchDelete(c)
    <2> DEFINE rec == [Idle EXCEPT !.kind = "batch", !.step = "scan",
                                   !.todo = IF driver = "memory" THEN Keys ELSE {}]
    <2>1. rec \in Calls
      BY DEF Idle, Calls
    <2>2. op' = [op EXCEPT ![c] = rec] /\ saw' = [saw EXCEPT ![c] = {}]
      BY <1>3 DEF BatchDelete, Call
    <2>3. op'[c] = rec /\ saw'[c] = {} /\ driver' = driver
      BY <1>3, <2>2 DEF IInv, TypeInv, BatchDelete, Call
    <2>4. HoldInv(c)' /\ ReadInv(c)'
      BY <2>3, FS_EmptySet DEF HoldInv, ReadInv, At, Answered, Reads, Idle
    <2>5. BatchInv(c)'
      BY <2>3, CacheAssumption DEF BatchInv, Pending, Idle
    <2>6. calls' \in 0..MaxOps
      BY <1>3, CacheAssumption DEF BatchDelete, Call, IInv, TypeInv, CacheTypeOK
    <2> HIDE DEF rec
    <2> QED
      BY <1>3, <2>1, <2>2, <2>4, <2>5, <2>6, QuietKeeps DEF BatchDelete, Call
  <1> QED
    BY <1>1, <1>2, <1>3 DEF Start

-----------------------------------------------------------------------------
(* Reads.                                                                  *)

\* What a read in progress knows.
LEMMA ReadFacts ==
    ASSUME IInv, NEW c \in Clients, Reads(c)
    PROVE  /\ op[c].key \in Keys /\ Shown(items, now, op[c].key) \in saw[c]
           /\ op[c].item \in Items \cup {None} /\ IsFiniteSet(saw[c])
  BY DEF IInv, TypeInv, Calls, HoldInv, ReadInv, Reads

\* The read ends with an answer that is justified.
LEMMA AnswerKeeps ==
    ASSUME IInv, NEW c \in Clients, Reads(c), NEW i \in Items \cup {None}, NEW err \in BOOLEAN,
           Answer(c, i, err), UNCHANGED <<items, owed, saw>>, Rest,
           \/ i \in saw[c]
           \/ driver = "memory" /\ i = None /\ Cardinality(saw[c]) > 1
           \/ err
    PROVE  IInv'
  <1> DEFINE rec == [op[c] EXCEPT !.step = "end", !.item = i, !.error = err]
  <1>1. rec \in Calls /\ op' = [op EXCEPT ![c] = rec] /\ op'[c] = rec
    BY DEF Answer, IInv, TypeInv, Calls
  <1>2. rec.kind = op[c].kind /\ rec.step = "end" /\ rec.item = i /\ rec.error = err
        /\ rec.kind \in {"get", "exist"} /\ saw' = saw /\ driver' = driver
    BY DEF IInv, TypeInv, Calls, Reads, Rest
  <1>3. HoldInv(c)' /\ BatchInv(c)'
    BY <1>1, <1>2 DEF HoldInv, BatchInv, At
  <1>4. ReadInv(c)'
    BY <1>1, <1>2 DEF IInv, ReadInv, Answered, Reads
  <1> HIDE DEF rec
  <1> QED
    BY <1>1, <1>3, <1>4, StepKeeps

\* The read goes on, with the item it found if it is to check it.
LEMMA GoesOnKeeps ==
    ASSUME IInv, NEW c \in Clients, Reads(c), driver = "memory", NEW i \in Items,
           \/ op' = [op EXCEPT ![c].step = "check", ![c].item = i]
           \/ op' = [op EXCEPT ![c].step = "again"],
           UNCHANGED <<items, owed, saw>>, Rest,
           i = items[op[c].key]
    PROVE  IInv'
  <1> DEFINE rec == op'[c]
  <1>1. rec \in Calls /\ op' = [op EXCEPT ![c] = rec]
    BY DEF IInv, TypeInv, Calls
  <1>2. rec.kind = op[c].kind /\ rec.key = op[c].key /\ rec.step \in {"check", "again"}
        /\ (rec.step = "check" => rec.item = i)
        /\ rec.kind \in {"get", "exist"} /\ op[c].key \in Keys /\ saw' = saw
        /\ driver' = driver /\ items' = items /\ now' = now
    BY ReadFacts DEF IInv, TypeInv, Calls, Reads, Rest
  <1>3. HoldInv(c)' /\ BatchInv(c)'
    BY <1>1, <1>2 DEF HoldInv, BatchInv, At
  <1>4. i \in saw[c] \/ (None \in saw[c] /\ Expired(i, now))
    BY ReadFacts DEF Shown
  <1>5. ReadInv(c)'
    BY <1>1, <1>2, <1>4, ReadFacts DEF ReadInv, Answered, Reads, Shown, Expired
  <1> QED
    BY <1>1, <1>3, <1>5, StepKeeps

LEMMA ReadStepKeeps ==
    ASSUME IInv, NEW c \in Clients,
           \/ GetLoads(c) \/ Check(c) \/ RedisReads(c)
           \/ IsExistLoads(c) \/ IsItemExpired(c)
    PROVE  IInv'
  <1>1. Reads(c) /\ op[c].key \in Keys
    <2>1. Reads(c)
      BY DEF GetLoads, Check, RedisReads, IsExistLoads, IsItemExpired, At, Reads, IInv, HoldInv
    <2> QED
      BY <2>1, ReadFacts
  <1>2. items[op[c].key] \in Items \cup {None}
        /\ (items[op[c].key] = None => None \in saw[c])
    BY <1>1, ReadFacts DEF IInv, TypeInv, CacheTypeOK, Shown
  <1>3. CASE GetLoads(c)
    BY <1>1, <1>2, <1>3, AnswerKeeps, GoesOnKeeps DEF GetLoads
  <1>4. CASE IsExistLoads(c)
    BY <1>1, <1>2, <1>4, AnswerKeeps, GoesOnKeeps DEF IsExistLoads
  <1>5. CASE IsItemExpired(c)
    <2>1. driver = "memory"
      BY <1>5 DEF IsItemExpired, At, IInv, HoldInv
    <2> QED
      BY <1>1, <1>2, <1>5, <2>1, AnswerKeeps, GoesOnKeeps DEF IsItemExpired
  <1>6. CASE RedisReads(c)
    <2>1. Shown(items, now, op[c].key) \in Items \cup {None}
      BY <1>2 DEF Shown
    <2> QED
      BY <1>1, <1>6, <2>1, ReadFacts, AnswerKeeps DEF RedisReads
  <1>7. CASE Check(c)
    <2>1. driver = "memory" /\ op[c].item \in Items
          /\ (op[c].item \in saw[c] \/ (None \in saw[c] /\ Expired(op[c].item, now)))
      BY <1>7 DEF Check, IInv, HoldInv, ReadInv
    <2>2. CASE ~Expired(op[c].item, now)
      BY <1>1, <1>7, <2>1, <2>2, AnswerKeeps DEF Check
    <2>3. CASE Expired(op[c].item, now) /\ None \in saw[c]
      BY <1>1, <1>7, <2>3, AnswerKeeps DEF Check
    <2>4. CASE Expired(op[c].item, now) /\ None \notin saw[c]
      <3>1. Shown(items, now, op[c].key) \in saw[c] /\ Shown(items, now, op[c].key) # op[c].item
        BY <1>1, <2>1, <2>4, ReadFacts DEF Shown
      <3>2. Cardinality(saw[c]) > 1
        BY <1>1, <2>1, <2>4, <3>1, ReadFacts, TwoSeen
      <3> QED
        BY <1>1, <1>7, <2>1, <2>4, <3>2, AnswerKeeps DEF Check
    <2> QED
      BY <2>2, <2>3, <2>4
  <1> QED
    BY <1>3, <1>4, <1>5, <1>6, <1>7

-----------------------------------------------------------------------------
(* Writes.                                                                 *)

\* What everybody sees of an item that is set.
LEMMA SetSeen ==
    ASSUME IInv, NEW k \in Keys, NEW i \in Items \cup {None}, Set(k, i), UNCHANGED <<driver, now>>
    PROVE  /\ items' \in [Keys -> Items \cup {None}] /\ items'[k] = i
           /\ \A j \in Keys \ {k} : items'[j] = items[j]
           /\ saw' \in [Clients -> SUBSET (Items \cup {None})]
           /\ \A d \in Clients : saw'[d] =
                IF Reads(d) THEN saw[d] \cup {Shown(items', now', op[d].key)} ELSE saw[d]
  <1>1. /\ items' \in [Keys -> Items \cup {None}] /\ items'[k] = i
        /\ \A j \in Keys \ {k} : items'[j] = items[j]
    BY DEF IInv, TypeInv, CacheTypeOK, Set
  <1>2. ASSUME NEW d \in Clients
        PROVE  (IF Reads(d) THEN saw[d] \cup {Shown(items', now, op[d].key)} ELSE saw[d])
                 \in SUBSET (Items \cup {None})
    <2>1. saw[d] \in SUBSET (Items \cup {None})
      BY DEF IInv, TypeInv
    <2>2. Reads(d) => Shown(items', now, op[d].key) \in Items \cup {None}
      BY <1>1, ReadFacts DEF Shown
    <2> QED
      BY <2>1, <2>2
  <1> QED
    BY <1>1, <1>2 DEF Set, Observe

LEMMA PutStoresKeeps ==
    ASSUME IInv, NEW c \in Clients, PutStores(c)
    PROVE  IInv'
  <1> DEFINE k == op[c].key
             i == IF driver = "redis" THEN [op[c].item EXCEPT !.created = now] ELSE op[c].item
  <1>1. k \in Keys /\ op[c].item \in Items
    BY DEF PutStores, At, IInv, HoldInv
  <1>2. i \in Items /\ Set(k, i) /\ owed' = [owed EXCEPT ![k] = i] /\ raced' = raced \ {k}
        /\ UNCHANGED <<driver, now, gc, calls>>
    BY <1>1 DEF PutStores, Items, IInv, TypeInv, CacheTypeOK
  <1>3. op' = Again([op EXCEPT ![c] = [Idle EXCEPT !.step = "end"]], k)
    BY DEF PutStores
  <1> HIDE DEF k, i
  <1>4. [Idle EXCEPT !.step = "end"] \in Calls /\ [Idle EXCEPT !.step = "end"].kind = "none"
        /\ [Idle EXCEPT !.step = "end"].step = "end"
    BY DEF Idle, Calls
  <1>5. op' \in [Clients -> Calls] /\ op'[c] = [Idle EXCEPT !.step = "end"]
    BY <1>1, <1>3, <1>4 DEF Again, IInv, TypeInv, Calls
  <1>6. ASSUME NEW d \in Clients, d # c
        PROVE  /\ op'[d] = IF op[d].kind = "batch" THEN [op[d] EXCEPT !.again = @ \cup {k}] ELSE op[d]
               /\ op'[d].kind = op[d].kind /\ op'[d].step = op[d].step /\ op'[d].key = op[d].key
               /\ op'[d].item = op[d].item /\ op'[d].todo = op[d].todo
               /\ op'[d].failed = op[d].failed /\ op'[d].last = op[d].last
               /\ op'[d].error = op[d].error /\ op[d].again \subseteq op'[d].again
               /\ (op[d].kind = "batch" => k \in op'[d].again)
    BY <1>3, <1>6 DEF Again, IInv, TypeInv, Calls
  <1>7. /\ items' \in [Keys -> Items \cup {None}] /\ items'[k] = i
        /\ \A j \in Keys \ {k} : items'[j] = items[j]
        /\ saw' \in [Clients -> SUBSET (Items \cup {None})]
        /\ \A d \in Clients : saw'[d] =
             IF Reads(d) THEN saw[d] \cup {Shown(items', now', op[d].key)} ELSE saw[d]
    BY <1>1, <1>2, SetSeen
  <1>8. TypeInv'
    BY <1>1, <1>2, <1>5, <1>7 DEF IInv, TypeInv, CacheTypeOK, Calls
  <1>9. GcInv'
    BY <1>2 DEF IInv, GcInv, Expired
  <1>10. KeptUntilDue'
    BY <1>1, <1>2, <1>7 DEF IInv, TypeInv, CacheTypeOK, KeptUntilDue, Shown, Expired
  <1>11. now' \in Nat /\ now <= now' /\ driver' = driver
    BY <1>2 DEF IInv, TypeInv, CacheTypeOK
  <1>12. HoldInv(c)' /\ ReadInv(c)' /\ BatchInv(c)'
    <2>1. op[c].kind = "put"
      BY DEF PutStores, At
    <2>2. saw'[c] = saw[c]
      BY <1>7, <2>1 DEF Reads
    <2> QED
      BY <1>4, <1>5, <2>2 DEF IInv, HoldInv, ReadInv, BatchInv, Answered, Reads, At
  <1>13. ASSUME NEW d \in Clients, d # c
         PROVE  HoldInv(d)' /\ ReadInv(d)' /\ BatchInv(d)'
    <2>1. HoldInv(d)'
      BY <1>6, <1>11, <1>13 DEF IInv, HoldInv, At
    <2>2. ReadInv(d)'
      BY <1>6, <1>7, <1>11, <1>13, ReadStays DEF IInv
    <2>3. BatchInv(d)'
      BY <1>6, <1>7, <1>11, <1>13, BatchStays DEF IInv
    <2> QED
      BY <2>1, <2>2, <2>3
  <1> QED
    BY <1>8, <1>9, <1>10, <1>12, <1>13 DEF IInv

LEMMA WriteEndsKeeps ==
    ASSUME IInv, NEW c \in Clients, PutFails(c) \/ DeleteDone(c)
    PROVE  IInv'
  <1> DEFINE rec == [Idle EXCEPT !.step = "end"]
  <1>1. rec \in Calls /\ rec.kind = "none" /\ rec.step = "end"
    BY DEF Idle, Calls
  <1>2. op' = [op EXCEPT ![c] = rec] /\ op'[c] = rec /\ Rest
    BY DEF PutFails, DeleteDone, IInv, TypeInv
  <1>3. op[c].kind \in {"put", "delete"} /\ op[c].key \in Keys
    BY DEF PutFails, DeleteDone, At, IInv, HoldInv
  <1> HIDE DEF rec
  <1>4. HoldInv(c)' /\ BatchInv(c)'
    BY <1>1, <1>2 DEF HoldInv, BatchInv, At
  <1>5. ReadInv(c)'
    <2>1. saw'[c] = saw[c]
      BY <1>3 DEF PutFails, DeleteDone, Set, Observe, Reads
    <2> QED
      BY <1>1, <1>2, <2>1 DEF IInv, ReadInv, Answered, Reads
  <1>6. CASE UNCHANGED <<items, owed, saw>>
    BY <1>1, <1>2, <1>4, <1>5, <1>6, StepKeeps
  <1>7. CASE Set(op[c].key, None) /\ owed' = [owed EXCEPT ![op[c].key] = None]
    BY <1>1, <1>2, <1>3, <1>4, <1>5, <1>7, DropKeeps
  <1> QED
    BY <1>6, <1>7 DEF PutFails, DeleteDone

-----------------------------------------------------------------------------
(* BatchDelete.                                                            *)

\* The call goes on and none of the keys it has done is forgotten.
LEMMA BatchGoesOn ==
    ASSUME IInv, NEW c \in Clients, NEW rec \in Calls,
           op' = [op EXCEPT ![c] = rec], Rest,
           op[c].kind = "batch", rec.kind = "batch", rec.step \in {"scan", "del", "end"},
           rec.step = "del" /\ driver = "memory" => rec.key \in Keys,
           \/ UNCHANGED <<items, owed, saw>>
           \/ \E k \in Keys : Set(k, None) /\ owed' = [owed EXCEPT ![k] = None],
           \A k \in Matching \ Pending(c)' :
              Shown(items', now, k) = None \/ k \in rec.again \cup rec.failed
    PROVE  IInv'
  <1>1. op'[c] = rec /\ driver' = driver
    BY DEF IInv, TypeInv, Rest
  <1>2. HoldInv(c)'
    BY <1>1 DEF HoldInv, At
  <1>3. BatchInv(c)'
    BY <1>1 DEF BatchInv, Shown, Expired, Rest
  <1>4. ReadInv(c)'
    <2>1. saw'[c] = saw[c]
      BY DEF Set, Observe, Reads
    <2> QED
      BY <1>1, <2>1 DEF IInv, ReadInv, Answered, Reads
  <1> QED
    BY <1>2, <1>3, <1>4, StepKeeps, DropKeeps

\* Keys done before, seen from the items after a deletion.
LEMMA DoneStays ==
    ASSUME IInv, NEW c \in Clients, op[c].kind = "batch",
           \/ UNCHANGED items
           \/ \E k \in Keys : items' = [items EXCEPT ![k] = None]
    PROVE  \A k \in Matching \ Pending(c) :
              Shown(items', now, k) = None \/ k \in op[c].again \cup op[c].failed
  BY CacheAssumption DEF IInv, TypeInv, CacheTypeOK, BatchInv, Shown

LEMMA BatchStepKeeps ==
    ASSUME IInv, NEW c \in Clients,
           \/ \E k \in Keys : RangeVisits(c, k) \/ Del(c, k)
           \/ RangeDeletes(c) \/ RangeEnds(c) \/ ScanPage(c) \/ ScanFails(c) \/ PageEnds(c)
    PROVE  IInv'
  <1> DEFINE rec == op'[c]
  <1>1. op[c] \in Calls /\ op[c].kind = "batch" /\ Rest /\ driver' = driver
    BY DEF RangeVisits, Del, RangeDeletes, RangeEnds, ScanPage, ScanFails, PageEnds, At, Rest, IInv, TypeInv
  <1>2. ASSUME NEW k \in Keys, RangeVisits(c, k)
        PROVE  IInv'
    <2>1. rec = [op[c] EXCEPT !.todo = @ \ {k},
                   !.step = IF items[k] # None /\ k \in Matching THEN "del" ELSE "scan", !.key = k]
          /\ op' = [op EXCEPT ![c] = rec]
      BY <1>2 DEF RangeVisits, IInv, TypeInv
    <2>2. rec \in Calls /\ rec.kind = "batch" /\ rec.key = k /\ rec.todo = op[c].todo \ {k}
          /\ rec.step = (IF items[k] # None /\ k \in Matching THEN "del" ELSE "scan")
          /\ rec.again = op[c].again /\ rec.failed = op[c].failed
      <3>1. op[c].todo \ {k} \in SUBSET Keys
        BY <1>1 DEF Calls
      <3>2. (IF items[k] # None /\ k \in Matching THEN "del" ELSE "scan") \in {"del", "scan"}
        OBVIOUS
      <3> QED
        BY <1>1, <2>1, <3>1, <3>2 DEF Calls
    <2>3. op[c].step = "scan" /\ driver = "memory" /\ UNCHANGED <<items, owed, saw>>
      BY <1>2 DEF RangeVisits, At
    <2>4. \A j \in Matching \ Pending(c)' :
            Shown(items', now, j) = None \/ j \in rec.again \cup rec.failed
      BY <1>1, <2>2, <2>3, DoneStays DEF Pending, Shown
    <2> QED
      BY <1>1, <2>1, <2>2, <2>3, <2>4, BatchGoesOn
  <1>3. ASSUME NEW k \in Keys, Del(c, k)
        PROVE  IInv'
    <2>1. op[c].step = "del" /\ driver = "redis"
      BY <1>3 DEF Del, At
    <2>2. CASE Set(k, None) /\ owed' = [owed EXCEPT ![k] = None]
               /\ op' = [op EXCEPT ![c].todo = @ \ {k}, ![c].error = FALSE]
      <3>1. rec = [op[c] EXCEPT !.todo = @ \ {k}, !.error = FALSE] /\ op' = [op EXCEPT ![c] = rec]
        BY <2>2 DEF IInv, TypeInv
      <3>2. rec \in Calls /\ rec.kind = "batch" /\ rec.step = "del" /\ rec.last = op[c].last
            /\ rec.todo = op[c].todo \ {k} /\ rec.again = op[c].again /\ rec.failed = op[c].failed
        BY <1>1, <2>1, <3>1 DEF Calls
      <3>3. items'[k] = None
        BY <2>2 DEF Set, IInv, TypeInv, CacheTypeOK
      <3>4. \A j \in Matching \ Pending(c)' :
              Shown(items', now, j) = None \/ j \in rec.again \cup rec.failed
        BY <1>1, <2>1, <2>2, <3>2, <3>3, DoneStays DEF Pending, Shown, Set
      <3> QED
        BY <1>1, <2>1, <2>2, <3>1, <3>2, <3>4, BatchGoesOn
    <2>3. CASE op' = [op EXCEPT ![c].todo = @ \ {k}, ![c].error = TRUE, ![c].failed = @ \cup {k}]
               /\ UNCHANGED <<items, owed, saw>>
      <3>1. rec = [op[c] EXCEPT !.todo = @ \ {k}, !.error = TRUE, !.failed = @ \cup {k}]
            /\ op' = [op EXCEPT ![c] = rec]
        BY <2>3 DEF IInv, TypeInv
      <3>2. rec \in Calls /\ rec.kind = "batch" /\ rec.step = "del" /\ rec.last = op[c].last
            /\ rec.todo = op[c].todo \ {k} /\ rec.again = op[c].again
            /\ rec.failed = op[c].failed \cup {k}
        <4>1. op[c].todo \ {k} \in SUBSET Keys /\ op[c].failed \cup {k} \in SUBSET Keys
          BY <1>1 DEF Calls
        <4> QED
          BY <1>1, <2>1, <3>1, <4>1 DEF Calls
      <3>3. \A j \in Matching \ Pending(c)' :
              Shown(items', now, j) = None \/ j \in rec.again \cup rec.failed
        BY <1>1, <2>1, <2>3, <3>2, DoneStays DEF Pending
      <3> QED
        BY <1>1, <2>1, <2>3, <3>1, <3>2, <3>3, BatchGoesOn
    <2> QED
      BY <1>3, <2>2, <2>3 DEF Del
  <1>4. CASE RangeDeletes(c)
    <2>1. op[c].step = "del" /\ driver = "memory" /\ op[c].key \in Keys
          /\ Set(op[c].key, None) /\ owed' = [owed EXCEPT ![op[c].key] = None]
      BY <1>4 DEF RangeDeletes, At, IInv, HoldInv
    <2>2. rec = [op[c] EXCEPT !.step = "scan"] /\ op' = [op EXCEPT ![c] = rec]
      BY <1>4 DEF RangeDeletes, IInv, TypeInv
    <2>3. rec \in Calls /\ rec.kind = "batch" /\ rec.step = "scan"
          /\ rec.todo = op[c].todo /\ rec.again = op[c].again /\ rec.failed = op[c].failed
      BY <1>1, <2>2 DEF Calls
    <2>4. items'[op[c].key] = None
      BY <2>1 DEF Set, IInv, TypeInv, CacheTypeOK
    <2>5. \A j \in Matching \ Pending(c)' :
            Shown(items', now, j) = None \/ j \in rec.again \cup rec.failed
      BY <1>1, <2>1, <2>3, <2>4, DoneStays DEF Pending, Shown, Set
    <2> QED
      BY <1>1, <2>1, <2>2, <2>3, <2>5, BatchGoesOn
  <1>5. CASE RangeEnds(c) \/ ScanFails(c)
    <2>1. rec = [op[c] EXCEPT !.step = "end", !.item = None, !.error = (driver = "redis")]
          /\ op' = [op EXCEPT ![c] = rec]
      BY <1>5 DEF RangeEnds, ScanFails, Answer, IInv, TypeInv
    <2>2. rec \in Calls /\ rec.kind = "batch" /\ rec.step = "end" /\ rec.error = (driver = "redis")
          /\ rec.again = op[c].again /\ rec.failed = op[c].failed
      BY <1>1, <2>1 DEF Calls
    <2>3. op[c].step = "scan" /\ (driver = "memory" => op[c].todo = {})
          /\ UNCHANGED <<items, owed, saw>>
      BY <1>5 DEF RangeEnds, ScanFails, At
    <2>4. \A j \in Matching \ Pending(c)' :
            Shown(items', now, j) = None \/ j \in rec.again \cup rec.failed
      BY <1>1, <1>5, <2>2, <2>3, CacheAssumption, DoneStays DEF Pending, RangeEnds, ScanFails
    <2> QED
      BY <1>1, <2>1, <2>2, <2>3, <2>4, BatchGoesOn
  <1>6. CASE ScanPage(c)
    <2>1. PICK page \in SUBSET Visible, last \in BOOLEAN :
            /\ last => Visible \subseteq page \cup op[c].failed \cup op[c].again
            /\ op' = [op EXCEPT ![c].step = "del", ![c].todo = page,
                                ![c].last = last, ![c].error = FALSE]
      BY <1>6 DEF ScanPage
    <2>2. rec = [op[c] EXCEPT !.step = "del", !.todo = page, !.last = last, !.error = FALSE]
          /\ op' = [op EXCEPT ![c] = rec]
      BY <2>1 DEF IInv, TypeInv
    <2>3. rec \in Calls /\ rec.kind = "batch" /\ rec.step = "del" /\ rec.todo = page
          /\ rec.last = last /\ rec.again = op[c].again /\ rec.failed = op[c].failed
      BY <1>1, <2>2, CacheAssumption DEF Calls, Visible
    <2>4. driver = "redis" /\ UNCHANGED <<items, owed, saw>>
      BY <1>6 DEF ScanPage
    <2>5. \A j \in Matching \ Pending(c)' :
            Shown(items', now, j) = None \/ j \in rec.again \cup rec.failed
      BY <1>1, <2>1, <2>3, <2>4, CacheAssumption DEF Pending, Visible
    <2> QED
      BY <1>1, <2>2, <2>3, <2>4, <2>5, BatchGoesOn
  <1>7. CASE PageEnds(c)
    <2>1. rec = [op[c] EXCEPT !.step = IF op[c].last THEN "end" ELSE "scan"]
          /\ op' = [op EXCEPT ![c] = rec]
      BY <1>7 DEF PageEnds, IInv, TypeInv
    <2>2. rec \in Calls /\ rec.kind = "batch" /\ rec.step = (IF op[c].last THEN "end" ELSE "scan")
          /\ rec.again = op[c].again /\ rec.failed = op[c].failed
      BY <1>1, <2>1 DEF Calls
    <2>3. op[c].step = "del" /\ op[c].todo = {} /\ driver = "redis"
          /\ UNCHANGED <<items, owed, saw>>
      BY <1>7 DEF PageEnds, At
    <2>4. \A j \in Matching \ Pending(c)' :
            Shown(items', now, j) = None \/ j \in rec.again \cup rec.failed
      BY <1>1, <2>2, <2>3, CacheAssumption, DoneStays DEF Pending
    <2> QED
      BY <1>1, <2>1, <2>2, <2>3, <2>4, BatchGoesOn
  <1> QED
    BY <1>2, <1>3, <1>4, <1>5, <1>6, <1>7

-----------------------------------------------------------------------------
(* The collector and time.                                                 *)

LEMMA CollectKeeps ==
    ASSUME IInv, Collect
    PROVE  IInv'
  <1>1. UNCHANGED <<driver, now, op, calls, owed>>
    BY DEF Collect, GcTick, GcVisits, GcDeletes, GcEnds, GcRest
  <1>2. gc' \in Collectors /\ GcInv'
    <2>1. CASE GcTick \/ GcEnds
      BY <2>1 DEF GcTick, GcEnds, IInv, TypeInv, Collectors, GcInv
    <2>2. ASSUME NEW k \in Keys, GcVisits(k)
          PROVE  gc' \in Collectors /\ GcInv'
      <3>1. gc.todo \ {k} \in SUBSET Keys /\ items[k] \in Items \cup {None} /\ gc.step = "scan"
        BY <2>2 DEF GcVisits, IInv, TypeInv, CacheTypeOK
      <3>2. CASE items[k] # None /\ Expired(items[k], now)
        <4>1. gc' = [step |-> "del", todo |-> gc.todo \ {k}, key |-> k, item |-> items[k]]
          BY <2>2, <3>2 DEF GcVisits
        <4> QED
          BY <1>1, <3>1, <3>2, <4>1 DEF Collectors, GcInv, Expired
      <3>3. CASE items[k] = None \/ ~Expired(items[k], now)
        <4>1. gc' = [gc EXCEPT !.todo = gc.todo \ {k}]
          BY <2>2, <3>3 DEF GcVisits
        <4> QED
          BY <3>1, <4>1 DEF Collectors, GcInv, IInv, TypeInv
      <3> QED
        BY <3>2, <3>3
    <2>3. CASE GcDeletes
      BY <2>3 DEF GcDeletes, IInv, TypeInv, Collectors, GcInv
    <2> QED
      BY <2>1, <2>2, <2>3 DEF Collect
  <1>4. CASE UNCHANGED <<items, raced, saw>>
    <2>1. TypeInv'
      BY <1>1, <1>2, <1>4 DEF IInv, TypeInv, CacheTypeOK, Collectors
    <2>2. KeptUntilDue'
      BY <1>1, <1>4 DEF IInv, KeptUntilDue, Shown, Expired
    <2>3. ASSUME NEW d \in Clients
          PROVE  HoldInv(d)' /\ ReadInv(d)' /\ BatchInv(d)'
      BY <1>1, <1>4 DEF IInv, HoldInv, ReadInv, BatchInv, At, Reads, Answered, Pending, Shown, Expired
    <2> QED
      BY <1>2, <2>1, <2>2, <2>3 DEF IInv
  <1>3. CASE GcDeletes
    <2> DEFINE k == gc.key
    <2>1. k \in Keys /\ gc.item \in Items /\ Expired(gc.item, now) /\ Set(k, None)
      BY <1>3 DEF GcDeletes, IInv, GcInv
    <2>2. raced' = IF items[k] \in {None, gc.item} THEN raced ELSE raced \cup {k}
      BY <1>3 DEF GcDeletes
    <2> HIDE DEF k
    <2>3. /\ items' \in [Keys -> Items \cup {None}] /\ items'[k] = None
          /\ \A j \in Keys \ {k} : items'[j] = items[j]
          /\ saw' \in [Clients -> SUBSET (Items \cup {None})]
          /\ \A d \in Clients : saw'[d] =
               IF Reads(d) THEN saw[d] \cup {Shown(items', now', op[d].key)} ELSE saw[d]
      BY <1>1, <2>1, SetSeen
    <2>4. TypeInv'
      BY <1>1, <1>2, <2>1, <2>2, <2>3 DEF IInv, TypeInv, CacheTypeOK, Collectors
    <2>5. KeptUntilDue'
      BY <1>1, <2>1, <2>2, <2>3 DEF IInv, KeptUntilDue, Shown, Expired
    <2>6. now' \in Nat /\ now <= now'
      BY <1>1 DEF IInv, TypeInv, CacheTypeOK
    <2>7. ASSUME NEW d \in Clients
          PROVE  HoldInv(d)' /\ ReadInv(d)' /\ BatchInv(d)'
      <3>1. HoldInv(d)'
        BY <1>1 DEF IInv, HoldInv, At
      <3>2. ReadInv(d)'
        BY <1>1, <2>3, <2>6, ReadStays DEF IInv
      <3>3. BatchInv(d)'
        BY <1>1, <2>3, <2>6, BatchStays DEF IInv
      <3> QED
        BY <3>1, <3>2, <3>3
    <2> QED
      BY <1>2, <2>4, <2>5, <2>7 DEF IInv
  <1> QED
    BY <1>3, <1>4 DEF Collect, GcTick, GcVisits, GcEnds

LEMMA TickKeeps ==
    ASSUME IInv, Tick
    PROVE  IInv'
  <1>1. now' = now + 1 /\ now' \in 0..MaxTime /\ now \in Nat /\ now' \in Nat /\ now <= now'
    BY CacheAssumption DEF Tick, IInv, TypeInv, CacheTypeOK
  <1>2. UNCHANGED <<driver, items, op, gc, calls, owed, raced>>
    BY DEF Tick
  <1>3. \A d \in Clients : saw'[d] =
          IF Reads(d) THEN saw[d] \cup {Shown(items', now', op[d].key)} ELSE saw[d]
    BY <1>2 DEF Tick, Observe
  <1>4. saw' \in [Clients -> SUBSET (Items \cup {None})]
    <2>1. ASSUME NEW d \in Clients
          PROVE  (IF Reads(d) THEN saw[d] \cup {Shown(items, now', op[d].key)} ELSE saw[d])
                   \in SUBSET (Items \cup {None})
      <3>1. saw[d] \in SUBSET (Items \cup {None})
        BY DEF IInv, TypeInv
      <3>2. Reads(d) => Shown(items, now', op[d].key) \in Items \cup {None}
        BY ReadFacts DEF Shown, IInv, TypeInv, CacheTypeOK
      <3> QED
        BY <3>1, <3>2
    <2> QED
      BY <2>1 DEF Tick, Observe
  <1>5. TypeInv'
    BY <1>1, <1>2, <1>4 DEF IInv, TypeInv, CacheTypeOK
  <1>6. GcInv'
    BY <1>1, <1>2, StaysExpired DEF IInv, GcInv, Expired
  <1>7. KeptUntilDue'
    <2> SUFFICES ASSUME NEW k \in Keys, Shown(owed, now, k)' # None
                 PROVE  items[k] = owed[k] \/ k \in raced
      BY <1>2 DEF KeptUntilDue
    <2>1. owed[k] \in Items /\ ~Expired(owed[k], now)' /\ owed[k] # None
      BY <1>2 DEF Shown, Expired, IInv, TypeInv, CacheTypeOK
    <2>2. ~Expired(owed[k], now)
      BY <1>1, <1>2, <2>1, StaysExpired DEF Expired
    <2> QED
      BY <2>1, <2>2 DEF IInv, KeptUntilDue, Shown
  <1>8. ASSUME NEW d \in Clients
        PROVE  HoldInv(d)' /\ ReadInv(d)' /\ BatchInv(d)'
    <2>1. HoldInv(d)'
      BY <1>2 DEF IInv, HoldInv, At
    <2>2. ReadInv(d)'
      BY <1>1, <1>2, <1>3, ReadStays DEF IInv, TypeInv, CacheTypeOK
    <2>3. BatchInv(d)'
      BY <1>1, <1>2, BatchStays DEF IInv, TypeInv, CacheTypeOK
    <2> QED
      BY <2>1, <2>2, <2>3
  <1> QED
    BY <1>5, <1>6, <1>7, <1>8 DEF IInv

-----------------------------------------------------------------------------
LEMMA NextIInv == IInv /\ [Next]_vars => IInv'
  <1> SUFFICES ASSUME IInv, [Next]_vars PROVE IInv'
    OBVIOUS
  <1>1. CASE UNCHANGED vars
    <2> USE <1>1 DEF vars
    <2>1. TypeInv' /\ GcInv' /\ KeptUntilDue'
      BY DEF IInv, TypeInv, CacheTypeOK, GcInv, KeptUntilDue, Shown, Expired
    <2>2. ASSUME NEW d \in Clients
          PROVE  HoldInv(d)' /\ ReadInv(d)' /\ BatchInv(d)'
      BY DEF IInv, HoldInv, ReadInv, BatchInv, At, Reads, Answered, Pending, Shown, Expired
    <2> QED
      BY <2>1, <2>2 DEF IInv
  <1>2. ASSUME NEW c \in Clients, Start(c) \/ Proceed(c)
        PROVE  IInv'
    BY <1>2, StartKeeps, ReadStepKeeps, PutStoresKeeps, WriteEndsKeeps, BatchStepKeeps DEF Proceed
  <1> QED
    BY <1>1, <1>2, CollectKeeps, TickKeeps DEF Next

LEMMA Inductive == Spec => []IInv
  BY InitIInv, NextIInv, PTL DEF Spec

\* Every variable keeps to its type.
THEOREM CacheTypeCorrect == Spec => []CacheTypeOK
  <1>1. IInv => CacheTypeOK
    BY DEF IInv, TypeInv
  <1> QED
    BY <1>1, Inductive, PTL

\* Whoever reads, writes and deletes meanwhile, a read answers what its key held
\* during the call, with the two exceptions ReadExplained names.
THEOREM ReadsExplained == Spec => []ReadExplained
  <1>1. IInv => ReadExplained
    BY DEF IInv, ReadInv, Answered, ReadExplained
  <1> QED
    BY <1>1, Inductive, PTL

\* Only a Put that comes between the collector's look and its deletion is lost.
THEOREM ItemsKept == Spec => []KeptUntilDue
  <1>1. IInv => KeptUntilDue
    BY DEF IInv
  <1> QED
    BY <1>1, Inductive, PTL

\* A BatchDelete that reports no error has deleted all it found, or forgot an error.
THEOREM BatchesRemove == Spec => []BatchRemoves
  <1>1. IInv => BatchRemoves
    BY DEF IInv, BatchInv, Pending, BatchRemoves, At
  <1> QED
    BY <1>1, Inductive, PTL
=============================================================================
