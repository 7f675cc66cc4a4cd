--------------------------------- MODULE QHT ---------------------------------
(***************************************************************************)
(* The concurrent hash table of util/qht.c, with the sequence locks of     *)
(* qemu/seqlock.h.  Writers lock a bucket, or all of them; lookups lock    *)
(* nothing and start again when the bucket's sequence number has moved.    *)
(* A resize copies everything to a new map, publishes it and leaves the    *)
(* old one to RCU.                                                         *)
(*                                                                         *)
(* A bucket is its head and the buckets chained to it, seen as one         *)
(* sequence of slots; linked is how many of them the next pointers reach.  *)
(* The stores between seqlock_write_begin and seqlock_write_end have no    *)
(* order among themselves: they are in pend[t] until they take effect.     *)
(*                                                                         *)
(* pc[t], the next step of thread t:                                       *)
(*   idle      outside; map (about to read ht->map)                        *)
(*   begin, hash, ptr, next, retry                  qht_lookup             *)
(*   s_begin, s_ptr, s_next, s_retry                qht_statistics_init    *)
(*   lock, slow, slow_lock                          bucket_lock__no_stale  *)
(*   work, store, unlock                            insert, remove         *)
(*   ht_lock, ht_unlock                             qht_resize, grow, ...  *)
(*   lock_all, unlock_stale, slow_all, reset, visit, copy, retire,         *)
(*   unlock_all                                     with all buckets       *)
(***************************************************************************)
EXTENDS Naturals, Sequences, FiniteSetsExt, SequencesExt

CONSTANTS
    Threads, Pointers, NULL,
    Hash,               \* the hash that goes with each pointer
    Ops,                \* the operations callers choose from
    Unprotected,        \* kinds of operation called outside RCU sections
    AutoResize,         \* QHT_MODE_AUTO_RESIZE
    QHT_BUCKET_ENTRIES,
    InitElems,          \* n_elems of qht_init
    Preset,             \* pointers inserted before the threads start
    MaxMaps,            \* bound: no calls once there are that many maps
    MaxCalls            \* bound: calls

Kinds == {"lookup", "insert", "remove", "reset", "reset_size", "resize", "iter", "stats"}

ASSUME QHTAssumption ==
    /\ NULL \notin Threads \cup Pointers /\ \A S \in SUBSET Pointers : S # NULL
    /\ Hash \in [Pointers -> Nat]
    /\ \A o \in Ops : o.kind \in Kinds /\ o.n \in Nat
    /\ \A o \in Ops : IF o.kind \in {"lookup", "insert", "remove"} THEN o.p \in Pointers ELSE o.p = NULL
    /\ Unprotected \subseteq Kinds /\ AutoResize \in BOOLEAN
    /\ QHT_BUCKET_ENTRIES \in Nat \ {0} /\ InitElems \in Nat
    /\ Preset \in Seq(Pointers) /\ IsInjective(Preset)
    /\ MaxMaps \in Nat /\ MaxCalls \in Nat

VARIABLES
    maps,               \* every qht_map created so far
    ht_map, ht_lock,    \* struct qht
    grace,              \* per retired map, threads the grace period waits for
    freed,
    pc, op, calls,
    map, bkt,           \* locals: the map and the bucket in hand
    pos,                \* the slot in hand
    version,            \* of the bucket's sequence lock
    found,              \* the value qht_do_lookup returned
    needs_resize,
    pend,
    contents, seen, result      \* history: see QhtSet

tableVars == <<maps, ht_map, ht_lock, grace, freed>>
localVars == <<op, map, bkt, pos, version, found, needs_resize, pend>>
histVars  == <<contents, seen, result>>
vars == <<tableVars, pc, calls, localVars, histVars>>

-----------------------------------------------------------------------------
(* Maps.                                                                   *)

(* A power of two has no odd divisor but 1. *)
IsPowerOf2(x) == \A d \in 2 .. x : x % d = 0 => d % 2 = 0

(* pow2ceil(n_elems / QHT_BUCKET_ENTRIES), which is 1 for 0 *)
pow2ceil(v) == Min({x \in 1 .. 2 * v + 1 : x >= v /\ IsPowerOf2(x)})
qht_elems_to_buckets(n) == pow2ceil(n \div QHT_BUCKET_ENTRIES)

EmptySlot == [h |-> 0, p |-> NULL]
EmptyBucket == [i \in 1 .. QHT_BUCKET_ENTRIES |-> EmptySlot]
QHT_NR_ADDED_BUCKETS_THRESHOLD_DIV == 8
Threshold(n) ==
    IF n \div QHT_NR_ADDED_BUCKETS_THRESHOLD_DIV = 0 THEN 1
    ELSE n \div QHT_NR_ADDED_BUCKETS_THRESHOLD_DIV
qht_map_needs_resize(m) == m.n_added > Threshold(m.n_buckets)

qht_map_to_bucket(m, hash) == hash % m.n_buckets

(* qht_map_is_stale__locked *)
Stale(m) == m # ht_map

(* Where the walk of a chain from slot i on meets its first NULL pointer. *)
FirstFree(slots, i) == Min({j \in i .. Len(slots) : slots[j].p = NULL} \cup {Len(slots) + 1})

(* Where a map has entries: bucket after bucket, each chain up to its      *)
(* first NULL (qht_map_iter__all_locked, qht_bucket_iter).                 *)
Chain(slots) == 1 .. FirstFree(slots, 1) - 1
Places(m) == UNION {{b} \X Chain(m.heads[b].slots) : b \in 0 .. m.n_buckets - 1}
Precedes(x, y) == x[1] < y[1] \/ (x[1] = y[1] /\ x[2] < y[2])
AllEntries(m) == [x \in Places(m) |-> m.heads[x[1]].slots[x[2]]]

(* The entries that go to bucket b of n, and the i-th of them. *)
Share(entries, n, b) == {x \in DOMAIN entries : entries[x].h % n = b}
Nth(S, i) == CHOOSE x \in S : Cardinality({y \in S : Precedes(y, x)}) = i - 1

(* How many slots n entries take up, in whole buckets. *)
Room(n) == QHT_BUCKET_ENTRIES * Max({1, (n + QHT_BUCKET_ENTRIES - 1) \div QHT_BUCKET_ENTRIES})

(* A bucket with the given entries, inserted one after the other: each     *)
(* goes to the end of the chain and moves the sequence number by two.      *)
FilledBucket(entries, S) ==
    [lock |-> NULL, sequence |-> 2 * Cardinality(S), linked |-> Room(Cardinality(S)),
     slots |-> [i \in 1 .. Room(Cardinality(S)) |->
                  IF i <= Cardinality(S) THEN entries[Nth(S, i)] ELSE EmptySlot]]

(* qht_map_create and qht_map_copy of every entry. *)
Filled(entries, n) ==
    LET heads == [b \in 0 .. n - 1 |-> FilledBucket(entries, Share(entries, n, b))]
        added == UNION {{b} \X (2 .. heads[b].linked \div QHT_BUCKET_ENTRIES) : b \in 0 .. n - 1}
    IN [n_buckets |-> n, n_added |-> Cardinality(added), heads |-> heads]

-----------------------------------------------------------------------------
(* The caller.                                                             *)

InRCU(t) == pc[t] # "idle" /\ op[t].kind \notin Unprotected

Goto(t, label) == pc' = [pc EXCEPT ![t] = label]
Set(f, t, v) == [f EXCEPT ![t] = v]

(* The values the history variables get when the contents become s. *)
Become(s) ==
    /\ contents' = s
    /\ seen' = [t \in Threads |-> IF seen[t] = {} THEN {} ELSE seen[t] \cup {s}]

Init ==
    /\ maps = <<Filled([x \in {0} \X DOMAIN Preset |-> [h |-> Hash[Preset[x[2]]], p |-> Preset[x[2]]]],
                       qht_elems_to_buckets(InitElems))>>
    /\ ht_map = 1 /\ ht_lock = NULL
    /\ grace = [m \in {} |-> {}] /\ freed = {}
    /\ pc = [t \in Threads |-> "idle"]
    /\ op = [t \in Threads |-> NULL]
    /\ calls = 0
    /\ map = [t \in Threads |-> 0]
    /\ bkt = [t \in Threads |-> 0]
    /\ pos = [t \in Threads |-> 0]
    /\ version = [t \in Threads |-> 0]
    /\ found = [t \in Threads |-> {}]
    /\ needs_resize = [t \in Threads |-> FALSE]
    /\ pend = [t \in Threads |-> {}]
    /\ contents = ToSet(Preset)
    /\ seen = [t \in Threads |-> {}]
    /\ result = [t \in Threads |-> NULL]

(* A thread calls an operation, inside an RCU section or not. *)
Call(t) ==
    /\ pc[t] = "idle" /\ calls < MaxCalls /\ Len(maps) < MaxMaps
    /\ \E o \in Ops :
          /\ op' = Set(op, t, o)
          /\ Goto(t, IF o.kind \in {"resize", "reset_size"} THEN "ht_lock" ELSE "map")
          /\ seen' = Set(seen, t, IF o.kind \in {"lookup", "iter"} THEN {contents} ELSE {})
    /\ calls' = calls + 1
    /\ needs_resize' = Set(needs_resize, t, FALSE)
    /\ result' = Set(result, t, NULL)
    /\ UNCHANGED <<tableVars, map, bkt, pos, version, found, pend, contents>>

(* It returns: its RCU section ends, and the locals are gone. *)
Return(t) ==
    /\ Goto(t, "idle")
    /\ grace' = [m \in DOMAIN grace |-> grace[m] \ {t}]
    /\ op' = Set(op, t, NULL)
    /\ map' = Set(map, t, 0) /\ bkt' = Set(bkt, t, 0) /\ pos' = Set(pos, t, 0)
    /\ version' = Set(version, t, 0) /\ found' = Set(found, t, {})
    /\ needs_resize' = Set(needs_resize, t, FALSE)
    /\ pend' = pend

HeadOf(t) == maps[map[t]].heads[bkt[t]]

(* map = atomic_rcu_read(&ht->map), and the head bucket where there is one. *)
ReadMap(t) ==
    /\ pc[t] = "map"
    /\ map' = Set(map, t, ht_map)
    /\ bkt' = Set(bkt, t, IF op[t].p = NULL THEN 0
                          ELSE qht_map_to_bucket(maps[ht_map], Hash[op[t].p]))
    /\ Goto(t, CASE op[t].kind = "lookup"             -> "begin"
                 [] op[t].kind = "stats"              -> "s_begin"
                 [] op[t].kind \in {"insert", "remove"} -> "lock"
                 [] op[t].kind \in {"reset", "iter"}   -> "lock_all")
    /\ UNCHANGED <<tableVars, calls, op, pos, version, found, needs_resize, pend, histVars>>

-----------------------------------------------------------------------------
(* qht_lookup                                                              *)

(* seqlock_read_begin: an odd number, a write in progress, never matches. *)
ReadBegin(s) == s - (s % 2)

LookupBegin(t) ==
    /\ pc[t] = "begin"
    /\ version' = Set(version, t, ReadBegin(HeadOf(t).sequence))
    /\ pos' = Set(pos, t, 1)
    /\ found' = Set(found, t, {})
    /\ Goto(t, "hash")
    /\ UNCHANGED <<tableVars, calls, op, map, bkt, needs_resize, pend, histVars>>

AfterSlot(t, next, slot) ==
    IF pos[t] % QHT_BUCKET_ENTRIES = 0
    THEN Goto(t, next) /\ UNCHANGED pos
    ELSE Goto(t, slot) /\ pos' = Set(pos, t, pos[t] + 1)

(* b->hashes[i] == hash? *)
LookupHash(t) ==
    /\ pc[t] = "hash"
    /\ IF HeadOf(t).slots[pos[t]].h = Hash[op[t].p]
       THEN Goto(t, "ptr") /\ UNCHANGED pos
       ELSE AfterSlot(t, "next", "hash")
    /\ UNCHANGED <<tableVars, calls, op, map, bkt, version, found, needs_resize, pend, histVars>>

(* b->pointers[i] is the one the caller looks for? *)
LookupPointer(t) ==
    /\ pc[t] = "ptr"
    /\ IF HeadOf(t).slots[pos[t]].p = op[t].p
       THEN /\ found' = Set(found, t, {op[t].p})
            /\ Goto(t, "retry") /\ UNCHANGED pos
       ELSE AfterSlot(t, "next", "hash") /\ UNCHANGED found
    /\ UNCHANGED <<tableVars, calls, op, map, bkt, version, needs_resize, pend, histVars>>

(* b = b->next *)
LookupNext(t) ==
    /\ pc[t] = "next"
    /\ IF pos[t] < HeadOf(t).linked
       THEN Goto(t, "hash") /\ pos' = Set(pos, t, pos[t] + 1)
       ELSE Goto(t, "retry") /\ UNCHANGED pos
    /\ UNCHANGED <<tableVars, calls, op, map, bkt, version, found, needs_resize, pend, histVars>>

MutReadRetry(s, start) == FALSE
(* seqlock_read_retry *)
ReadRetry(s, start) == s # start

LookupRetry(t) ==
    /\ pc[t] = "retry" /\ ReadRetry(HeadOf(t).sequence, version[t])
    /\ Goto(t, "begin")
    /\ UNCHANGED <<tableVars, calls, localVars, histVars>>

LookupReturn(t) ==
    /\ pc[t] = "retry" /\ ~ ReadRetry(HeadOf(t).sequence, version[t])
    /\ result' = Set(result, t, found[t])
    /\ seen' = Set(seen, t, {})
    /\ Return(t)
    /\ UNCHANGED <<maps, ht_map, ht_lock, freed, calls, contents>>

Lookup(t) ==
    \/ LookupBegin(t) \/ LookupHash(t) \/ LookupPointer(t) \/ LookupNext(t)
    \/ LookupRetry(t) \/ LookupReturn(t)

-----------------------------------------------------------------------------
(* qht_statistics_init: bucket after bucket, each walked as in a lookup,   *)
(* without looking at what the pointers point to.                          *)

StatsBegin(t) ==
    /\ pc[t] = "s_begin"
    /\ version' = Set(version, t, ReadBegin(HeadOf(t).sequence))
    /\ pos' = Set(pos, t, 1)
    /\ Goto(t, "s_ptr")
    /\ UNCHANGED <<tableVars, calls, op, map, bkt, found, needs_resize, pend, histVars>>

(* A NULL pointer ends the walk of this bucket, not of the chain. *)
StatsPointer(t) ==
    /\ pc[t] = "s_ptr"
    /\ IF HeadOf(t).slots[pos[t]].p = NULL
       THEN Goto(t, "s_next") /\ pos' = Set(pos, t, Room(pos[t]))
       ELSE AfterSlot(t, "s_next", "s_ptr")
    /\ UNCHANGED <<tableVars, calls, op, map, bkt, version, found, needs_resize, pend, histVars>>

StatsNext(t) ==
    /\ pc[t] = "s_next"
    /\ IF pos[t] < HeadOf(t).linked
       THEN Goto(t, "s_ptr") /\ pos' = Set(pos, t, pos[t] + 1)
       ELSE Goto(t, "s_retry") /\ UNCHANGED pos
    /\ UNCHANGED <<tableVars, calls, op, map, bkt, version, found, needs_resize, pend, histVars>>

StatsRetry(t) ==
    /\ pc[t] = "s_retry"
    /\ IF ReadRetry(HeadOf(t).sequence, version[t])
       THEN Goto(t, "s_begin") /\ UNCHANGED <<grace, localVars>>
       ELSE IF bkt[t] + 1 < maps[map[t]].n_buckets
       THEN /\ Goto(t, "s_begin")
            /\ bkt' = Set(bkt, t, bkt[t] + 1)
            /\ UNCHANGED <<grace, op, map, pos, version, found, needs_resize, pend>>
       ELSE Return(t)
    /\ UNCHANGED <<maps, ht_map, ht_lock, freed, calls, histVars>>

Stats(t) == StatsBegin(t) \/ StatsPointer(t) \/ StatsNext(t) \/ StatsRetry(t)

-----------------------------------------------------------------------------
(* qht_insert and qht_remove                                               *)

(* qht_bucket_lock__no_stale: the lock of the bucket, given back when the  *)
(* map turns out to be stale.                                              *)
LockBucket(t) ==
    /\ pc[t] = "lock" /\ HeadOf(t).lock = NULL
    /\ IF Stale(map[t])
       THEN /\ Goto(t, "slow")
            /\ map' = Set(map, t, 0)
            /\ UNCHANGED maps
       ELSE /\ maps' = [maps EXCEPT ![map[t]].heads[bkt[t]].lock = t]
            /\ Goto(t, "work")
            /\ UNCHANGED map
    /\ UNCHANGED <<ht_map, ht_lock, grace, freed, calls, op, bkt, pos, version, found,
                   needs_resize, pend, histVars>>

(* Raced with a resize: take ht->lock and read ht->map again ... *)
SlowMap(t) ==
    /\ pc[t] = "slow" /\ ht_lock = NULL
    /\ ht_lock' = t
    /\ map' = Set(map, t, ht_map)
    /\ bkt' = Set(bkt, t, IF op[t].p = NULL THEN 0
                          ELSE qht_map_to_bucket(maps[ht_map], Hash[op[t].p]))
    /\ Goto(t, IF op[t].kind = "reset" THEN "lock_all" ELSE "slow_lock")
    /\ UNCHANGED <<maps, ht_map, grace, freed, calls, op, pos, version, found, needs_resize,
                   pend, histVars>>

(* ... lock the bucket, and only then release ht->lock. *)
SlowLock(t) ==
    /\ pc[t] = "slow_lock" /\ HeadOf(t).lock = NULL
    /\ maps' = [maps EXCEPT ![map[t]].heads[bkt[t]].lock = t]
    /\ ht_lock' = NULL
    /\ Goto(t, "work")
    /\ UNCHANGED <<ht_map, grace, freed, calls, localVars, histVars>>

Store(f, i, v) == [f |-> f, i |-> i, v |-> v]
SetSlot(i, h, p) == {Store("h", i, h), Store("p", i, p)}

(* The slots reached once the bucket that starts with slot i is linked. *)
LinkedWith(i) == i + QHT_BUCKET_ENTRIES - 1

(* seqlock_write_begin; a chain that is full gets one more bucket. *)
Begun(head, full) ==
    [head EXCEPT !.sequence = @ + 1, !.slots = IF full THEN @ \o EmptyBucket ELSE @]
BeginInsert(m, b, full) ==
    [m EXCEPT !.heads[b] = Begun(@, full), !.n_added = IF full THEN @ + 1 ELSE @]

(* qht_insert__locked: nothing to do when the pointer is there; otherwise  *)
(* begin to write to the first free slot, in a new bucket if need be.      *)
InsertLocked(t) ==
    LET head == HeadOf(t)
        p    == op[t].p
        i    == FirstFree(head.slots, 1)
        full == i > Len(head.slots)
    IN
    /\ pc[t] = "work" /\ op[t].kind = "insert"
    /\ IF \E j \in 1 .. i - 1 : head.slots[j].p = p
       THEN /\ result' = Set(result, t, {})
            /\ Goto(t, "unlock")
            /\ UNCHANGED <<maps, needs_resize, pend, contents, seen>>
       ELSE /\ maps' = [maps EXCEPT ![map[t]] = BeginInsert(@, bkt[t], full)]
            /\ needs_resize' = Set(needs_resize, t, full /\ qht_map_needs_resize(maps'[map[t]]))
            /\ pend' = Set(pend, t, SetSlot(i, Hash[p], p)
                  \cup (IF full THEN {Store("next", i, LinkedWith(i))} ELSE {}))
            /\ Become(contents \cup {p})
            /\ result' = Set(result, t, {p})
            /\ Goto(t, "store")
    /\ UNCHANGED <<ht_map, ht_lock, grace, freed, calls, op, map, bkt, pos, version, found>>

qht_entry_is_last(slots, i) == i = Len(slots) \/ slots[i + 1].p = NULL

(* The last valid entry, looked for from the bucket of slot i on. *)
LastEntry(slots, i) == FirstFree(slots, Room(i) - QHT_BUCKET_ENTRIES + 1) - 1

MutRemoveEntry(slots, i) == SetSlot(i, 0, NULL)
(* qht_bucket_remove_entry: the last entry takes the place of slot i. *)
RemoveEntry(slots, i) ==
    IF qht_entry_is_last(slots, i) THEN SetSlot(i, 0, NULL)
    ELSE LET j == LastEntry(slots, i)
         IN SetSlot(i, slots[j].h, slots[j].p) \cup SetSlot(j, 0, NULL)

(* qht_remove__locked *)
RemoveLocked(t) ==
    LET head == HeadOf(t)
        at   == {j \in Chain(head.slots) : head.slots[j].p = op[t].p}
    IN
    /\ pc[t] = "work" /\ op[t].kind = "remove"
    /\ IF at = {}
       THEN /\ result' = Set(result, t, {})
            /\ Goto(t, "unlock")
            /\ UNCHANGED <<maps, pend, contents, seen>>
       ELSE /\ maps' = [maps EXCEPT ![map[t]].heads[bkt[t]].sequence = @ + 1]
            /\ pend' = Set(pend, t, RemoveEntry(head.slots, Min(at)))
            /\ Become(contents \ {op[t].p})
            /\ result' = Set(result, t, {op[t].p})
            /\ Goto(t, "store")
    /\ UNCHANGED <<ht_map, ht_lock, grace, freed, calls, op, map, bkt, pos, version, found,
                   needs_resize>>

(* One of the stores takes effect. *)
DoStore(t) ==
    /\ pc[t] = "store"
    /\ \E s \in pend[t] :
          /\ pend' = Set(pend, t, pend[t] \ {s})
          /\ maps' = [maps EXCEPT ![map[t]].heads[bkt[t]] =
                CASE s.f = "h"    -> [@ EXCEPT !.slots[s.i].h = s.v]
                  [] s.f = "p"    -> [@ EXCEPT !.slots[s.i].p = s.v]
                  [] s.f = "next" -> [@ EXCEPT !.linked = s.v]]
    /\ UNCHANGED <<ht_map, ht_lock, grace, freed, pc, calls, op, map, bkt, pos, version,
                   found, needs_resize, histVars>>

(* seqlock_write_end; a reset goes on with its next bucket. *)
WriteEnd(t) ==
    /\ pc[t] = "store" /\ pend[t] = {}
    /\ maps' = [maps EXCEPT ![map[t]].heads[bkt[t]].sequence = @ + 1]
    /\ IF op[t].kind \in {"insert", "remove"}
       THEN Goto(t, "unlock") /\ UNCHANGED bkt
       ELSE Goto(t, "reset") /\ bkt' = Set(bkt, t, bkt[t] + 1)
    /\ UNCHANGED <<ht_map, ht_lock, grace, freed, calls, op, map, pos, version, found,
                   needs_resize, pend, histVars>>

(* Unlock the bucket, and grow the table if it was the last straw. *)
UnlockBucket(t) ==
    /\ pc[t] = "unlock"
    /\ maps' = [maps EXCEPT ![map[t]].heads[bkt[t]].lock = NULL]
    /\ IF needs_resize[t] /\ AutoResize
       THEN /\ Goto(t, "grow")
            /\ map' = Set(map, t, 0)
            /\ UNCHANGED <<grace, op, bkt, pos, version, found, needs_resize, pend>>
       ELSE Return(t)
    /\ UNCHANGED <<ht_map, ht_lock, freed, calls, histVars>>

Write(t) ==
    \/ InsertLocked(t) \/ RemoveLocked(t) \/ DoStore(t) \/ WriteEnd(t) \/ UnlockBucket(t)

-----------------------------------------------------------------------------
(* Resizing, and what else takes all bucket locks.                         *)

NewBuckets(t) ==
    IF op[t].kind = "insert" THEN 2 * maps[map[t]].n_buckets
    ELSE qht_elems_to_buckets(op[t].n)

(* qht_resize and qht_reset_size take ht->lock. *)
HtLock(t) ==
    /\ pc[t] = "ht_lock" /\ ht_lock = NULL
    /\ ht_lock' = t
    /\ map' = Set(map, t, ht_map)
    /\ bkt' = Set(bkt, t, 0)
    /\ Goto(t, IF \/ op[t].kind = "reset_size"
                  \/ qht_elems_to_buckets(op[t].n) # maps[ht_map].n_buckets
               THEN "lock_all" ELSE "ht_unlock")
    /\ UNCHANGED <<maps, ht_map, grace, freed, calls, op, pos, version, found, needs_resize,
                   pend, histVars>>

(* Another thread might have just performed the resize we were after. *)
GrowNeeded == qht_map_needs_resize(maps[ht_map])

(* qht_grow_maybe: give up when ht->lock is taken. *)
GrowMaybe(t) ==
    /\ pc[t] = "grow" /\ ht_lock = NULL
    /\ ht_lock' = t
    /\ map' = Set(map, t, ht_map)
    /\ bkt' = Set(bkt, t, 0)
    /\ Goto(t, IF GrowNeeded THEN "lock_all" ELSE "ht_unlock")
    /\ UNCHANGED <<maps, ht_map, grace, freed, calls, op, pos, version, found, needs_resize,
                   pend, histVars>>

GrowBusy(t) ==
    /\ pc[t] = "grow" /\ ht_lock # NULL
    /\ Return(t)
    /\ UNCHANGED <<maps, ht_map, ht_lock, freed, calls, histVars>>

MutNextToLock(t) ==
    IF op[t].kind = "reset" THEN maps[map[t]].n_buckets - 1 - bkt[t] ELSE bkt[t]
(* qht_map_lock_buckets goes from the first bucket to the last. *)
NextToLock(t) == bkt[t]

LockAll(t) ==
    /\ pc[t] = "lock_all" /\ bkt[t] < maps[map[t]].n_buckets
    /\ maps[map[t]].heads[NextToLock(t)].lock = NULL
    /\ maps' = [maps EXCEPT ![map[t]].heads[NextToLock(t)].lock = t]
    /\ bkt' = Set(bkt, t, bkt[t] + 1)
    /\ UNCHANGED <<ht_map, ht_lock, grace, freed, pc, calls, op, map, pos, version, found,
                   needs_resize, pend, histVars>>

(* All locked.  qht_reset checks that the map is not stale unless it took  *)
(* ht->lock for it, which it releases; qht_iter does not check.            *)
AllLocked(t) ==
    /\ pc[t] = "lock_all" /\ bkt[t] = maps[map[t]].n_buckets
    /\ bkt' = Set(bkt, t, 0)
    /\ CASE op[t].kind = "iter" -> Goto(t, "visit") /\ UNCHANGED ht_lock
         [] op[t].kind = "reset_size" -> Goto(t, "reset") /\ UNCHANGED ht_lock
         [] op[t].kind \in {"resize", "insert"} -> Goto(t, "copy") /\ UNCHANGED ht_lock
         [] op[t].kind = "reset" /\ ht_lock = t -> Goto(t, "reset") /\ ht_lock' = NULL
         [] op[t].kind = "reset" /\ ht_lock # t ->
               /\ Goto(t, IF Stale(map[t]) THEN "unlock_stale" ELSE "reset")
               /\ UNCHANGED ht_lock
    /\ UNCHANGED <<maps, ht_map, grace, freed, calls, op, map, pos, version, found,
                   needs_resize, pend, histVars>>

(* qht_bucket_reset__locked *)
ResetBucket(t) ==
    LET slots == HeadOf(t).slots IN
    /\ pc[t] = "reset" /\ bkt[t] < maps[map[t]].n_buckets
    /\ maps' = [maps EXCEPT ![map[t]].heads[bkt[t]].sequence = @ + 1]
    /\ pend' = Set(pend, t, UNION {SetSlot(i, 0, NULL) : i \in Chain(slots)})
    /\ Become(contents \ {slots[i].p : i \in Chain(slots)})
    /\ Goto(t, "store")
    /\ UNCHANGED <<ht_map, ht_lock, grace, freed, calls, op, map, bkt, pos, version, found,
                   needs_resize, result>>

ResetDone(t) ==
    /\ pc[t] = "reset" /\ bkt[t] = maps[map[t]].n_buckets
    /\ bkt' = Set(bkt, t, 0)
    /\ Goto(t, IF op[t].kind = "reset_size" /\ NewBuckets(t) # maps[map[t]].n_buckets
               THEN "copy" ELSE "unlock_all")
    /\ UNCHANGED <<tableVars, calls, op, map, pos, version, found, needs_resize, pend, histVars>>

(* qht_iter calls its function for every entry of the map it has locked. *)
Visit(t) ==
    /\ pc[t] = "visit"
    /\ result' = Set(result, t, {e.p : e \in Range(AllEntries(maps[map[t]]))})
    /\ seen' = Set(seen, t, {})
    /\ Goto(t, "unlock_all")
    /\ UNCHANGED <<tableVars, calls, localVars, contents>>

(* qht_do_resize: copy and publish; nobody sees the new map before. *)
Copy(t) ==
    /\ pc[t] = "copy"
    /\ maps' = Append(maps, Filled(AllEntries(maps[map[t]]), NewBuckets(t)))
    /\ ht_map' = Len(maps) + 1
    /\ Goto(t, "retire")
    /\ UNCHANGED <<ht_lock, grace, freed, calls, localVars, histVars>>

MutPreExisting == {}
(* The RCU sections that a grace period beginning now waits for. *)
PreExisting == {u \in Threads : InRCU(u)}

(* call_rcu(old, qht_map_destroy, rcu) *)
Retire(t) ==
    /\ pc[t] = "retire"
    /\ grace' = [m \in DOMAIN grace \cup {map[t]} |->
                    IF m = map[t] THEN PreExisting ELSE grace[m]]
    /\ Goto(t, "unlock_all")
    /\ UNCHANGED <<maps, ht_map, ht_lock, freed, calls, localVars, histVars>>

(* qht_map_unlock_buckets *)
UnlockAll(t) ==
    /\ pc[t] \in {"unlock_all", "unlock_stale"} /\ bkt[t] < maps[map[t]].n_buckets
    /\ maps' = [maps EXCEPT ![map[t]].heads[bkt[t]].lock = NULL]
    /\ bkt' = Set(bkt, t, bkt[t] + 1)
    /\ UNCHANGED <<ht_map, ht_lock, grace, freed, pc, calls, op, map, pos, version, found,
                   needs_resize, pend, histVars>>

AllUnlocked(t) ==
    /\ pc[t] \in {"unlock_all", "unlock_stale"} /\ bkt[t] = maps[map[t]].n_buckets
    /\ IF pc[t] = "unlock_all" /\ ht_lock # t THEN Return(t)
       ELSE /\ Goto(t, IF pc[t] = "unlock_stale" THEN "slow" ELSE "ht_unlock")
            /\ map' = Set(map, t, 0)
            /\ UNCHANGED <<grace, op, bkt, pos, version, found, needs_resize, pend>>
    /\ UNCHANGED <<maps, ht_map, ht_lock, freed, calls, histVars>>

HtUnlock(t) ==
    /\ pc[t] = "ht_unlock"
    /\ ht_lock' = NULL
    /\ Return(t)
    /\ UNCHANGED <<maps, ht_map, freed, calls, histVars>>

WithAllLocks(t) ==
    \/ LockAll(t) \/ AllLocked(t) \/ ResetBucket(t) \/ ResetDone(t) \/ Visit(t)
    \/ Copy(t) \/ Retire(t) \/ UnlockAll(t) \/ AllUnlocked(t)

(* The grace period is over: qht_map_destroy. *)
Reclaim(m) ==
    /\ m \in DOMAIN grace \ freed /\ grace[m] = {}
    /\ freed' = freed \cup {m}
    /\ UNCHANGED <<maps, ht_map, ht_lock, grace, pc, calls, localVars, histVars>>

-----------------------------------------------------------------------------
(* The steps of a thread inside an operation. *)
Step(t) ==
    \/ ReadMap(t) \/ Lookup(t) \/ Stats(t)
    \/ LockBucket(t) \/ SlowMap(t) \/ SlowLock(t) \/ Write(t)
    \/ HtLock(t) \/ GrowMaybe(t) \/ GrowBusy(t) \/ WithAllLocks(t) \/ HtUnlock(t)

Next ==
    \/ \E t \in Threads : Call(t) \/ Step(t)
    \/ \E m \in DOMAIN grace : Reclaim(m)

Spec == Init /\ [][Next]_vars

(* Threads run, and a lock that becomes free again and again is obtained. *)
FairSpec == Spec /\ \A t \in Threads : SF_vars(Step(t))

-----------------------------------------------------------------------------
(* Properties.                                                             *)

(* The types of the variables. *)
TypeOK ==
    /\ ht_map \in DOMAIN maps
    /\ ht_lock \in Threads \cup {NULL}
    /\ \A m \in DOMAIN maps : \A b \in 0 .. maps[m].n_buckets - 1 :
          LET head == maps[m].heads[b] IN
          /\ head.lock \in Threads \cup {NULL}
          /\ head.sequence \in Nat /\ head.linked <= Len(head.slots)
          /\ \A i \in DOMAIN head.slots :
                head.slots[i] \in [h : {0} \cup Range(Hash), p : Pointers \cup {NULL}]
    /\ freed \subseteq DOMAIN grace /\ DOMAIN grace \subseteq DOMAIN maps
    /\ map \in [Threads -> DOMAIN maps \cup {0}]
    /\ contents \subseteq Pointers

(* A bucket outside a write section holds exactly the pointers of the set  *)
(* that hash to it, once each, with their hashes, and no NULL before the   *)
(* last of them (what qht_bucket_debug__locked looks for): through removals*)
(* that move the last entry, added buckets, resets and resizes.            *)
BucketsExact ==
    \A b \in 0 .. maps[ht_map].n_buckets - 1 :
        LET head  == maps[ht_map].heads[b]
            slots == head.slots
            chain == Chain(slots)
        IN head.sequence % 2 = 0 =>
            /\ head.linked = Len(slots)
            /\ \A i \in DOMAIN slots \ chain : slots[i] = EmptySlot
            /\ \A i, j \in chain : slots[i].p = slots[j].p => i = j
            /\ \A i \in chain : slots[i].h = Hash[slots[i].p]
            /\ {slots[i].p : i \in chain}
                  = {p \in contents : qht_map_to_bucket(maps[ht_map], Hash[p]) = b}

(* Nobody works on a map that has been destroyed: a lookup that found the  *)
(* map before a resize, a writer that finds it stale, the resize itself.   *)
NoFreedMapUsed ==
    \A t \in Threads : map[t] \in freed =>
        pc[t] \in {"unlock_all", "unlock_stale"} /\ bkt[t] = maps[map[t]].n_buckets

(* The table is the set of module QhtSet: lookups and iterations that run  *)
(* together with insertions, removals, resets and resizes answer with the  *)
(* contents at an instant while they ran.                                  *)
Q == INSTANCE QhtSet WITH
    reading <- [t \in Threads |->
        IF seen[t] = {} THEN NULL ELSE IF op[t].kind = "iter" THEN Pointers ELSE {op[t].p}]
ImplementsQhtSet == Q!SetSpec

(* Every operation returns: bucket locks and ht->lock, taken in different  *)
(* orders by writers, resets and resizes, never block each other for good, *)
(* and a lookup does not retry for ever.                                   *)
OperationsReturn == \A t \in Threads : pc[t] # "idle" ~> pc[t] = "idle"
==============================================================================
