------------------------------ MODULE QHTProofs ------------------------------
(***************************************************************************)
(* The hash table, for every number of threads, pointers, buckets, resizes *)
(* and calls: no map is used after it is freed, the buckets hold what they *)
(* should, and the table implements the set of QhtSet.                     *)
(*                                                                         *)
(* Freed maps.  The argument does not need the locks.  A thread takes a    *)
(* map into its hands by reading ht->map, and what ht->map points to was   *)
(* never given to call_rcu; a thread that has a map when it is given to    *)
(* call_rcu is in a read-side section at that moment, and the grace period *)
(* waits for it.                                                           *)
(*                                                                         *)
(* Buckets.  TableInv says which locks a thread holds at each label, and   *)
(* that a writer's map is the current one, since a resize needs all locks. *)
(* DataInv adds the data: a bucket of the current map is Settled, or its   *)
(* writer's remaining stores lead to slots that would be (Toward).         *)
(*                                                                         *)
(* Readers.  ReadInv adds that a replaced map is Frozen with contents that *)
(* everybody who still reads it has seen, and that a lookup whose sequence *)
(* number has not moved did not pass the pointer it looks for (Scanned).   *)
(***************************************************************************)
EXTENDS QHT, TLAPS, FiniteSetTheorems, WellFoundedInduction

(* Every operation is called inside a read-side section, as exec() does    *)
(* it.  The callers that are not are the subject of an observation in the  *)
(* README; for them the conclusion is false.                               *)
AllProtected == Unprotected = {}

Values(s) == {s[i] : i \in DOMAIN s}
IsSeq(s) == s \in Seq(Values(s))

TablesInv ==
    /\ IsSeq(maps) /\ ht_map \in 1 .. Len(maps)
    /\ DOMAIN grace \subseteq 1 .. Len(maps) /\ freed \subseteq DOMAIN grace
    /\ ht_map \notin DOMAIN grace
    /\ DOMAIN pc = Threads /\ DOMAIN op = Threads /\ DOMAIN map = Threads
    /\ needs_resize \in [Threads -> BOOLEAN]

(* Which operations are at which labels. *)
Looking == {"begin", "hash", "ptr", "next", "retry"}
Counting == {"s_begin", "s_ptr", "s_next", "s_retry"}
WriteKinds == {"insert", "remove"}
ResetKinds == {"reset", "reset_size"}
GrowKinds == {"insert", "resize", "reset_size"}

KindInv(t) ==
    /\ pc[t] # "idle" => op[t] \in Ops
    /\ pc[t] = "map" => op[t].kind \notin {"resize", "reset_size"}
    /\ pc[t] \in Looking => op[t].kind = "lookup"
    /\ pc[t] \in Counting => op[t].kind = "stats"
    /\ pc[t] \in {"lock", "slow_lock", "work", "unlock"} => op[t].kind \in WriteKinds
    /\ pc[t] = "store" => op[t].kind \in WriteKinds \cup ResetKinds
    /\ pc[t] = "slow" => op[t].kind \in {"insert", "remove", "reset"}
    /\ pc[t] = "unlock_stale" => op[t].kind = "reset"
    /\ pc[t] = "ht_lock" => op[t].kind \in {"resize", "reset_size"}
    /\ pc[t] \in {"lock_all", "unlock_all"} => op[t].kind \in {"iter", "reset"} \cup GrowKinds
    /\ pc[t] = "reset" => op[t].kind \in ResetKinds
    /\ pc[t] \in {"copy", "retire"} => op[t].kind \in GrowKinds
    /\ pc[t] = "visit" => op[t].kind = "iter"
    /\ pc[t] = "grow" \/ needs_resize[t] => pc[t] # "idle" /\ op[t].kind = "insert"

(* Where a thread has a map, and that ht->map has moved on when it is      *)
(* about to give its map to call_rcu.                                      *)
WithMap == Looking \cup Counting \cup
    {"lock", "slow_lock", "work", "store", "unlock", "lock_all", "visit", "reset", "copy", "retire",
     "unlock_all", "unlock_stale"}

HasMapInv(t) ==
    /\ map[t] \in 0 .. Len(maps)
    /\ pc[t] = "idle" => map[t] = 0
    /\ pc[t] \in WithMap => map[t] # 0
    /\ pc[t] = "retire" => map[t] # ht_map

BaseInv == TablesInv /\ \A t \in Threads : KindInv(t) /\ HasMapInv(t)

(* Whoever has a retired map is waited for by its grace period; nobody is  *)
(* left to wait for when a map is freed.                                   *)
GraceInv ==
    /\ \A t \in Threads : map[t] \in DOMAIN grace => t \in grace[map[t]]
    /\ \A m \in freed : grace[m] = {}

MapInv == BaseInv /\ (AllProtected => GraceInv)

-----------------------------------------------------------------------------
(* Sequences of any kind of value. *)

LEMMA SeqFacts ==
    ASSUME NEW s, IsSeq(s) PROVE Len(s) \in Nat /\ DOMAIN s = 1 .. Len(s)
BY DEF IsSeq

LEMMA SeqFunction ==
    ASSUME NEW n \in Nat, NEW S, NEW r \in [1 .. n -> S] PROVE r \in Seq(S) /\ Len(r) = n
OBVIOUS

LEMMA SeqSame ==
    ASSUME NEW s, NEW r, IsSeq(s), r = [k \in DOMAIN s |-> r[k]]
    PROVE  IsSeq(r) /\ Len(r) = Len(s)
<1>1. Len(s) \in Nat /\ DOMAIN s = 1 .. Len(s)
  BY SeqFacts
<1>2. DOMAIN r = 1 .. Len(s)
  BY <1>1
<1>3. \A k \in 1 .. Len(s) : r[k] \in Values(r)
  BY <1>2 DEF Values
<1>4. r \in [1 .. Len(s) -> Values(r)]
  BY <1>1, <1>2, <1>3
<1> QED
  BY <1>1, <1>4, SeqFunction DEF IsSeq

LEMMA SeqAny == ASSUME NEW S, NEW r \in Seq(S) PROVE IsSeq(r)
<1>1. Len(r) \in Nat /\ DOMAIN r = 1 .. Len(r) /\ r \in [1 .. Len(r) -> S]
  OBVIOUS
<1>2. \A k \in 1 .. Len(r) : r[k] \in Values(r)
  BY <1>1 DEF Values
<1>3. r \in [1 .. Len(r) -> Values(r)]
  BY <1>1, <1>2
<1> QED
  BY <1>1, <1>3, SeqFunction DEF IsSeq

LEMMA SeqAppend ==
    ASSUME NEW s, NEW v, NEW r, IsSeq(s), r = Append(s, v)
    PROVE  IsSeq(r) /\ Len(r) = Len(s) + 1
<1>1. PICK S : S = Values(s) \cup {v}
  OBVIOUS
<1>2. s \in [1 .. Len(s) -> S] /\ Len(s) \in Nat /\ v \in S
  BY <1>1 DEF IsSeq
<1>3. s \in Seq(S)
  BY <1>2, SeqFunction
<1>4. r \in Seq(S) /\ Len(r) = Len(s) + 1
  BY <1>2, <1>3
<1> QED
  BY <1>4, SeqAny

-----------------------------------------------------------------------------
(* A step of one thread that publishes, retires and frees no map. *)

(* The locals of u are the same. *)
Kept(u) == pc'[u] = pc[u] /\ op'[u] = op[u] /\ map'[u] = map[u]
    /\ needs_resize'[u] = needs_resize[u]

(* The maps are the same ones, whatever happens to their buckets. *)
MapsStay == IsSeq(maps') /\ Len(maps') = Len(maps) /\ ht_map' = ht_map /\ freed' = freed

(* A thread keeps its map, reads ht->map, or has none any more; only then  *)
(* can its read-side section end.                                          *)
MapOf(t) ==
    \/ map' = map /\ grace' = grace
    \/ map' = [map EXCEPT ![t] = ht_map] /\ grace' = grace
    \/ /\ map' = [map EXCEPT ![t] = 0]
       /\ grace' = grace \/ grace' = [m \in DOMAIN grace |-> grace[m] \ {t}]

LEMMA LocalStep ==
    ASSUME MapInv, NEW t \in Threads, MapsStay, MapOf(t),
           DOMAIN pc' = Threads, DOMAIN op' = Threads, needs_resize' \in [Threads -> BOOLEAN],
           \A u \in Threads : u # t => Kept(u),
           KindInv(t)', HasMapInv(t)'
    PROVE  MapInv'
<1> USE DEF MapInv, BaseInv
<1>1. DOMAIN grace' = DOMAIN grace /\ DOMAIN map' = Threads
  BY DEF MapOf, TablesInv
<1>2. TablesInv'
  BY <1>1 DEF TablesInv, MapsStay
<1>3. ASSUME NEW u \in Threads, u # t PROVE KindInv(u)' /\ HasMapInv(u)'
  <2>1. Kept(u) /\ KindInv(u) /\ HasMapInv(u) /\ MapsStay
    BY <1>3
  <2> QED
    BY <2>1 DEF Kept, KindInv, HasMapInv, MapsStay
<1>4. ASSUME GraceInv PROVE GraceInv'
  <2>2. ASSUME NEW u \in Threads, map'[u] \in DOMAIN grace' PROVE u \in grace'[map'[u]]
    <3>1. 0 \notin DOMAIN grace /\ ht_map \notin DOMAIN grace
      BY SeqFacts DEF TablesInv
    <3>2. map'[u] = map[u]
      BY <1>1, <2>2, <3>1 DEF MapOf, TablesInv, Kept
    <3>3. u \in grace[map[u]]
      BY <1>1, <1>4, <2>2, <3>2 DEF GraceInv
    <3>4. grace' = grace \/ u # t
      BY <1>1, <2>2, <3>1 DEF MapOf, TablesInv
    <3> QED
      BY <1>1, <2>2, <3>2, <3>3, <3>4 DEF MapOf
  <2>3. ASSUME NEW m \in freed' PROVE grace'[m] = {}
    BY <1>4, <2>3 DEF MapOf, MapsStay, GraceInv, TablesInv
  <2> QED
    BY <2>2, <2>3 DEF GraceInv
<1> QED
  BY <1>2, <1>3, <1>4

-----------------------------------------------------------------------------
(* The steps, one group after the other. *)

(* The buckets of one map are written. *)
LEMMA MapsWritten ==
    ASSUME TablesInv, maps' = [k \in DOMAIN maps |-> maps'[k]], ht_map' = ht_map, freed' = freed
    PROVE  MapsStay
BY SeqSame DEF TablesInv, MapsStay

LEMMA MapsFrame ==
    ASSUME TablesInv, UNCHANGED <<maps, ht_map, freed>> PROVE MapsStay
BY DEF TablesInv, MapsStay

LEMMA CallInv == ASSUME MapInv, NEW t \in Threads, Call(t) PROVE MapInv'
<1> USE DEF MapInv, BaseInv, TablesInv
<1>1. MapsStay
  BY MapsFrame DEF Call, tableVars
<1>2. \A u \in Threads : u # t => Kept(u)
  BY DEF Call, Set, Goto, Kept
<1>3. KindInv(t)' /\ HasMapInv(t)'
  BY DEF Call, Set, Goto, KindInv, HasMapInv, WithMap, Looking, Counting, WriteKinds, ResetKinds,
     GrowKinds, tableVars
<1> QED
  BY <1>1, <1>2, <1>3, LocalStep DEF Call, Set, Goto, MapOf, tableVars

LEMMA ReadMapInv == ASSUME MapInv, NEW t \in Threads, ReadMap(t) PROVE MapInv'
<1> USE DEF MapInv, BaseInv, TablesInv
<1>1. MapsStay
  BY MapsFrame DEF ReadMap, tableVars
<1>2. \A u \in Threads : u # t => Kept(u)
  BY DEF ReadMap, Set, Goto, Kept
<1>3. op[t].kind \in {"lookup", "stats", "insert", "remove", "reset", "iter"}
  BY QHTAssumption DEF ReadMap, KindInv, Kinds
<1>4. KindInv(t)' /\ HasMapInv(t)'
  BY <1>3, SeqFacts DEF ReadMap, Set, Goto, KindInv, HasMapInv, WithMap, Looking, Counting,
                        WriteKinds, ResetKinds, GrowKinds, tableVars
<1> QED
  BY <1>1, <1>2, <1>4, LocalStep DEF ReadMap, Set, Goto, MapOf, tableVars

LEMMA ReturnInv == ASSUME MapInv, NEW t \in Threads, Return(t), MapsStay PROVE MapInv'
<1> USE DEF MapInv, BaseInv, TablesInv
<1>1. \A u \in Threads : u # t => Kept(u)
  BY DEF Return, Set, Goto, Kept
<1>2. KindInv(t)' /\ HasMapInv(t)'
  BY SeqFacts DEF Return, Set, Goto, KindInv, HasMapInv, WithMap, Looking, Counting, WriteKinds,
                  ResetKinds, GrowKinds, MapsStay
<1> QED
  BY <1>1, <1>2, LocalStep DEF Return, Set, Goto, MapOf

(* A thread goes on with its operation and the map it has. *)
LEMMA GoOnInv ==
    ASSUME MapInv, NEW t \in Threads, NEW l, MapsStay, UNCHANGED <<op, map, needs_resize, grace>>,
           Goto(t, l),
           (pc[t] \in Looking /\ l \in Looking) \/ (pc[t] \in Counting /\ l \in Counting)
    PROVE  MapInv'
<1> USE DEF MapInv, BaseInv, TablesInv
<1>1. \A u \in Threads : u # t => Kept(u)
  BY DEF Goto, Kept
<1>2. KindInv(t)' /\ HasMapInv(t)'
  BY DEF Goto, KindInv, HasMapInv, MapsStay, WithMap, Looking, Counting
<1> QED
  BY <1>1, <1>2, LocalStep DEF Goto, MapOf

LEMMA LookupInv == ASSUME MapInv, NEW t \in Threads, Lookup(t) PROVE MapInv'
<1>1. MapsStay
  BY MapsFrame DEF MapInv, BaseInv, Lookup, LookupBegin, LookupHash, LookupPointer, LookupNext,
                   LookupRetry,
                   LookupReturn, tableVars
<1>2. CASE LookupReturn(t)
  BY <1>1, <1>2, ReturnInv DEF LookupReturn
<1>3. CASE ~ LookupReturn(t)
  <2>1. PICK l \in Looking : Goto(t, l)
    BY <1>3 DEF Looking, Lookup, LookupBegin, LookupHash, LookupPointer, LookupNext, LookupRetry,
                AfterSlot
  <2>2. UNCHANGED <<op, map, needs_resize, grace>> /\ pc[t] \in Looking
    BY <1>3 DEF Looking, Lookup, LookupBegin, LookupHash, LookupPointer, LookupNext, LookupRetry,
                tableVars, localVars
  <2> QED
    BY <1>1, <2>1, <2>2, GoOnInv
<1> QED
  BY <1>2, <1>3

LEMMA StatsInv == ASSUME MapInv, NEW t \in Threads, Stats(t) PROVE MapInv'
<1>1. MapsStay
  BY MapsFrame DEF MapInv, BaseInv, Stats, StatsBegin, StatsPointer, StatsNext, StatsRetry,
                   tableVars
<1>2. CASE Return(t)
  BY <1>1, <1>2, ReturnInv
<1>3. CASE ~ Return(t)
  <2>1. PICK l \in Counting : Goto(t, l)
    BY <1>3 DEF Counting, Stats, StatsBegin, StatsPointer, StatsNext, StatsRetry, AfterSlot
  <2>2. UNCHANGED <<op, map, needs_resize, grace>> /\ pc[t] \in Counting
    BY <1>3 DEF Counting, Stats, StatsBegin, StatsPointer, StatsNext, StatsRetry, tableVars,
                localVars
  <2> QED
    BY <1>1, <2>1, <2>2, GoOnInv
<1> QED
  BY <1>2, <1>3

(* qht_bucket_lock__no_stale *)
LEMMA LockInv ==
    ASSUME MapInv, NEW t \in Threads, LockBucket(t) \/ SlowMap(t) \/ SlowLock(t) PROVE MapInv'
<1> USE DEF MapInv, BaseInv, TablesInv
<1>1. MapsStay
  <2>1. maps' = [k \in DOMAIN maps |-> maps'[k]] \/ maps' = maps
    BY DEF LockBucket, SlowMap, SlowLock
  <2>2. ht_map' = ht_map /\ freed' = freed
    BY DEF LockBucket, SlowMap, SlowLock
  <2> QED
    BY <2>1, <2>2, MapsWritten, MapsFrame
<1>2. \A u \in Threads : u # t => Kept(u)
  BY DEF LockBucket, SlowMap, SlowLock, Set, Goto, Kept, localVars
<1>3. KindInv(t)' /\ HasMapInv(t)'
  BY <1>1, SeqFacts DEF LockBucket, SlowMap, SlowLock, Set, Goto, KindInv, HasMapInv, WithMap,
                        Looking, Counting, WriteKinds, ResetKinds, GrowKinds,
                        MapsStay, localVars
<1> QED
  BY <1>1, <1>2, <1>3, LocalStep DEF LockBucket, SlowMap, SlowLock, Set, Goto, MapOf, localVars

(* qht_insert__locked, qht_remove__locked and their stores. *)
LEMMA WriteInv == ASSUME MapInv, NEW t \in Threads, Write(t) PROVE MapInv'
<1> USE DEF MapInv, BaseInv, TablesInv
<1>1. MapsStay
  <2>1. maps' = [k \in DOMAIN maps |-> maps'[k]] \/ maps' = maps
    BY DEF Write, InsertLocked, RemoveLocked, DoStore, WriteEnd, UnlockBucket
  <2>2. ht_map' = ht_map /\ freed' = freed
    BY DEF Write, InsertLocked, RemoveLocked, DoStore, WriteEnd, UnlockBucket
  <2> QED
    BY <2>1, <2>2, MapsWritten, MapsFrame
<1>2. CASE InsertLocked(t)
  <2>1. PICK l \in {"unlock", "store"} : Goto(t, l)
    BY <1>2 DEF InsertLocked
  <2>2. PICK r \in BOOLEAN : needs_resize' = [needs_resize EXCEPT ![t] = r]
    BY <1>2 DEF InsertLocked, Set, qht_map_needs_resize
  <2>3. UNCHANGED <<op, map, grace>> /\ pc[t] = "work" /\ op[t].kind = "insert"
    BY <1>2 DEF InsertLocked
  <2>4. \A u \in Threads : u # t => Kept(u)
    BY <2>1, <2>2, <2>3 DEF Goto, Kept
  <2>5. KindInv(t)' /\ HasMapInv(t)'
    BY <1>1, <2>1, <2>2, <2>3 DEF Goto, KindInv, HasMapInv, WithMap, Looking, Counting, WriteKinds,
                                  ResetKinds, GrowKinds, MapsStay
  <2> QED
    BY <1>1, <2>1, <2>2, <2>3, <2>4, <2>5, LocalStep DEF Goto, MapOf
<1>3. CASE RemoveLocked(t) \/ DoStore(t) \/ WriteEnd(t)
  <2>1. /\ DOMAIN pc' = Threads /\ \A u \in Threads : u # t => pc'[u] = pc[u]
        /\ pc'[t] \in {"unlock", "store", "reset"}
        /\ pc'[t] = "unlock" => op[t].kind \in WriteKinds
        /\ pc'[t] = "store" => op[t].kind \in WriteKinds \cup ResetKinds
        /\ pc'[t] = "reset" => op[t].kind \in ResetKinds
    BY <1>3 DEF RemoveLocked, DoStore, WriteEnd, Goto, KindInv, WriteKinds, ResetKinds
  <2>2. UNCHANGED <<op, map, grace, needs_resize>> /\ pc[t] \in {"work", "store"}
    BY <1>3 DEF RemoveLocked, DoStore, WriteEnd
  <2>3. \A u \in Threads : u # t => Kept(u)
    BY <2>1, <2>2 DEF Kept
  <2>4. KindInv(t)' /\ HasMapInv(t)'
    BY <1>1, <2>1, <2>2 DEF KindInv, HasMapInv, WithMap, Looking, Counting, WriteKinds, ResetKinds,
                            GrowKinds, MapsStay
  <2> QED
    BY <1>1, <2>1, <2>2, <2>3, <2>4, LocalStep DEF MapOf
<1>4. CASE UnlockBucket(t)
  <2>1. CASE Return(t)
    BY <1>1, <2>1, ReturnInv
  <2>2. CASE ~ Return(t)
    <3>1. /\ needs_resize[t] /\ Goto(t, "grow") /\ map' = Set(map, t, 0)
          /\ UNCHANGED <<grace, op, needs_resize>>
      BY <1>4, <2>2 DEF UnlockBucket
    <3>2. \A u \in Threads : u # t => Kept(u)
      BY <3>1 DEF Goto, Set, Kept
    <3>3. KindInv(t)' /\ HasMapInv(t)'
      BY <1>1, <3>1, SeqFacts DEF Goto, Set, KindInv, HasMapInv, WithMap, Looking, Counting,
                                  WriteKinds, ResetKinds, GrowKinds, MapsStay
    <3> QED
      BY <1>1, <3>1, <3>2, <3>3, LocalStep DEF Goto, Set, MapOf
  <2> QED
    BY <2>1, <2>2
<1> QED
  BY <1>2, <1>3, <1>4 DEF Write

(* ht->lock *)
LEMMA HtLockInv ==
    ASSUME MapInv, NEW t \in Threads, HtLock(t) \/ GrowMaybe(t) \/ GrowBusy(t) \/ HtUnlock(t)
    PROVE  MapInv'
<1> USE DEF MapInv, BaseInv, TablesInv
<1>1. MapsStay
  BY MapsFrame DEF HtLock, GrowMaybe, GrowBusy, HtUnlock
<1>2. CASE HtLock(t) \/ GrowMaybe(t)
  <2>1. PICK l \in {"lock_all", "ht_unlock"} : Goto(t, l)
    BY <1>2 DEF HtLock, GrowMaybe
  <2>2. /\ UNCHANGED <<op, grace, needs_resize>> /\ pc[t] \in {"ht_lock", "grow"}
        /\ map' = Set(map, t, ht_map)
    BY <1>2 DEF HtLock, GrowMaybe
  <2>3. \A u \in Threads : u # t => Kept(u)
    BY <2>1, <2>2 DEF Goto, Set, Kept
  <2>4. KindInv(t)' /\ HasMapInv(t)'
    BY <1>1, <2>1, <2>2, SeqFacts DEF Goto, Set, KindInv, HasMapInv, WithMap, Looking, Counting,
                                      WriteKinds, ResetKinds, GrowKinds, MapsStay
  <2> QED
    BY <1>1, <2>1, <2>2, <2>3, <2>4, LocalStep DEF Goto, Set, MapOf
<1>3. CASE GrowBusy(t) \/ HtUnlock(t)
  BY <1>1, <1>3, ReturnInv DEF GrowBusy, HtUnlock
<1> QED
  BY <1>2, <1>3

(* A new map is published: it is no map that was ever retired. *)
LEMMA CopyInv == ASSUME MapInv, NEW t \in Threads, Copy(t) PROVE MapInv'
<1> USE DEF MapInv, BaseInv
<1>1. IsSeq(maps') /\ Len(maps') = Len(maps) + 1 /\ ht_map' = Len(maps) + 1 /\ Len(maps) \in Nat
  <2>1. PICK v : maps' = Append(maps, v)
    BY DEF Copy
  <2> QED
    BY <2>1, SeqAppend, SeqFacts DEF Copy, TablesInv
<1>2. /\ pc' = [pc EXCEPT ![t] = "retire"] /\ pc[t] = "copy"
      /\ UNCHANGED <<grace, freed, op, map, needs_resize>>
  BY DEF Copy, Goto, localVars
<1>3. TablesInv'
  BY <1>1, <1>2 DEF TablesInv
<1>4. ASSUME NEW u \in Threads PROVE KindInv(u)' /\ HasMapInv(u)'
  BY <1>1, <1>2 DEF KindInv, HasMapInv, WithMap, Looking, Counting, WriteKinds, ResetKinds,
                    GrowKinds, TablesInv
<1>5. GraceInv => GraceInv'
  BY <1>1, <1>2 DEF GraceInv, TablesInv
<1> QED
  BY <1>3, <1>4, <1>5

(* A map is given to call_rcu: whoever has it is in a read-side section.   *)
LEMMA RetireInv == ASSUME MapInv, NEW t \in Threads, Retire(t) PROVE MapInv'
<1> USE DEF MapInv, BaseInv
<1>1. /\ pc' = [pc EXCEPT ![t] = "unlock_all"] /\ pc[t] = "retire"
      /\ UNCHANGED <<maps, ht_map, freed, op, map, needs_resize>>
  BY DEF Retire, Goto, localVars
<1>2. /\ DOMAIN grace' = DOMAIN grace \cup {map[t]}
      /\ grace'[map[t]] = PreExisting
      /\ \A m \in DOMAIN grace : m # map[t] => grace'[m] = grace[m]
  BY DEF Retire
<1>3. map[t] \in 1 .. Len(maps) /\ map[t] # ht_map
  BY <1>1, SeqFacts DEF TablesInv, HasMapInv, WithMap
<1>4. TablesInv'
  BY <1>1, <1>2, <1>3 DEF TablesInv
<1>5. ASSUME NEW u \in Threads PROVE KindInv(u)' /\ HasMapInv(u)'
  BY <1>1 DEF KindInv, HasMapInv, WithMap, Looking, Counting, WriteKinds, ResetKinds, GrowKinds,
              TablesInv
<1>6. ASSUME AllProtected, GraceInv, NEW u \in Threads, map[u] \in DOMAIN grace'
      PROVE  u \in grace'[map[u]]
  <2>1. CASE map[u] = map[t]
    <3>1. pc[u] # "idle"
      BY <1>3, <2>1 DEF HasMapInv
    <3> QED
      BY <1>2, <1>6, <2>1, <3>1 DEF PreExisting, InRCU, AllProtected
  <2>2. CASE map[u] # map[t]
    BY <1>2, <1>6, <2>2 DEF GraceInv
  <2> QED
    BY <2>1, <2>2
<1>7. ASSUME GraceInv, NEW m \in freed PROVE grace'[m] = {}
  <2>1. m \in DOMAIN grace /\ grace[m] = {}
    BY <1>7 DEF TablesInv, GraceInv
  <2>2. m # map[t]
    BY <1>7, <2>1 DEF GraceInv
  <2> QED
    BY <1>2, <2>1, <2>2
<1>8. AllProtected => GraceInv'
  BY <1>1, <1>2, <1>3, <1>6, <1>7 DEF GraceInv
<1> QED
  BY <1>4, <1>5, <1>8

(* The rest of what is done with all bucket locks. *)
LEMMA AllLocksInv ==
    ASSUME MapInv, NEW t \in Threads, WithAllLocks(t), ~ Copy(t), ~ Retire(t) PROVE MapInv'
<1> USE DEF MapInv, BaseInv, TablesInv
<1>1. MapsStay
  <2>1. maps' = [k \in DOMAIN maps |-> maps'[k]] \/ maps' = maps
    BY DEF WithAllLocks, LockAll, AllLocked, ResetBucket, ResetDone, Visit, UnlockAll, AllUnlocked,
           tableVars
  <2>2. ht_map' = ht_map /\ freed' = freed
    BY DEF WithAllLocks, LockAll, AllLocked, ResetBucket, ResetDone, Visit, UnlockAll, AllUnlocked,
           tableVars
  <2> QED
    BY <2>1, <2>2, MapsWritten, MapsFrame
<1>2. CASE LockAll(t) \/ UnlockAll(t)
  <2>1. UNCHANGED <<pc, op, map, grace, needs_resize>>
    BY <1>2 DEF LockAll, UnlockAll
  <2>2. \A u \in Threads : Kept(u)
    BY <2>1 DEF Kept
  <2>3. KindInv(t)' /\ HasMapInv(t)'
    BY <1>1, <2>1 DEF KindInv, HasMapInv, MapsStay
  <2> QED
    BY <1>1, <2>1, <2>2, <2>3, LocalStep DEF MapOf
<1>3. CASE AllLocked(t) \/ ResetBucket(t) \/ ResetDone(t) \/ Visit(t)
  <2>1. PICK l : Goto(t, l) /\ \/ l = "unlock_stale" /\ op[t].kind = "reset"
                               \/ l = "visit" /\ op[t].kind = "iter"
                               \/ l = "unlock_all" /\ op[t].kind \in {"iter"} \cup ResetKinds
                               \/ l \in {"reset", "store"} /\ op[t].kind \in ResetKinds
                               \/ l = "copy" /\ op[t].kind \in GrowKinds
    BY <1>3 DEF AllLocked, ResetBucket, ResetDone, Visit, KindInv, ResetKinds, GrowKinds
  <2>2. UNCHANGED <<op, map, grace, needs_resize>> /\ pc[t] \in {"lock_all", "reset", "visit"}
    BY <1>3 DEF AllLocked, ResetBucket, ResetDone, Visit, tableVars, localVars
  <2>3. \A u \in Threads : u # t => Kept(u)
    BY <2>1, <2>2 DEF Goto, Kept
  <2>4. KindInv(t)' /\ HasMapInv(t)'
    BY <1>1, <2>1, <2>2 DEF Goto, KindInv, HasMapInv, WithMap, Looking, Counting, WriteKinds,
                            ResetKinds, GrowKinds, MapsStay
  <2> QED
    BY <1>1, <2>1, <2>2, <2>3, <2>4, LocalStep DEF Goto, MapOf
<1>4. CASE AllUnlocked(t)
  <2>1. CASE Return(t)
    BY <1>1, <2>1, ReturnInv
  <2>2. CASE ~ Return(t)
    <3>1. PICK l : /\ Goto(t, l) /\ map' = Set(map, t, 0)
                   /\ UNCHANGED <<grace, op, needs_resize>> /\ pc[t] # "idle"
                   /\ (l = "slow" /\ op[t].kind = "reset") \/ l = "ht_unlock"
      BY <1>4, <2>2 DEF AllUnlocked, KindInv
    <3>2. \A u \in Threads : u # t => Kept(u)
      BY <3>1 DEF Goto, Set, Kept
    <3>3. KindInv(t)' /\ HasMapInv(t)'
      BY <1>1, <3>1, SeqFacts DEF Goto, Set, KindInv, HasMapInv, WithMap, Looking, Counting,
                                  WriteKinds, ResetKinds, GrowKinds, MapsStay
    <3> QED
      BY <1>1, <3>1, <3>2, <3>3, LocalStep DEF Goto, Set, MapOf
  <2> QED
    BY <2>1, <2>2
<1> QED
  BY <1>2, <1>3, <1>4 DEF WithAllLocks

LEMMA ReclaimInv == ASSUME MapInv, NEW m, Reclaim(m) PROVE MapInv'
<1> USE DEF MapInv, BaseInv
<1>1. /\ UNCHANGED <<maps, ht_map, grace, pc, op, map, needs_resize>>
      /\ freed' = freed \cup {m} /\ m \in DOMAIN grace /\ grace[m] = {}
  BY DEF Reclaim, localVars
<1>2. TablesInv' /\ (GraceInv => GraceInv')
  BY <1>1 DEF TablesInv, GraceInv
<1>3. ASSUME NEW u \in Threads PROVE KindInv(u)' /\ HasMapInv(u)'
  BY <1>1 DEF KindInv, HasMapInv
<1> QED
  BY <1>2, <1>3

LEMMA MapInvInit == ASSUME Init PROVE MapInv
<1>1. PICK m : maps = <<m>>
  BY DEF Init
<1>2. IsSeq(maps) /\ Len(maps) = 1
  <2>1. maps \in Seq({m}) /\ Len(maps) = 1
    BY <1>1
  <2> QED
    BY <2>1, SeqAny
<1>3. TablesInv
  BY <1>2 DEF Init, TablesInv
<1>4. GraceInv
  BY DEF Init, GraceInv
<1>5. ASSUME NEW t \in Threads PROVE KindInv(t) /\ HasMapInv(t)
  BY <1>2 DEF Init, KindInv, HasMapInv, WithMap, Looking, Counting, WriteKinds, ResetKinds,
              GrowKinds
<1> QED
  BY <1>3, <1>4, <1>5 DEF MapInv, BaseInv

LEMMA MapInvStep == ASSUME MapInv, [Next]_vars PROVE MapInv'
<1>1. CASE UNCHANGED vars
  <2>1. UNCHANGED <<maps, ht_map, freed, grace, pc, op, map, needs_resize>>
    BY <1>1 DEF vars, tableVars, localVars
  <2>2. TablesInv' /\ (GraceInv => GraceInv')
    BY <2>1 DEF MapInv, BaseInv, TablesInv, GraceInv
  <2>3. ASSUME NEW u \in Threads PROVE KindInv(u)' /\ HasMapInv(u)'
    BY <2>1 DEF MapInv, BaseInv, KindInv, HasMapInv
  <2> QED
    BY <2>2, <2>3 DEF MapInv, BaseInv
<1>2. ASSUME NEW t \in Threads, Call(t) \/ Step(t) PROVE MapInv'
  BY <1>2, CallInv, ReadMapInv, LookupInv, StatsInv, LockInv, WriteInv, HtLockInv, CopyInv,
     RetireInv, AllLocksInv DEF Step, WithAllLocks
<1>3. ASSUME NEW m \in DOMAIN grace, Reclaim(m) PROVE MapInv'
  BY <1>3, ReclaimInv
<1> QED
  BY <1>1, <1>2, <1>3 DEF Next

(* Where every operation is called inside a read-side section, no lookup,  *)
(* writer, iterator, resize or statistics ever has a map that was          *)
(* destroyed: qht_do_resize may leave the old map to call_rcu although     *)
(* others have read ht->map before and go on with it.                      *)
THEOREM MapsOutliveUsers == ASSUME AllProtected PROVE Spec => []NoFreedMapUsed
<1>1. Init => MapInv
  BY MapInvInit
<1>2. MapInv /\ [Next]_vars => MapInv'
  BY MapInvStep
<1>3. MapInv => NoFreedMapUsed
  BY DEF MapInv, BaseInv, GraceInv, TablesInv, NoFreedMapUsed
<1> QED
  BY <1>1, <1>2, <1>3, PTL DEF Spec

-----------------------------------------------------------------------------
(* The numbers of the table: how many buckets, how many slots. *)

LEMMA MinIs ==
    ASSUME NEW S, S \subseteq Int, NEW m \in S, \A y \in S : m <= y PROVE Min(S) = m
<1>1. \E x \in S : \A y \in S : x <= y
  OBVIOUS
<1>2. PICK x : x = Min(S)
  OBVIOUS
<1>3. x \in S /\ \A y \in S : x <= y
  BY <1>1, <1>2 DEF Min
<1>4. x <= m /\ m <= x /\ x \in Int /\ m \in Int
  BY <1>3
<1> QED
  BY <1>2, <1>4

LEMMA MaxIs ==
    ASSUME NEW S, S \subseteq Int, NEW m \in S, \A y \in S : m >= y PROVE Max(S) = m
<1>1. \E x \in S : \A y \in S : x >= y
  OBVIOUS
<1>2. PICK x : x = Max(S)
  OBVIOUS
<1>3. x \in S /\ \A y \in S : x >= y
  BY <1>1, <1>2 DEF Max
<1>4. x >= m /\ m >= x /\ x \in Int /\ m \in Int
  BY <1>3
<1> QED
  BY <1>2, <1>4

(* A non-empty set of naturals has a least element. *)
LEMMA LeastOf ==
    ASSUME NEW S \in SUBSET Nat, S # {} PROVE \E m \in S : \A y \in S : m <= y
<1>1. PICK m \in S : \A y \in S : ~ (<<y, m>> \in OpToRel(<, Nat))
  BY NatLessThanWellFounded, WFMin
<1>2. \A y \in S : ~ (y < m)
  BY <1>1 DEF OpToRel
<1> QED
  BY <1>2

LEMMA Multiple == ASSUME NEW q \in Nat \ {0}, NEW d \in Nat PROVE (q * d) % q = 0
OBVIOUS

LEMMA PowerDoubles ==
    ASSUME NEW x \in Nat \ {0}, IsPowerOf2(x) PROVE IsPowerOf2(2 * x)
<1> SUFFICES ASSUME NEW d \in 2 .. 2 * x, (2 * x) % d = 0, d % 2 # 0 PROVE FALSE
  BY DEF IsPowerOf2
<1>1. PICK k \in Nat : 2 * x = d * k
  <2>1. PICK a \in Nat : a = 2 * x /\ a % d = 0
    OBVIOUS
  <2>2. d \in Nat \ {0}
    OBVIOUS
  <2>3. a = d * (a \div d) /\ a \div d \in Nat
    BY <2>1, <2>2
  <2> QED
    BY <2>1, <2>3
<1>2. PICK e \in Nat : d = 2 * e + 1
  <2>1. d \in Nat /\ d % 2 # 0
    OBVIOUS
  <2>2. d = 2 * (d \div 2) + 1 /\ d \div 2 \in Nat
    BY <2>1
  <2> QED
    BY <2>2
<1>3. e * k \in Nat /\ d * k = 2 * (e * k) + k
  BY <1>1, <1>2
<1>4. PICK j \in Int : j = x - e * k
  BY <1>3
<1>5. k = 2 * j
  BY <1>1, <1>3, <1>4
<1>6. x = d * j /\ j \in Nat /\ j # 0
  <2>1. d * k = 2 * (d * j) /\ d * j \in Int
    BY <1>5, <1>4
  <2>2. x = d * j
    BY <2>1, <1>1
  <2>3. j # 0
    BY <2>2
  <2> QED
    BY <1>5, <1>1, <2>2, <2>3
<1>7. x % d = 0
  <2>1. d \in Nat \ {0}
    OBVIOUS
  <2>2. (d * j) % d = 0
    BY <2>1, <1>6, Multiple
  <2> QED
    BY <2>2, <1>6
<1>8. d <= x
  BY <1>6
<1> QED
  BY <1>7, <1>8 DEF IsPowerOf2

(* There is a power of two from v to 2 v + 1. *)
LEMMA PowerAbove ==
    ASSUME NEW v \in Nat PROVE \E x \in 1 .. 2 * v + 1 : x >= v /\ IsPowerOf2(x)
<1>1. IsPowerOf2(1)
  BY DEF IsPowerOf2
<1>2. CASE v = 0
  BY <1>1, <1>2
<1>3. CASE v # 0
  <2> DEFINE D == {d \in 0 .. v - 1 : IsPowerOf2(v - d)}
  <2>1. D \in SUBSET Nat /\ v - 1 \in D
    BY <1>1, <1>3
  <2>2. PICK d \in D : \A y \in D : d <= y
    <3> HIDE DEF D
    <3> QED
      BY <2>1, LeastOf
  <2>3. PICK x \in Nat \ {0} : x = v - d
    BY <2>2
  <2>4. IsPowerOf2(x) /\ IsPowerOf2(2 * x) /\ x <= v
    BY <2>2, <2>3, PowerDoubles
  <2>5. 2 * x >= v
    <3> SUFFICES ASSUME 2 * x < v PROVE FALSE
      BY <2>3
    <3>1. v - (v - 2 * x) = 2 * x /\ v - 2 * x \in 0 .. v - 1
      BY <2>3
    <3>2. v - 2 * x \in D
      BY <3>1, <2>4
    <3> QED
      BY <2>2, <2>3, <3>2
  <2>6. 2 * x \in 1 .. 2 * v + 1
    BY <2>3, <2>4
  <2> QED
    BY <2>4, <2>5, <2>6
<1> QED
  BY <1>2, <1>3

LEMMA BucketsType == ASSUME NEW n \in Nat PROVE qht_elems_to_buckets(n) \in Nat \ {0}
<1>1. PICK v \in Nat : v = n \div QHT_BUCKET_ENTRIES
  BY QHTAssumption
<1>2. PICK S : S = {x \in 1 .. 2 * v + 1 : x >= v /\ IsPowerOf2(x)}
  OBVIOUS
<1>3. S \in SUBSET Nat /\ S # {} /\ S \subseteq Int
  <2>1. PICK x \in 1 .. 2 * v + 1 : x >= v /\ IsPowerOf2(x)
    BY PowerAbove
  <2>2. x \in S
    BY <1>2, <2>1
  <2>3. S \subseteq 1 .. 2 * v + 1
    BY <1>2
  <2> QED
    BY <2>2, <2>3
<1>4. PICK m \in S : \A y \in S : m <= y
  BY <1>3, LeastOf
<1>5. Min(S) = m
  BY <1>3, <1>4, MinIs
<1> QED
  BY <1>1, <1>2, <1>5 DEF qht_elems_to_buckets, pow2ceil

(* Room(n) is the least number of whole buckets with room for n entries,   *)
(* but at least one.                                                       *)
LEMMA RoomFacts ==
    ASSUME NEW n \in Nat
    PROVE  /\ Room(n) \in Nat \ {0} /\ Room(n) >= n /\ Room(n) % QHT_BUCKET_ENTRIES = 0
           /\ n > 0 => Room(n) - QHT_BUCKET_ENTRIES + 1 \in 1 .. n
<1>0. PICK q \in Nat \ {0} : q = QHT_BUCKET_ENTRIES
  BY QHTAssumption
<1>a. PICK a \in Nat : a = n + q - 1
  BY <1>0
<1>1. PICK d \in Nat : d = a \div q
  BY <1>0
<1>2. q * d <= a /\ a < q * d + q
  BY <1>0, <1>1
<1>3. PICK e \in Nat : e = Max({1, d}) /\ e >= 1 /\ e >= d /\ (e = d \/ (e = 1 /\ d = 0))
  <2>1. CASE d >= 1
    BY <2>1, MaxIs
  <2>2. CASE d = 0
    BY <2>2, MaxIs
  <2> QED
    BY <2>1, <2>2
<1>4. Room(n) = q * e
  BY <1>0, <1>a, <1>1, <1>3 DEF Room
<1>5. (q * e) % q = 0
  BY <1>0, <1>3
<1>6. q * e \in Nat /\ q * e >= q * d /\ q * e >= q
  BY <1>0, <1>3
<1>7. n > 0 => d # 0
  BY <1>0, <1>a, <1>2
<1>8. n > 0 => q * e = q * d
  BY <1>3, <1>7
<1>9. n > 0 => q * e - q + 1 >= 1 /\ q * e - q + 1 <= n
  BY <1>8, <1>6, <1>a, <1>2
<1> QED
  BY <1>0, <1>a, <1>2, <1>4, <1>5, <1>6, <1>9

LEMMA RoomGrows ==
    ASSUME NEW n \in Nat, n % QHT_BUCKET_ENTRIES = 0
    PROVE  (n + QHT_BUCKET_ENTRIES) % QHT_BUCKET_ENTRIES = 0
<1>0. PICK q \in Nat \ {0} : q = QHT_BUCKET_ENTRIES
  BY QHTAssumption
<1>1. PICK d \in Nat : d = n \div q
  BY <1>0
<1>2. n = q * d
  BY <1>0, <1>1
<1>3. n + q = q * (d + 1)
  BY <1>2
<1>4. (q * (d + 1)) % q = 0
  OBVIOUS
<1> QED
  BY <1>0, <1>3, <1>4

-----------------------------------------------------------------------------
(* The entries of a map in the order of an iteration. *)

(* Nth numbers the places of a finite set: each has one number, and each   *)
(* number up to their count belongs to one of them.                        *)
LEMMA NthFacts ==
    ASSUME NEW S, S \subseteq Nat \X Nat, IsFiniteSet(S)
    PROVE  /\ Cardinality(S) \in Nat
           /\ \A i \in 1 .. Cardinality(S) : Nth(S, i) \in S
           /\ \A i, j \in 1 .. Cardinality(S) : Nth(S, i) = Nth(S, j) => i = j
           /\ \A x \in S : \E i \in 1 .. Cardinality(S) : Nth(S, i) = x
<1> DEFINE Pre(x) == {y \in S : Precedes(y, x)}
<1>1. PICK n \in Nat : n = Cardinality(S)
  BY FS_CardinalityType
<1>2. ASSUME NEW x \in S
      PROVE  IsFiniteSet(Pre(x)) /\ Cardinality(Pre(x)) \in Nat /\ Cardinality(Pre(x)) < n
  <2>1. Pre(x) \in SUBSET S /\ x \notin Pre(x)
    BY DEF Precedes
  <2> HIDE DEF Pre
  <2>2. IsFiniteSet(Pre(x)) /\ Cardinality(Pre(x)) <= n /\ Cardinality(Pre(x)) # n
    BY <1>1, <2>1, FS_Subset
  <2>3. Cardinality(Pre(x)) \in Nat
    BY <2>2, FS_CardinalityType
  <2> QED
    BY <2>2, <2>3
<1>3. ASSUME NEW x \in S, NEW y \in S, Precedes(x, y)
      PROVE  Pre(x) \in SUBSET Pre(y) /\ Pre(x) # Pre(y)
  <2>1. ASSUME NEW z \in S, Precedes(z, x) PROVE Precedes(z, y)
    BY <1>3, <2>1 DEF Precedes
  <2>2. x \in Pre(y) /\ x \notin Pre(x)
    BY <1>3 DEF Precedes
  <2> QED
    BY <2>1, <2>2
<1>4. \A i : Nth(S, i) = CHOOSE x \in S : Cardinality(Pre(x)) = i - 1
  BY DEF Nth
<1> HIDE DEF Pre
<1>a. PICK f : f = [x \in S |-> Cardinality(Pre(x))]
  OBVIOUS
<1>5. DOMAIN f = S /\ \A x \in S : f[x] = Cardinality(Pre(x)) /\ f[x] \in 0 .. n - 1
  BY <1>2, <1>a
<1>6. ASSUME NEW x \in S, NEW y \in S, x # y PROVE f[x] # f[y]
  <2>1. Precedes(x, y) \/ Precedes(y, x)
    <3>1. PICK a \in Nat, b \in Nat : x = <<a, b>>
      OBVIOUS
    <3>2. PICK c \in Nat, d \in Nat : y = <<c, d>>
      OBVIOUS
    <3>3. a # c \/ b # d
      BY <1>6, <3>1, <3>2
    <3>4. x[1] = a /\ x[2] = b /\ y[1] = c /\ y[2] = d
      BY <3>1, <3>2
    <3> QED
      BY <3>3, <3>4 DEF Precedes
  <2>2. ASSUME NEW v \in S, NEW w \in S, Precedes(v, w) PROVE f[v] # f[w]
    <3>1. Cardinality(Pre(w)) # Cardinality(Pre(v))
      BY <1>2, <1>3, <2>2, FS_Subset
    <3> QED
      BY <1>5, <3>1
  <2> QED
    BY <2>1, <2>2
<1>7. f \in Surjection(S, 0 .. n - 1)
  <2>1. IsFiniteSet(0 .. n - 1) /\ Cardinality(0 .. n - 1) = n
    <3>1. n - 1 \in Int /\ 0 \in Int
      OBVIOUS
    <3>2. /\ IsFiniteSet(0 .. n - 1)
          /\ Cardinality(0 .. n - 1) = IF 0 > n - 1 THEN 0 ELSE n - 1 - 0 + 1
      BY <3>1, FS_Interval
    <3> QED
      BY <3>2
  <2>2. f \in [S -> 0 .. n - 1]
    BY <1>a, <1>5
  <2>3. IsInjective(f)
    <3>1. DOMAIN f = S
      BY <1>5
    <3> QED
      BY <1>6, <3>1 DEF IsInjective
  <2>4. f \in Injection(S, 0 .. n - 1)
    BY <2>2, <2>3 DEF Injection
  <2> QED
    BY <1>1, <2>1, <2>4, FS_Injection
<1>8. ASSUME NEW i \in 1 .. n PROVE Nth(S, i) \in S /\ f[Nth(S, i)] = i - 1
  <2>1. i - 1 \in 0 .. n - 1
    OBVIOUS
  <2>2. PICK x \in S : f[x] = i - 1
    BY <1>7, <2>1 DEF Surjection
  <2>3. Cardinality(Pre(x)) = i - 1
    BY <1>5, <2>2
  <2>4. Nth(S, i) \in S /\ Cardinality(Pre(Nth(S, i))) = i - 1
    BY <1>4, <2>3
  <2> QED
    BY <1>5, <2>4
<1>9. ASSUME NEW x \in S PROVE \E i \in 1 .. n : Nth(S, i) = x
  <2>1. PICK i \in 1 .. n : f[x] = i - 1
    <3>1. PICK k \in 0 .. n - 1 : k = f[x]
      BY <1>5
    <3>2. k + 1 \in 1 .. n /\ f[x] = (k + 1) - 1
      BY <3>1
    <3> QED
      BY <3>2
  <2>2. Nth(S, i) \in S /\ f[Nth(S, i)] = f[x]
    BY <1>8, <2>1
  <2> QED
    BY <1>6, <2>2
<1>10. ASSUME NEW i \in 1 .. n, NEW j \in 1 .. n, Nth(S, i) = Nth(S, j) PROVE i = j
  <2>1. f[Nth(S, i)] = i - 1 /\ f[Nth(S, j)] = j - 1
    BY <1>8
  <2> QED
    BY <1>10, <2>1
<1> QED
  BY <1>1, <1>8, <1>9, <1>10

-----------------------------------------------------------------------------
(* What a chain holds. *)

(* The pointers of C whose bucket is b, of n. *)
Part(C, n, b) == {p \in C : Hash[p] % n = b}

(* The first k of n slots hold the pointers of P, once each, with their    *)
(* hashes, and the others are empty.                                       *)
Exactly(g, n, k, P) ==
    /\ k \in 0 .. n
    /\ \A i \in 1 .. k : g[i].p \in P /\ g[i].h = Hash[g[i].p]
    /\ \A i \in 1 .. n : i > k => g[i].p = NULL /\ g[i].h = 0
    /\ \A i, j \in 1 .. k : g[i].p = g[j].p => i = j
    /\ \A p \in P : \E i \in 1 .. k : g[i].p = p
Exact(g, n, P) == \E k \in 0 .. n : Exactly(g, n, k, P)

(* A pair of a hash and a pointer. *)
IsSlot(s) == s = [h |-> s.h, p |-> s.p]

WellFormedHead(h) ==
    /\ DOMAIN h = {"lock", "sequence", "linked", "slots"}
    /\ h.sequence \in Nat
    /\ IsSeq(h.slots) /\ Len(h.slots) > 0 /\ Len(h.slots) % QHT_BUCKET_ENTRIES = 0
    /\ \A i \in 1 .. Len(h.slots) : IsSlot(h.slots[i])

WellFormedMap(m) ==
    /\ DOMAIN m = {"n_buckets", "n_added", "heads"}
    /\ m.n_buckets \in Nat \ {0}
    /\ DOMAIN m.heads = 0 .. m.n_buckets - 1
    /\ \A b \in 0 .. m.n_buckets - 1 : WellFormedHead(m.heads[b])

(* A bucket that nobody is writing to, with the pointers of P. *)
Settled(h, P) ==
    h.sequence % 2 = 0 /\ h.linked = Len(h.slots) /\ Exact(h.slots, Len(h.slots), P)

LEMMA FirstFreeIs ==
    ASSUME NEW g, IsSeq(g), NEW k, NEW P, P \subseteq Pointers, Exactly(g, Len(g), k, P),
           NEW i \in 1 .. k + 1
    PROVE  FirstFree(g, i) = k + 1
<1>1. PICK n \in Nat : n = Len(g) /\ k \in 0 .. n
  BY SeqFacts DEF Exactly
<1>2. PICK S : S = {j \in i .. n : g[j].p = NULL} \cup {n + 1}
  OBVIOUS
<1>3. S \subseteq Int /\ k + 1 \in S
  BY <1>1, <1>2 DEF Exactly
<1>4. \A y \in S : k + 1 <= y
  <2>1. ASSUME NEW j \in i .. n, j <= k PROVE g[j].p # NULL
    <3>1. j \in 1 .. k
      BY <1>1, <2>1
    <3> QED
      BY <3>1, QHTAssumption DEF Exactly
  <2> QED
    BY <1>1, <1>2, <2>1
<1>5. Min(S) = k + 1
  BY <1>3, <1>4, MinIs
<1> QED
  BY <1>1, <1>2, <1>5 DEF FirstFree

LEMMA ChainIs ==
    ASSUME NEW g, IsSeq(g), NEW k, NEW P, P \subseteq Pointers, Exactly(g, Len(g), k, P)
    PROVE  Chain(g) = 1 .. k /\ k \in Nat
<1>1. k \in Nat /\ 1 \in 1 .. k + 1
  BY SeqFacts DEF Exactly
<1> QED
  BY <1>1, FirstFreeIs DEF Chain

-----------------------------------------------------------------------------
(* A new map. *)

(* A table of all pointers of C. *)
Listing(entries, C) ==
    /\ DOMAIN entries \subseteq Nat \X Nat /\ IsFiniteSet(DOMAIN entries)
    /\ \A x \in DOMAIN entries :
          /\ IsSlot(entries[x])
          /\ entries[x].p \in C /\ entries[x].h = Hash[entries[x].p]
    /\ \A x, y \in DOMAIN entries : entries[x].p = entries[y].p => x = y
    /\ \A p \in C : \E x \in DOMAIN entries : entries[x].p = p

LEMMA FilledBucketExact ==
    ASSUME NEW C, NEW entries, Listing(entries, C), NEW n, NEW b,
           NEW h, h = FilledBucket(entries, Share(entries, n, b))
    PROVE  WellFormedHead(h) /\ h.lock = NULL /\ Settled(h, Part(C, n, b))
<1>1. PICK S : S = Share(entries, n, b)
  OBVIOUS
<1>2. S \subseteq DOMAIN entries /\ S \in SUBSET (DOMAIN entries) /\ S \subseteq Nat \X Nat
  BY <1>1 DEF Share, Listing
<1>3. IsFiniteSet(S)
  BY <1>2, FS_Subset DEF Listing
<1>4. PICK c \in Nat : c = Cardinality(S)
  BY <1>3, FS_CardinalityType
<1>5. /\ \A i \in 1 .. c : Nth(S, i) \in S
      /\ \A i, j \in 1 .. c : Nth(S, i) = Nth(S, j) => i = j
      /\ \A x \in S : \E i \in 1 .. c : Nth(S, i) = x
  BY <1>2, <1>3, <1>4, NthFacts
<1>6. PICK r \in Nat \ {0} : r = Room(c) /\ r >= c /\ r % QHT_BUCKET_ENTRIES = 0
  BY RoomFacts
<1>7. PICK g : g = [i \in 1 .. r |-> IF i <= c THEN entries[Nth(S, i)] ELSE EmptySlot]
  OBVIOUS
<1>8. /\ DOMAIN h = {"lock", "sequence", "linked", "slots"}
      /\ h.lock = NULL /\ h.sequence = 2 * c /\ h.linked = r /\ h.slots = g
  BY <1>1, <1>4, <1>6, <1>7 DEF FilledBucket
<1>9. IsSeq(g) /\ Len(g) = r
  <2>1. \A i \in 1 .. r : g[i] \in Values(g)
    BY <1>7 DEF Values
  <2>2. g \in [1 .. r -> Values(g)]
    BY <1>7, <2>1
  <2> QED
    BY <2>2, SeqFunction DEF IsSeq
<1>10. ASSUME NEW i \in 1 .. c PROVE g[i] = entries[Nth(S, i)] /\ Nth(S, i) \in DOMAIN entries
  BY <1>2, <1>5, <1>6, <1>7
<1>11. ASSUME NEW i \in 1 .. r, i > c PROVE g[i] = EmptySlot
  BY <1>7, <1>11
<1>12. Exactly(g, r, c, Part(C, n, b))
  <2>1. ASSUME NEW i \in 1 .. c PROVE g[i].p \in Part(C, n, b) /\ g[i].h = Hash[g[i].p]
    <3>1. Nth(S, i) \in S
      BY <1>5
    <3>2. entries[Nth(S, i)].h % n = b
      BY <1>1, <3>1 DEF Share
    <3> QED
      BY <1>10, <3>2 DEF Listing, Part
  <2>2. \A i \in 1 .. r : i > c => g[i].p = NULL /\ g[i].h = 0
    BY <1>11 DEF EmptySlot
  <2>3. ASSUME NEW i \in 1 .. c, NEW j \in 1 .. c, g[i].p = g[j].p PROVE i = j
    <3>1. Nth(S, i) = Nth(S, j)
      BY <1>10, <2>3 DEF Listing
    <3> QED
      BY <1>5, <3>1
  <2>4. ASSUME NEW p \in Part(C, n, b) PROVE \E i \in 1 .. c : g[i].p = p
    <3>1. PICK x \in DOMAIN entries : entries[x].p = p
      BY <2>4 DEF Listing, Part
    <3>2. x \in S
      BY <1>1, <2>4, <3>1 DEF Listing, Part, Share
    <3>3. PICK i \in 1 .. c : Nth(S, i) = x
      BY <1>5, <3>2
    <3> QED
      BY <1>10, <3>1, <3>3
  <2> QED
    BY <1>6, <2>1, <2>2, <2>3, <2>4 DEF Exactly
<1>13. \A i \in 1 .. r : IsSlot(g[i])
  <2>1. ASSUME NEW i \in 1 .. r, i <= c PROVE IsSlot(g[i])
    <3>1. i \in 1 .. c
      BY <2>1
    <3> QED
      BY <1>10, <3>1 DEF Listing
  <2>2. ASSUME NEW i \in 1 .. r, i > c PROVE IsSlot(g[i])
    BY <1>11, <2>2 DEF EmptySlot, IsSlot
  <2> QED
    BY <2>1, <2>2
<1>14. (2 * c) % 2 = 0 /\ 2 * c \in Nat
  OBVIOUS
<1>15. c \in 0 .. r
  BY <1>6
<1>16. WellFormedHead(h)
  BY <1>6, <1>8, <1>9, <1>13, <1>14 DEF WellFormedHead
<1>17. Settled(h, Part(C, n, b))
  BY <1>8, <1>9, <1>12, <1>14, <1>15 DEF Settled, Exact
<1> QED
  BY <1>8, <1>16, <1>17

LEMMA FilledExact ==
    ASSUME NEW C, NEW entries, Listing(entries, C), NEW n \in Nat \ {0},
           NEW m, m = Filled(entries, n)
    PROVE  /\ WellFormedMap(m) /\ m.n_buckets = n
           /\ \A b \in 0 .. n - 1 : m.heads[b].lock = NULL /\ Settled(m.heads[b], Part(C, n, b))
<1>1. PICK f : f = [b \in 0 .. n - 1 |-> FilledBucket(entries, Share(entries, n, b))]
  OBVIOUS
<1>2. PICK a : m = [n_buckets |-> n, n_added |-> a, heads |-> f]
  BY <1>1 DEF Filled
<1>3. /\ DOMAIN m = {"n_buckets", "n_added", "heads"}
      /\ m.n_buckets = n /\ m.heads = f /\ DOMAIN f = 0 .. n - 1
  BY <1>1, <1>2
<1>4. ASSUME NEW b \in 0 .. n - 1
      PROVE  WellFormedHead(f[b]) /\ f[b].lock = NULL /\ Settled(f[b], Part(C, n, b))
  <2>1. f[b] = FilledBucket(entries, Share(entries, n, b))
    BY <1>1
  <2> QED
    BY <2>1, FilledBucketExact
<1> QED
  BY <1>3, <1>4 DEF WellFormedMap

(* The entries of a map whose buckets are settled. *)
LEMMA AllEntriesListed ==
    ASSUME NEW m, WellFormedMap(m), NEW C, C \subseteq Pointers,
           \A b \in 0 .. m.n_buckets - 1 :
              Exact(m.heads[b].slots, Len(m.heads[b].slots), Part(C, m.n_buckets, b))
    PROVE  Listing(AllEntries(m), C)
<1>1. PICK n \in Nat \ {0} : n = m.n_buckets
  BY DEF WellFormedMap
<1>2. PICK s : s = [b \in 0 .. n - 1 |-> m.heads[b].slots]
  OBVIOUS
<1>3. ASSUME NEW b \in 0 .. n - 1
      PROVE  /\ s[b] = m.heads[b].slots /\ IsSeq(s[b])
             /\ Exact(s[b], Len(s[b]), Part(C, n, b)) /\ Part(C, n, b) \subseteq Pointers
             /\ \A i \in 1 .. Len(s[b]) : IsSlot(s[b][i])
  BY <1>1, <1>2 DEF WellFormedMap, WellFormedHead, Part
<1>4. ASSUME NEW b \in 0 .. n - 1
      PROVE  \E k \in Nat : Exactly(s[b], Len(s[b]), k, Part(C, n, b)) /\ Chain(s[b]) = 1 .. k
  <2>1. PICK k \in 0 .. Len(s[b]) : Exactly(s[b], Len(s[b]), k, Part(C, n, b))
    BY <1>3 DEF Exact
  <2>2. Chain(s[b]) = 1 .. k /\ k \in Nat
    BY <1>3, <2>1, ChainIs
  <2> QED
    BY <2>1, <2>2
<1>5. PICK D : D = UNION {{b} \X Chain(s[b]) : b \in 0 .. n - 1}
  OBVIOUS
<1>6. Places(m) = D
  BY <1>1, <1>3, <1>5 DEF Places
<1>7. PICK e : e = AllEntries(m)
  OBVIOUS
<1>8. DOMAIN e = D /\ \A x \in D : e[x] = m.heads[x[1]].slots[x[2]]
  BY <1>6, <1>7 DEF AllEntries
<1>9. \A b \in 0 .. n - 1, i \in Nat : <<b, i>> \in D <=> i \in Chain(s[b])
  BY <1>5
<1>10. ASSUME NEW x \in D
       PROVE  \E b \in 0 .. n - 1, i \in Nat :
                 /\ x = <<b, i>> /\ i \in Chain(s[b]) /\ e[x] = s[b][i]
  <2>0. PICK b \in 0 .. n - 1 : x \in {b} \X Chain(s[b])
    BY <1>5
  <2>1. PICK i \in Chain(s[b]) : x = <<b, i>>
    BY <2>0
  <2>2. i \in Nat
    BY <1>4
  <2>3. e[x] = s[b][i]
    BY <1>3, <1>8, <2>1
  <2> QED
    BY <2>1, <2>2, <2>3
<1>11. D \subseteq Nat \X Nat
  BY <1>10
<1>12. IsFiniteSet(D)
  <2>1. PICK f : f = [b \in 0 .. n - 1 |-> {b} \X Chain(s[b])]
    OBVIOUS
  <2>2. PICK F : F = {{b} \X Chain(s[b]) : b \in 0 .. n - 1}
    OBVIOUS
  <2>3. f \in Surjection(0 .. n - 1, F)
    BY <2>1, <2>2 DEF Surjection
  <2>4. IsFiniteSet(0 .. n - 1)
    BY FS_Interval
  <2>5. IsFiniteSet(F)
    BY <2>3, <2>4, FS_Surjection
  <2>6. ASSUME NEW b \in 0 .. n - 1 PROVE IsFiniteSet({b} \X Chain(s[b]))
    <3>1. IsFiniteSet({b})
      BY FS_Singleton
    <3>2. IsFiniteSet(Chain(s[b]))
      BY <1>4, FS_Interval
    <3> QED
      BY <3>1, <3>2, FS_Product
  <2>7. \A T \in F : IsFiniteSet(T)
    BY <2>2, <2>6
  <2> QED
    BY <1>5, <2>2, <2>5, <2>7, FS_UNION
<1>13. ASSUME NEW x \in D
       PROVE  IsSlot(e[x]) /\ e[x].p \in C /\ e[x].h = Hash[e[x].p]
  <2>1. PICK b \in 0 .. n - 1, i \in Nat : x = <<b, i>> /\ i \in Chain(s[b]) /\ e[x] = s[b][i]
    BY <1>10
  <2>2. PICK k \in Nat : Exactly(s[b], Len(s[b]), k, Part(C, n, b)) /\ Chain(s[b]) = 1 .. k
    BY <1>4
  <2>3. i \in 1 .. k /\ i \in 1 .. Len(s[b])
    <3>1. Len(s[b]) \in Nat /\ k \in 0 .. Len(s[b])
      BY <1>3, <2>2, SeqFacts DEF Exactly
    <3>2. i \in 1 .. k
      BY <2>1, <2>2
    <3> QED
      BY <3>1, <3>2
  <2>4. s[b][i].p \in C /\ s[b][i].h = Hash[s[b][i].p]
    BY <2>2, <2>3 DEF Exactly, Part
  <2>5. IsSlot(s[b][i])
    BY <1>3, <2>3
  <2> QED
    BY <2>1, <2>4, <2>5
<1>14. ASSUME NEW x \in D, NEW y \in D, e[x].p = e[y].p PROVE x = y
  <2>1. PICK b \in 0 .. n - 1, i \in Nat : x = <<b, i>> /\ i \in Chain(s[b]) /\ e[x] = s[b][i]
    BY <1>10
  <2>2. PICK k \in Nat : Exactly(s[b], Len(s[b]), k, Part(C, n, b)) /\ Chain(s[b]) = 1 .. k
    BY <1>4
  <2>3. PICK c \in 0 .. n - 1, j \in Nat : y = <<c, j>> /\ j \in Chain(s[c]) /\ e[y] = s[c][j]
    BY <1>10
  <2>4. PICK l \in Nat : Exactly(s[c], Len(s[c]), l, Part(C, n, c)) /\ Chain(s[c]) = 1 .. l
    BY <1>4
  <2>5. e[x].p \in Part(C, n, b) /\ e[y].p \in Part(C, n, c)
    BY <2>1, <2>2, <2>3, <2>4 DEF Exactly
  <2>6. b = c
    BY <1>14, <2>5 DEF Part
  <2>7. i = j
    BY <1>14, <2>1, <2>2, <2>3, <2>6 DEF Exactly
  <2> QED
    BY <2>1, <2>3, <2>6, <2>7
<1>15. ASSUME NEW p \in C PROVE \E x \in D : e[x].p = p
  <2>1. PICK b \in 0 .. n - 1 : b = Hash[p] % n
    BY QHTAssumption
  <2>2. PICK k \in Nat : Exactly(s[b], Len(s[b]), k, Part(C, n, b)) /\ Chain(s[b]) = 1 .. k
    BY <1>4
  <2>3. PICK i \in 1 .. k : s[b][i].p = p
    BY <2>1, <2>2 DEF Exactly, Part
  <2>4. <<b, i>> \in D
    BY <1>9, <2>2
  <2>5. e[<<b, i>>] = s[b][i]
    BY <1>3, <1>8, <2>4
  <2> QED
    BY <2>3, <2>4, <2>5
<1> QED
  BY <1>7, <1>8, <1>11, <1>12, <1>13, <1>14, <1>15 DEF Listing

-----------------------------------------------------------------------------
(* Writing to a bucket. *)

NB(m) == maps[m].n_buckets
Buckets(m) == 0 .. NB(m) - 1
HeadAt(m, b) == maps[m].heads[b]

ShapeInv == IsSeq(maps) /\ \A m \in 1 .. Len(maps) : WellFormedMap(maps[m])

(* The step makes v of bucket b of map m and leaves the others alone. *)
Wrote(m, b, v) ==
    /\ ShapeInv' /\ Len(maps') = Len(maps)
    /\ \A k \in 1 .. Len(maps) : NB(k)' = NB(k)
    /\ \A k \in 1 .. Len(maps) : \A c \in Buckets(k) :
          HeadAt(k, c)' = IF k = m /\ c = b THEN v ELSE HeadAt(k, c)

LEMMA ShapeFacts ==
    ASSUME ShapeInv, NEW m \in 1 .. Len(maps)
    PROVE  /\ NB(m) \in Nat \ {0}
           /\ \A b \in Buckets(m) : WellFormedHead(HeadAt(m, b))
BY DEF ShapeInv, WellFormedMap, NB, Buckets, HeadAt

LEMMA WriteMap ==
    ASSUME ShapeInv, NEW m \in 1 .. Len(maps), NEW b \in Buckets(m), NEW v, WellFormedHead(v),
           NEW w, DOMAIN w = {"n_buckets", "n_added", "heads"}, w.n_buckets = maps[m].n_buckets,
           w.heads = [maps[m].heads EXCEPT ![b] = v], maps' = [maps EXCEPT ![m] = w]
    PROVE  Wrote(m, b, v)
<1>1. Len(maps) \in Nat /\ DOMAIN maps = 1 .. Len(maps)
  BY SeqFacts DEF ShapeInv
<1>2. IsSeq(maps') /\ Len(maps') = Len(maps)
  <2>1. maps' = [k \in DOMAIN maps |-> maps'[k]]
    OBVIOUS
  <2> QED
    BY <2>1, SeqSame DEF ShapeInv
<1>3. \A k \in 1 .. Len(maps) : maps'[k] = IF k = m THEN w ELSE maps[k]
  BY <1>1
<1>4. WellFormedMap(maps[m]) /\ b \in 0 .. maps[m].n_buckets - 1
  BY DEF ShapeInv, Buckets, NB
<1>5. \A c \in 0 .. maps[m].n_buckets - 1 : w.heads[c] = IF c = b THEN v ELSE maps[m].heads[c]
  BY <1>4 DEF WellFormedMap
<1>6. WellFormedMap(w)
  BY <1>4, <1>5 DEF WellFormedMap
<1>7. ShapeInv'
  BY <1>2, <1>3, <1>6 DEF ShapeInv
<1>8. \A k \in 1 .. Len(maps) : NB(k)' = NB(k)
  BY <1>3 DEF NB
<1>9. ASSUME NEW k \in 1 .. Len(maps), NEW c \in Buckets(k)
      PROVE  HeadAt(k, c)' = IF k = m /\ c = b THEN v ELSE HeadAt(k, c)
  <2>1. CASE k = m
    BY <1>3, <1>5, <2>1 DEF Buckets, NB, HeadAt
  <2>2. CASE k # m
    BY <1>3, <2>2 DEF HeadAt
  <2> QED
    BY <2>1, <2>2
<1> QED
  BY <1>2, <1>7, <1>8, <1>9 DEF Wrote

LEMMA WriteHead ==
    ASSUME ShapeInv, NEW m \in 1 .. Len(maps), NEW b \in Buckets(m), NEW v, WellFormedHead(v),
           maps' = [maps EXCEPT ![m].heads[b] = v]
    PROVE  Wrote(m, b, v)
<1>1. PICK w : w = [maps[m] EXCEPT !.heads = [maps[m].heads EXCEPT ![b] = v]]
  OBVIOUS
<1>2. maps' = [maps EXCEPT ![m] = w]
  BY <1>1
<1>3. DOMAIN maps[m] = {"n_buckets", "n_added", "heads"}
  BY DEF ShapeInv, WellFormedMap
<1>4. /\ DOMAIN w = {"n_buckets", "n_added", "heads"} /\ w.n_buckets = maps[m].n_buckets
      /\ w.heads = [maps[m].heads EXCEPT ![b] = v]
  BY <1>1, <1>3
<1> QED
  BY <1>2, <1>4, WriteMap

(* The bucket's lock is taken or released. *)
LEMMA WriteLock ==
    ASSUME ShapeInv, NEW m \in 1 .. Len(maps), NEW b \in Buckets(m), NEW x,
           maps' = [maps EXCEPT ![m].heads[b].lock = x]
    PROVE  Wrote(m, b, [HeadAt(m, b) EXCEPT !.lock = x])
<1>1. PICK v : v = [HeadAt(m, b) EXCEPT !.lock = x]
  OBVIOUS
<1>2. maps' = [maps EXCEPT ![m].heads[b] = v]
  BY <1>1 DEF HeadAt
<1>3. WellFormedHead(HeadAt(m, b))
  BY ShapeFacts
<1>4. WellFormedHead(v)
  BY <1>1, <1>3 DEF WellFormedHead
<1> QED
  BY <1>1, <1>2, <1>4, WriteHead

(* A write section begins or ends. *)
LEMMA WriteSequence ==
    ASSUME ShapeInv, NEW m \in 1 .. Len(maps), NEW b \in Buckets(m),
           maps' = [maps EXCEPT ![m].heads[b].sequence = @ + 1]
    PROVE  Wrote(m, b, [HeadAt(m, b) EXCEPT !.sequence = @ + 1])
<1>1. PICK v : v = [HeadAt(m, b) EXCEPT !.sequence = @ + 1]
  OBVIOUS
<1>2. maps' = [maps EXCEPT ![m].heads[b] = v]
  BY <1>1 DEF HeadAt
<1>3. WellFormedHead(HeadAt(m, b))
  BY ShapeFacts
<1>4. WellFormedHead(v)
  BY <1>1, <1>3 DEF WellFormedHead
<1> QED
  BY <1>1, <1>2, <1>4, WriteHead

-----------------------------------------------------------------------------
(* Who holds which lock. *)

LocalsInv ==
    /\ DOMAIN bkt = Threads /\ DOMAIN pos = Threads /\ DOMAIN version = Threads
    /\ DOMAIN found = Threads /\ DOMAIN pend = Threads
    /\ DOMAIN seen = Threads /\ DOMAIN result = Threads

(* Thread t holds the lock of bucket b of its map. *)
Holds(t, b) ==
    \/ pc[t] \in {"work", "unlock"} /\ b = bkt[t]
    \/ pc[t] = "store" /\ op[t].kind \in WriteKinds /\ b = bkt[t]
    \/ pc[t] = "lock_all" /\ b < bkt[t]
    \/ pc[t] \in {"visit", "copy", "retire", "reset"}
    \/ pc[t] = "store" /\ op[t].kind \in ResetKinds
    \/ pc[t] \in {"unlock_all", "unlock_stale"} /\ b >= bkt[t]

LocksHeld(t) ==
    pc[t] \in WithMap =>
        \A b \in Buckets(map[t]) : Holds(t, b) => HeadAt(map[t], b).lock = t

(* Where thread t holds ht->lock. *)
HtLockHeld(t) ==
    /\ pc[t] \in {"slow_lock", "ht_unlock", "copy"} => ht_lock = t
    /\ pc[t] = "lock_all" /\ op[t].kind \in GrowKinds => ht_lock = t
    /\ pc[t] \in {"reset", "store"} /\ op[t].kind = "reset_size" => ht_lock = t

(* Where the map of thread t is the one that ht->map points to: its lock,  *)
(* or those of the buckets, keep others from replacing it.                 *)
MapIsCurrent(t) ==
    /\ pc[t] \in {"slow_lock", "work", "store", "reset", "copy"} => map[t] = ht_map
    /\ pc[t] = "lock_all" /\ ht_lock = t => map[t] = ht_map

(* Which bucket thread t is at, and which words of it are to be written. *)
AtBucket(t) ==
    /\ pc[t] \in Looking \cup {"lock", "slow_lock", "work", "unlock"}
       \/ (pc[t] = "store" /\ op[t].kind \in WriteKinds)
          => op[t].p \in Pointers /\ bkt[t] = Hash[op[t].p] % NB(map[t])
    /\ pc[t] = "store" =>
          bkt[t] \in Buckets(map[t]) /\ \A s \in pend[t] : s.f \in {"h", "p", "next"}
    /\ pc[t] \in {"lock_all", "reset", "unlock_all", "unlock_stale"} => bkt[t] \in 0 .. NB(map[t])
    /\ pc[t] \in {"visit", "copy", "retire"} => bkt[t] = 0

ThreadInv(t) == LocksHeld(t) /\ HtLockHeld(t) /\ MapIsCurrent(t) /\ AtBucket(t)

TableInv == BaseInv /\ ShapeInv /\ LocalsInv /\ \A t \in Threads : ThreadInv(t)

(* The locals of u are the same. *)
Still(u) ==
    /\ Kept(u) /\ bkt'[u] = bkt[u] /\ pos'[u] = pos[u] /\ version'[u] = version[u]
    /\ found'[u] = found[u] /\ pend'[u] = pend[u]

LEMMA MapInHand ==
    ASSUME BaseInv, NEW t \in Threads, pc[t] \in WithMap PROVE map[t] \in 1 .. Len(maps)
<1>1. map[t] \in 0 .. Len(maps) /\ map[t] # 0 /\ Len(maps) \in Nat
  BY SeqFacts DEF BaseInv, TablesInv, HasMapInv
<1> QED
  BY <1>1

LEMMA OtherThread ==
    ASSUME NEW u \in Threads, ThreadInv(u), Still(u), ht_map' = ht_map,
           pc[u] \in WithMap => NB(map[u])' = NB(map[u]),
           pc[u] \in WithMap => \A b \in Buckets(map[u]) :
              HeadAt(map[u], b).lock = u => HeadAt(map[u], b)'.lock = u,
           ht_lock = u <=> ht_lock' = u
    PROVE  ThreadInv(u)'
<1>1. UNCHANGED <<pc[u], op[u], map[u], bkt[u], pend[u]>>
  BY DEF Still, Kept
<1>2. pc[u] \in WithMap => Buckets(map[u])' = Buckets(map[u])
  BY <1>1 DEF Buckets
<1>3. \A b : Holds(u, b)' <=> Holds(u, b)
  BY <1>1 DEF Holds
<1>4. ASSUME NEW b \in Buckets(map[u]), pc[u] \in WithMap
      PROVE  HeadAt(map[u], b)' = maps'[map[u]].heads[b]
  BY <1>1 DEF HeadAt
<1>5. LocksHeld(u)'
  <2> SUFFICES ASSUME pc[u] \in WithMap, NEW b \in Buckets(map[u]), Holds(u, b)
               PROVE  HeadAt(map[u], b)'.lock = u
    BY <1>1, <1>2, <1>3 DEF LocksHeld
  <2> QED
    BY DEF ThreadInv, LocksHeld
<1>6. HtLockHeld(u)' /\ MapIsCurrent(u)'
  BY <1>1 DEF ThreadInv, HtLockHeld, MapIsCurrent
<1>7. AtBucket(u)'
  <2>1. pc[u] \in WithMap => NB(map[u])' = NB(map[u])
    OBVIOUS
  <2> QED
    BY <1>1, <1>2, <2>1 DEF ThreadInv, AtBucket, WithMap, Looking, Counting
<1> QED
  BY <1>5, <1>6, <1>7 DEF ThreadInv

(* Thread t changes at most one bucket, and the lock of it only if it      *)
(* holds it or nobody does.                                                *)
BucketStep(t) ==
    \/ UNCHANGED maps
    \/ \E m \in 1 .. Len(maps) : \E b \in Buckets(m) : \E v :
          /\ Wrote(m, b, v)
          /\ v.lock = HeadAt(m, b).lock \/ HeadAt(m, b).lock \in {NULL, t}

LEMMA BucketsAfter ==
    ASSUME TableInv, NEW t \in Threads, BucketStep(t)
    PROVE  /\ ShapeInv' /\ Len(maps') = Len(maps)
           /\ \A k \in 1 .. Len(maps) : NB(k)' = NB(k)
           /\ \A k \in 1 .. Len(maps) : \A c \in Buckets(k), u \in Threads :
                 u # t /\ HeadAt(k, c).lock = u => HeadAt(k, c)'.lock = u
<1>1. CASE UNCHANGED maps
  BY <1>1 DEF TableInv, ShapeInv, NB, HeadAt
<1>2. ASSUME NEW m \in 1 .. Len(maps), NEW b \in Buckets(m), NEW v, Wrote(m, b, v),
             v.lock = HeadAt(m, b).lock \/ HeadAt(m, b).lock \in {NULL, t}
      PROVE  /\ ShapeInv' /\ Len(maps') = Len(maps)
             /\ \A k \in 1 .. Len(maps) : NB(k)' = NB(k)
             /\ \A k \in 1 .. Len(maps) : \A c \in Buckets(k), u \in Threads :
                   u # t /\ HeadAt(k, c).lock = u => HeadAt(k, c)'.lock = u
  BY <1>2, QHTAssumption DEF Wrote
<1> QED
  BY <1>1, <1>2 DEF BucketStep

LEMMA TableStep ==
    ASSUME TableInv, BaseInv', LocalsInv', NEW t \in Threads, ht_map' = ht_map,
           \A u \in Threads : u # t => Still(u),
           BucketStep(t),
           \A u \in Threads : u # t => (ht_lock = u <=> ht_lock' = u),
           ThreadInv(t)'
    PROVE  TableInv'
<1>1. /\ ShapeInv' /\ \A k \in 1 .. Len(maps) : NB(k)' = NB(k)
      /\ \A k \in 1 .. Len(maps) : \A c \in Buckets(k), u \in Threads :
            u # t /\ HeadAt(k, c).lock = u => HeadAt(k, c)'.lock = u
  BY BucketsAfter
<1>2. ASSUME NEW u \in Threads, u # t PROVE ThreadInv(u)'
  <2>1. UNCHANGED map[u]
    BY <1>2 DEF Still, Kept
  <2>2. pc[u] \in WithMap => map[u] \in 1 .. Len(maps)
    BY MapInHand DEF TableInv
  <2>3. pc[u] \in WithMap => NB(map[u])' = NB(map[u])
    BY <1>1, <2>1, <2>2
  <2>4. pc[u] \in WithMap => \A b \in Buckets(map[u]) :
           HeadAt(map[u], b).lock = u => HeadAt(map[u], b)'.lock = u
    BY <1>1, <1>2, <2>1, <2>2
  <2> QED
    BY <1>2, <2>3, <2>4, OtherThread DEF TableInv
<1> QED
  BY <1>1, <1>2 DEF TableInv

-----------------------------------------------------------------------------
(* The locks through the steps. *)

(* A thread that is back outside, or has no map. *)
LEMMA NoLocks ==
    ASSUME NEW t, pc'[t] \notin WithMap \cup {"ht_unlock"} PROVE ThreadInv(t)'
BY DEF ThreadInv, LocksHeld, HtLockHeld, MapIsCurrent, AtBucket, WithMap, Looking, Counting

(* It returns and changes no bucket. *)
LEMMA ReturnTable ==
    ASSUME TableInv, BaseInv', NEW t \in Threads, Return(t), ht_map' = ht_map,
           LocalsInv', BucketStep(t), \A u \in Threads : u # t => (ht_lock = u <=> ht_lock' = u)
    PROVE  TableInv'
<1>1. pc'[t] = "idle" /\ \A u \in Threads : u # t => Still(u)
  BY DEF Return, Goto, Set, Still, Kept, TableInv, LocalsInv, BaseInv, TablesInv
<1>2. ThreadInv(t)'
  BY <1>1, NoLocks DEF WithMap, Looking, Counting
<1> QED
  BY <1>1, <1>2, TableStep

LEMMA CallTable == ASSUME TableInv, BaseInv', NEW t \in Threads, Call(t) PROVE TableInv'
<1>1. /\ UNCHANGED <<maps, ht_map, ht_lock>>
      /\ LocalsInv' /\ pc'[t] \in {"ht_lock", "map"}
      /\ \A u \in Threads : u # t => Still(u)
  BY DEF Call, Goto, Set, Still, Kept, TableInv, LocalsInv, BaseInv, TablesInv, tableVars
<1>2. ThreadInv(t)'
  BY <1>1, NoLocks DEF WithMap, Looking, Counting
<1> QED
  BY <1>1, <1>2, TableStep DEF BucketStep

(* The pointer of an operation on one pointer. *)
LEMMA OpPointer ==
    ASSUME BaseInv, NEW t \in Threads, pc[t] # "idle"
    PROVE  /\ op[t].kind \in Kinds /\ op[t].n \in Nat
           /\ op[t].kind \in {"lookup", "insert", "remove"} => op[t].p \in Pointers
                 /\ op[t].p # NULL
           /\ op[t].kind \notin {"lookup", "insert", "remove"} => op[t].p = NULL
BY QHTAssumption DEF BaseInv, KindInv

LEMMA ReadMapTable == ASSUME TableInv, BaseInv', NEW t \in Threads, ReadMap(t) PROVE TableInv'
<1> USE DEF TableInv
<1>1. /\ UNCHANGED <<maps, ht_map, ht_lock, op>> /\ pc[t] = "map"
      /\ LocalsInv'
      /\ \A u \in Threads : u # t => Still(u)
  BY DEF ReadMap, Goto, Set, Still, Kept, LocalsInv, BaseInv, TablesInv, tableVars, histVars
<1>2. op[t].kind \in {"lookup", "stats", "insert", "remove", "reset", "iter"}
  BY <1>1, OpPointer DEF BaseInv, KindInv, Kinds
<1>3. /\ map'[t] = ht_map /\ ht_map \in 1 .. Len(maps)
      /\ bkt'[t] = IF op[t].p = NULL THEN 0 ELSE Hash[op[t].p] % NB(ht_map)
  BY DEF ReadMap, Set, LocalsInv, BaseInv, TablesInv, qht_map_to_bucket, NB
<1>4. NB(ht_map) \in Nat \ {0}
  BY <1>3, ShapeFacts
<1>5. \/ pc'[t] = "begin" /\ op[t].kind = "lookup"
      \/ pc'[t] = "s_begin" /\ op[t].kind = "stats"
      \/ pc'[t] = "lock" /\ op[t].kind \in WriteKinds
      \/ pc'[t] = "lock_all" /\ op[t].kind \in {"reset", "iter"}
  BY <1>2 DEF ReadMap, Goto, BaseInv, TablesInv, WriteKinds
<1>6. NB(map[t])' = NB(ht_map)
  BY <1>1, <1>3 DEF NB
<1>7. op[t].kind \in {"lookup", "insert", "remove"} =>
         op[t].p \in Pointers /\ bkt'[t] = Hash[op[t].p] % NB(ht_map)
  BY <1>1, <1>3, OpPointer
<1>8. op[t].kind \notin {"lookup", "insert", "remove"} => bkt'[t] = 0
  BY <1>1, <1>3, OpPointer
<1>9. LocksHeld(t)'
  BY <1>5, <1>8 DEF LocksHeld, Holds, Buckets
<1>10. HtLockHeld(t)' /\ MapIsCurrent(t)'
  BY <1>1, <1>3, <1>5 DEF HtLockHeld, MapIsCurrent, GrowKinds
<1>11. AtBucket(t)'
  BY <1>1, <1>4, <1>5, <1>6, <1>7, <1>8 DEF AtBucket, Looking, WriteKinds
<1> QED
  BY <1>1, <1>9, <1>10, <1>11, TableStep DEF BucketStep, ThreadInv

(* Lookups and statistics hold nothing. *)
LEMMA LookingTable ==
    ASSUME TableInv, BaseInv', NEW t \in Threads,
           UNCHANGED <<maps, ht_map, ht_lock>>, UNCHANGED <<op, map>>, LocalsInv',
           \A u \in Threads : u # t => Still(u),
           \/ pc[t] \in Looking /\ pc'[t] \in Looking /\ bkt' = bkt
           \/ pc'[t] \in Counting
    PROVE  TableInv'
<1>1. LocksHeld(t)' /\ HtLockHeld(t)' /\ MapIsCurrent(t)'
  BY DEF LocksHeld, Holds, HtLockHeld, MapIsCurrent, Looking, Counting
<1>2. NB(map[t])' = NB(map[t])
  BY DEF NB
<1>3. AtBucket(t)'
  BY <1>2 DEF TableInv, ThreadInv, AtBucket, Looking, Counting
<1> QED
  BY <1>1, <1>3, TableStep DEF BucketStep, ThreadInv

LEMMA LookupTable == ASSUME TableInv, BaseInv', NEW t \in Threads, Lookup(t) PROVE TableInv'
<1> USE DEF TableInv
<1>1. CASE LookupReturn(t)
  <2>1. Return(t) /\ UNCHANGED <<maps, ht_map, ht_lock>> /\ LocalsInv'
    BY <1>1 DEF LookupReturn, Return, Set, LocalsInv
  <2> QED
    BY <2>1, ReturnTable DEF BucketStep
<1>2. CASE ~ LookupReturn(t)
  <2> USE DEF Lookup, LookupBegin, LookupHash, LookupPointer, LookupNext, LookupRetry, AfterSlot,
              tableVars, localVars, histVars
  <2>1. pc[t] \in Looking /\ pc'[t] \in Looking /\ DOMAIN pc' = Threads
    BY <1>2 DEF Looking, Goto, BaseInv, TablesInv
  <2>2. UNCHANGED <<maps, ht_map, ht_lock>> /\ UNCHANGED <<op, map, bkt, needs_resize, pend>>
    BY <1>2
  <2>3. LocalsInv'
    BY <1>2 DEF LocalsInv, Set
  <2>4. \A u \in Threads : u # t => Still(u)
    BY <1>2 DEF Still, Kept, Set, Goto, LocalsInv, BaseInv, TablesInv
  <2> QED
    BY <2>1, <2>2, <2>3, <2>4, LookingTable
<1> QED
  BY <1>1, <1>2

LEMMA StatsTable == ASSUME TableInv, BaseInv', NEW t \in Threads, Stats(t) PROVE TableInv'
<1> USE DEF TableInv
<1>1. UNCHANGED <<maps, ht_map, ht_lock>>
  BY DEF Stats, StatsBegin, StatsPointer, StatsNext, StatsRetry, tableVars
<1>2. LocalsInv'
  BY DEF Stats, StatsBegin, StatsPointer, StatsNext, StatsRetry, AfterSlot, Return,
         localVars, histVars, LocalsInv, Set
<1>3. CASE Return(t)
  BY <1>1, <1>2, <1>3, ReturnTable DEF BucketStep
<1>4. CASE ~ Return(t)
  <2> USE DEF Stats, StatsBegin, StatsPointer, StatsNext, StatsRetry, AfterSlot,
              tableVars, localVars, histVars
  <2>1. pc'[t] \in Counting
    BY <1>4 DEF Counting, Goto, BaseInv, TablesInv
  <2>2. UNCHANGED <<op, map>>
    BY <1>4
  <2>3. \A u \in Threads : u # t => Still(u)
    BY <1>4 DEF Still, Kept, Set, Goto, LocalsInv, BaseInv, TablesInv
  <2> QED
    BY <1>1, <1>2, <2>1, <2>2, <2>3, LookingTable
<1> QED
  BY <1>3, <1>4

(* The bucket that a hash goes to is one of the map's. *)
LEMMA BucketInMap ==
    ASSUME TableInv, NEW t \in Threads,
           pc[t] \in Looking \cup {"lock", "slow_lock", "work", "store", "unlock"}
    PROVE  map[t] \in 1 .. Len(maps) /\ bkt[t] \in Buckets(map[t])
<1>1. map[t] \in 1 .. Len(maps)
  BY MapInHand DEF TableInv, WithMap
<1>2. NB(map[t]) \in Nat \ {0}
  BY <1>1, ShapeFacts DEF TableInv
<1>3. CASE pc[t] = "store"
  BY <1>1, <1>3 DEF TableInv, ThreadInv, AtBucket
<1>4. CASE pc[t] # "store"
  <2>1. op[t].p \in Pointers /\ bkt[t] = Hash[op[t].p] % NB(map[t])
    BY <1>4 DEF TableInv, ThreadInv, AtBucket
  <2>2. Hash[op[t].p] \in Nat
    BY <2>1, QHTAssumption
  <2> QED
    BY <1>1, <1>2, <2>1, <2>2 DEF Buckets
<1> QED
  BY <1>3, <1>4

SetsLock(m, b, x) == maps' = [maps EXCEPT ![m].heads[b].lock = x]

LEMMA LockWrote ==
    ASSUME TableInv, NEW t \in Threads, NEW m \in 1 .. Len(maps), NEW b \in Buckets(m), NEW x,
           SetsLock(m, b, x), HeadAt(m, b).lock \in {NULL, t}
    PROVE  /\ BucketStep(t)
           /\ \A k \in 1 .. Len(maps) : NB(k)' = NB(k)
           /\ \A c \in Buckets(m) : HeadAt(m, c)'.lock = IF c = b THEN x ELSE HeadAt(m, c).lock
<1>1. PICK v : v = [HeadAt(m, b) EXCEPT !.lock = x]
  OBVIOUS
<1>2. Wrote(m, b, v)
  BY <1>1, WriteLock DEF TableInv, SetsLock
<1>3. WellFormedHead(HeadAt(m, b))
  BY ShapeFacts DEF TableInv
<1>4. v.lock = x
  BY <1>1, <1>3 DEF WellFormedHead
<1>5. BucketStep(t)
  BY <1>2 DEF BucketStep
<1> QED
  BY <1>2, <1>4, <1>5 DEF Wrote

(* The same for the bucket in hand. *)
LEMMA OwnLockWrote ==
    ASSUME TableInv, NEW t \in Threads, map[t] \in 1 .. Len(maps), bkt[t] \in Buckets(map[t]),
           NEW x,
           SetsLock(map[t], bkt[t], x), UNCHANGED map,
           HeadAt(map[t], bkt[t]).lock \in {NULL, t}
    PROVE  /\ BucketStep(t) /\ NB(map[t])' = NB(map[t])
           /\ \A c \in Buckets(map[t]) :
                 HeadAt(map[t], c)'.lock = IF c = bkt[t] THEN x ELSE HeadAt(map[t], c).lock
<1>1. PICK m \in 1 .. Len(maps) : m = map[t]
  OBVIOUS
<1>2. PICK b \in Buckets(m) : b = bkt[t]
  BY <1>1
<1>3. /\ BucketStep(t) /\ \A k \in 1 .. Len(maps) : NB(k)' = NB(k)
      /\ \A c \in Buckets(m) : HeadAt(m, c)'.lock = IF c = b THEN x ELSE HeadAt(m, c).lock
  <2>1. SetsLock(m, b, x) /\ HeadAt(m, b).lock \in {NULL, t}
    BY <1>1, <1>2
  <2> QED
    BY <2>1, LockWrote
<1>4. map'[t] = m
  BY <1>1
<1> QED
  BY <1>1, <1>2, <1>3, <1>4 DEF NB, HeadAt

(* qht_bucket_lock__no_stale *)
LEMMA LockBucketTable == ASSUME TableInv, BaseInv', NEW t \in Threads, LockBucket(t) PROVE TableInv'
<1> USE DEF TableInv
<1>1. /\ UNCHANGED <<ht_map, ht_lock, op, bkt>> /\ pc[t] = "lock" /\ LocalsInv'
      /\ \A u \in Threads : u # t => Still(u)
  BY DEF LockBucket, Goto, Set, Still, Kept, LocalsInv, BaseInv, TablesInv, histVars
<1>2. CASE Stale(map[t])
  <2>1. UNCHANGED maps /\ pc'[t] = "slow"
    BY <1>2 DEF LockBucket, Goto, BaseInv, TablesInv
  <2>2. ThreadInv(t)'
    BY <2>1, NoLocks DEF WithMap, Looking, Counting
  <2> QED
    BY <1>1, <2>1, <2>2, TableStep DEF BucketStep
<1>3. CASE ~ Stale(map[t])
  <2>1. /\ SetsLock(map[t], bkt[t], t)
        /\ HeadAt(map[t], bkt[t]).lock = NULL
        /\ UNCHANGED map /\ pc'[t] = "work"
    BY <1>3 DEF LockBucket, Goto, BaseInv, TablesInv, HeadOf, HeadAt, SetsLock
  <2>2. map[t] \in 1 .. Len(maps) /\ bkt[t] \in Buckets(map[t])
    BY <1>1, BucketInMap
  <2>3. /\ BucketStep(t) /\ NB(map[t])' = NB(map[t])
        /\ HeadAt(map[t], bkt[t])'.lock = t
    <3>1. /\ BucketStep(t) /\ NB(map[t])' = NB(map[t])
          /\ \A c \in Buckets(map[t]) :
                HeadAt(map[t], c)'.lock = IF c = bkt[t] THEN t ELSE HeadAt(map[t], c).lock
      BY <2>1, <2>2, OwnLockWrote
    <3>2. bkt'[t] = bkt[t]
      BY <1>1
    <3> QED
      BY <2>2, <3>1, <3>2 DEF HeadAt
  <2>4. LocksHeld(t)'
    BY <1>1, <2>1, <2>3 DEF LocksHeld, Holds
  <2>5. HtLockHeld(t)' /\ MapIsCurrent(t)'
    BY <1>1, <1>3, <2>1 DEF HtLockHeld, MapIsCurrent, Stale
  <2>6. AtBucket(t)'
    BY <1>1, <2>1, <2>3 DEF AtBucket, ThreadInv, Looking
  <2> QED
    BY <1>1, <2>3, <2>4, <2>5, <2>6, TableStep DEF ThreadInv
<1> QED
  BY <1>2, <1>3

LEMMA SlowMapTable == ASSUME TableInv, BaseInv', NEW t \in Threads, SlowMap(t) PROVE TableInv'
<1> USE DEF TableInv
<1>1. /\ UNCHANGED <<maps, ht_map, op>> /\ pc[t] = "slow" /\ LocalsInv'
      /\ ht_lock = NULL /\ ht_lock' = t
      /\ \A u \in Threads : u # t => Still(u)
  BY DEF SlowMap, Goto, Set, Still, Kept, LocalsInv, BaseInv, TablesInv, histVars
<1>2. op[t].kind \in {"insert", "remove", "reset"}
  BY <1>1 DEF BaseInv, KindInv
<1>3. /\ map'[t] = ht_map /\ ht_map \in 1 .. Len(maps)
      /\ bkt'[t] = IF op[t].p = NULL THEN 0 ELSE Hash[op[t].p] % NB(ht_map)
  BY DEF SlowMap, Set, LocalsInv, BaseInv, TablesInv, qht_map_to_bucket, NB
<1>4. NB(ht_map) \in Nat \ {0}
  BY <1>3, ShapeFacts
<1>5. \/ pc'[t] = "lock_all" /\ op[t].kind = "reset"
      \/ pc'[t] = "slow_lock" /\ op[t].kind \in WriteKinds
  BY <1>2 DEF SlowMap, Goto, BaseInv, TablesInv, WriteKinds
<1>6. NB(map[t])' = NB(ht_map)
  BY <1>1, <1>3 DEF NB
<1>7. op[t].kind \in WriteKinds =>
         op[t].p \in Pointers /\ bkt'[t] = Hash[op[t].p] % NB(ht_map)
  BY <1>1, <1>3, OpPointer DEF WriteKinds
<1>8. op[t].kind = "reset" => bkt'[t] = 0
  BY <1>1, <1>3, OpPointer
<1>9. LocksHeld(t)'
  BY <1>5, <1>8 DEF LocksHeld, Holds, Buckets
<1>10. HtLockHeld(t)' /\ MapIsCurrent(t)'
  BY <1>1, <1>3, <1>5 DEF HtLockHeld, MapIsCurrent, GrowKinds
<1>11. AtBucket(t)'
  BY <1>1, <1>4, <1>5, <1>6, <1>7, <1>8 DEF AtBucket, Looking, WriteKinds
<1>12. \A u \in Threads : u # t => (ht_lock = u <=> ht_lock' = u)
  BY <1>1, QHTAssumption
<1> QED
  BY <1>1, <1>9, <1>10, <1>11, <1>12, TableStep DEF BucketStep, ThreadInv

LEMMA SlowLockTable == ASSUME TableInv, BaseInv', NEW t \in Threads, SlowLock(t) PROVE TableInv'
<1> USE DEF TableInv
<1>1. /\ UNCHANGED <<ht_map, op, map, bkt>> /\ pc[t] = "slow_lock" /\ LocalsInv'
      /\ ht_lock' = NULL /\ pc'[t] = "work"
      /\ \A u \in Threads : u # t => Still(u)
  BY DEF SlowLock, Goto, Set, Still, Kept, LocalsInv, BaseInv, TablesInv, histVars, localVars
<1>2. /\ SetsLock(map[t], bkt[t], t)
      /\ HeadAt(map[t], bkt[t]).lock = NULL
  BY DEF SlowLock, HeadOf, HeadAt, SetsLock
<1>3. map[t] \in 1 .. Len(maps) /\ bkt[t] \in Buckets(map[t])
  BY <1>1, BucketInMap
<1>4. /\ BucketStep(t) /\ NB(map[t])' = NB(map[t])
      /\ HeadAt(map[t], bkt[t])'.lock = t
  <2>1. /\ BucketStep(t) /\ NB(map[t])' = NB(map[t])
        /\ \A c \in Buckets(map[t]) :
              HeadAt(map[t], c)'.lock = IF c = bkt[t] THEN t ELSE HeadAt(map[t], c).lock
    BY <1>1, <1>2, <1>3, OwnLockWrote
  <2>2. bkt'[t] = bkt[t]
    BY <1>1
  <2> QED
    BY <1>3, <2>1, <2>2 DEF HeadAt
<1>5. ht_lock = t /\ map[t] = ht_map
  BY <1>1 DEF ThreadInv, HtLockHeld, MapIsCurrent
<1>6. LocksHeld(t)'
  BY <1>1, <1>4 DEF LocksHeld, Holds
<1>7. HtLockHeld(t)' /\ MapIsCurrent(t)'
  BY <1>1, <1>5 DEF HtLockHeld, MapIsCurrent
<1>8. AtBucket(t)'
  BY <1>1, <1>4 DEF AtBucket, ThreadInv, Looking
<1>9. \A u \in Threads : u # t => (ht_lock = u <=> ht_lock' = u)
  BY <1>1, <1>5, QHTAssumption
<1> QED
  BY <1>1, <1>4, <1>6, <1>7, <1>8, <1>9, TableStep DEF ThreadInv

(* ht->lock *)
LEMMA HtLockTable ==
    ASSUME TableInv, BaseInv', NEW t \in Threads, HtLock(t) \/ GrowMaybe(t) PROVE TableInv'
<1> USE DEF TableInv
<1>1. /\ UNCHANGED <<maps, ht_map, op>> /\ LocalsInv'
      /\ ht_lock = NULL /\ ht_lock' = t
      /\ pc'[t] \in {"lock_all", "ht_unlock"}
      /\ \A u \in Threads : u # t => Still(u)
  BY DEF HtLock, GrowMaybe, Goto, Set, Still, Kept, LocalsInv, BaseInv, TablesInv, histVars
<1>2. map'[t] = ht_map /\ ht_map \in 1 .. Len(maps) /\ bkt'[t] = 0
  BY DEF HtLock, GrowMaybe, Set, LocalsInv, BaseInv, TablesInv
<1>3. NB(ht_map) \in Nat \ {0}
  BY <1>2, ShapeFacts
<1>4. NB(map[t])' = NB(ht_map)
  BY <1>1, <1>2 DEF NB
<1>5. LocksHeld(t)'
  BY <1>1, <1>2 DEF LocksHeld, Holds, Buckets
<1>6. HtLockHeld(t)' /\ MapIsCurrent(t)'
  BY <1>1, <1>2 DEF HtLockHeld, MapIsCurrent
<1>7. AtBucket(t)'
  BY <1>1, <1>2, <1>3, <1>4 DEF AtBucket, Looking
<1>8. \A u \in Threads : u # t => (ht_lock = u <=> ht_lock' = u)
  BY <1>1, QHTAssumption
<1> QED
  BY <1>1, <1>5, <1>6, <1>7, <1>8, TableStep DEF BucketStep, ThreadInv

LEMMA HtUnlockTable ==
    ASSUME TableInv, BaseInv', NEW t \in Threads, HtUnlock(t) \/ GrowBusy(t) PROVE TableInv'
<1> USE DEF TableInv
<1>1. Return(t) /\ UNCHANGED <<maps, ht_map>> /\ LocalsInv'
  BY DEF HtUnlock, GrowBusy, Return, Set, LocalsInv, histVars
<1>2. \A u \in Threads : u # t => (ht_lock = u <=> ht_lock' = u)
  <2>1. CASE GrowBusy(t)
    BY <2>1 DEF GrowBusy
  <2>2. CASE HtUnlock(t)
    BY <2>2, QHTAssumption DEF HtUnlock, ThreadInv, HtLockHeld
  <2> QED
    BY <2>1, <2>2
<1> QED
  BY <1>1, <1>2, ReturnTable DEF BucketStep

(* qht_map_lock_buckets *)
LEMMA LockAllTable == ASSUME TableInv, BaseInv', NEW t \in Threads, LockAll(t) PROVE TableInv'
<1> USE DEF TableInv
<1>1. /\ UNCHANGED <<ht_map, ht_lock, pc, op, map>> /\ pc[t] = "lock_all" /\ LocalsInv'
      /\ \A u \in Threads : u # t => Still(u)
      /\ bkt'[t] = bkt[t] + 1
  BY DEF LockAll, Set, Still, Kept, LocalsInv, histVars
<1>2. /\ SetsLock(map[t], bkt[t], t) /\ HeadAt(map[t], bkt[t]).lock = NULL
      /\ bkt[t] < NB(map[t])
  BY DEF LockAll, NextToLock, HeadAt, SetsLock, NB
<1>3. map[t] \in 1 .. Len(maps)
  BY <1>1, MapInHand DEF WithMap
<1>4. NB(map[t]) \in Nat \ {0} /\ bkt[t] \in 0 .. NB(map[t])
  BY <1>1, <1>3, ShapeFacts DEF ThreadInv, AtBucket
<1>5. bkt[t] \in Buckets(map[t])
  BY <1>2, <1>4 DEF Buckets
<1>6. /\ BucketStep(t) /\ NB(map[t])' = NB(map[t])
      /\ \A c \in Buckets(map[t]) :
            HeadAt(map[t], c)'.lock = IF c = bkt[t] THEN t ELSE HeadAt(map[t], c).lock
  BY <1>1, <1>2, <1>3, <1>5, OwnLockWrote
<1>7. LocksHeld(t)'
  <2>1. Buckets(map[t])' = Buckets(map[t])
    BY <1>6 DEF Buckets
  <2>2. ASSUME NEW c \in Buckets(map[t]), Holds(t, c)' PROVE HeadAt(map[t], c)'.lock = t
    <3>1. c < bkt[t] + 1
      BY <1>1, <2>2 DEF Holds
    <3>2. c = bkt[t] \/ c < bkt[t]
      BY <1>4, <3>1 DEF Buckets
    <3>3. c < bkt[t] => HeadAt(map[t], c).lock = t
      BY <1>1 DEF ThreadInv, LocksHeld, Holds, WithMap
    <3> QED
      BY <1>6, <3>2, <3>3
  <2> QED
    BY <1>1, <2>1, <2>2 DEF LocksHeld
<1>8. HtLockHeld(t)' /\ MapIsCurrent(t)'
  BY <1>1 DEF HtLockHeld, MapIsCurrent, ThreadInv
<1>9. AtBucket(t)'
  BY <1>1, <1>2, <1>4, <1>6 DEF AtBucket, Looking
<1> QED
  BY <1>1, <1>6, <1>7, <1>8, <1>9, TableStep DEF ThreadInv

LEMMA UnlockAllTable == ASSUME TableInv, BaseInv', NEW t \in Threads, UnlockAll(t) PROVE TableInv'
<1> USE DEF TableInv
<1>1. /\ UNCHANGED <<ht_map, ht_lock, pc, op, map>> /\ pc[t] \in {"unlock_all", "unlock_stale"}
      /\ LocalsInv' /\ \A u \in Threads : u # t => Still(u)
      /\ bkt'[t] = bkt[t] + 1
  BY DEF UnlockAll, Set, Still, Kept, LocalsInv, histVars
<1>2. SetsLock(map[t], bkt[t], NULL) /\ bkt[t] < NB(map[t])
  BY DEF UnlockAll, SetsLock, NB
<1>3. map[t] \in 1 .. Len(maps)
  BY <1>1, MapInHand DEF WithMap
<1>4. NB(map[t]) \in Nat \ {0} /\ bkt[t] \in 0 .. NB(map[t])
  BY <1>1, <1>3, ShapeFacts DEF ThreadInv, AtBucket
<1>5. bkt[t] \in Buckets(map[t])
  BY <1>2, <1>4 DEF Buckets
<1>6. HeadAt(map[t], bkt[t]).lock = t
  <2>1. Holds(t, bkt[t])
    BY <1>1, <1>4 DEF Holds
  <2> QED
    BY <1>1, <1>5, <2>1 DEF ThreadInv, LocksHeld, WithMap
<1>7. /\ BucketStep(t) /\ NB(map[t])' = NB(map[t])
      /\ \A c \in Buckets(map[t]) :
            HeadAt(map[t], c)'.lock = IF c = bkt[t] THEN NULL ELSE HeadAt(map[t], c).lock
  BY <1>1, <1>2, <1>3, <1>5, <1>6, OwnLockWrote
<1>8. LocksHeld(t)'
  <2>1. Buckets(map[t])' = Buckets(map[t])
    BY <1>7 DEF Buckets
  <2>2. ASSUME NEW c \in Buckets(map[t]), Holds(t, c)' PROVE HeadAt(map[t], c)'.lock = t
    <3>1. c >= bkt[t] + 1
      BY <1>1, <2>2 DEF Holds
    <3>2. c # bkt[t] /\ c >= bkt[t]
      BY <1>4, <3>1 DEF Buckets
    <3>3. HeadAt(map[t], c).lock = t
      BY <1>1, <3>2 DEF ThreadInv, LocksHeld, Holds, WithMap
    <3> QED
      BY <1>7, <3>2, <3>3
  <2> QED
    BY <1>1, <2>1, <2>2 DEF LocksHeld
<1>9. HtLockHeld(t)' /\ MapIsCurrent(t)'
  BY <1>1 DEF HtLockHeld, MapIsCurrent
<1>10. AtBucket(t)'
  BY <1>1, <1>2, <1>4, <1>7 DEF AtBucket, Looking
<1> QED
  BY <1>1, <1>7, <1>8, <1>9, <1>10, TableStep DEF ThreadInv

(* All buckets are locked, or a step is over that needed them all. *)
LEMMA AllLockedTable ==
    ASSUME TableInv, BaseInv', NEW t \in Threads, AllLocked(t) PROVE TableInv'
<1> USE DEF TableInv
<1>1. /\ UNCHANGED <<maps, ht_map, op, map, pend>> /\ pc[t] = "lock_all" /\ LocalsInv'
      /\ \A u \in Threads : u # t => Still(u)
      /\ bkt[t] = NB(map[t]) /\ bkt'[t] = 0
  <2>1. pc[t] = "lock_all" /\ op[t].kind \in {"iter", "reset"} \cup GrowKinds
    BY DEF AllLocked, BaseInv, KindInv
  <2>2. PICK l : Goto(t, l)
    BY <2>1 DEF AllLocked, GrowKinds
  <2>3. /\ bkt[t] = NB(map[t]) /\ bkt' = Set(bkt, t, 0)
        /\ UNCHANGED <<maps, ht_map, op, map, pos, version, found, needs_resize, pend>>
        /\ UNCHANGED <<seen, result>>
    BY DEF AllLocked, NB, histVars
  <2> QED
    BY <2>1, <2>2, <2>3 DEF Goto, Set, Still, Kept, LocalsInv, BaseInv, TablesInv
<1>2. map[t] \in 1 .. Len(maps)
  BY <1>1, MapInHand DEF WithMap
<1>3. NB(map[t]) \in Nat \ {0} /\ NB(map[t])' = NB(map[t])
  BY <1>1, <1>2, ShapeFacts DEF NB
<1>4. \A c \in Buckets(map[t]) : HeadAt(map[t], c)'.lock = t
  <2>1. ASSUME NEW c \in Buckets(map[t]) PROVE HeadAt(map[t], c).lock = t
    BY <1>1, <1>3 DEF ThreadInv, LocksHeld, Holds, WithMap, Buckets
  <2> QED
    BY <1>1, <2>1 DEF HeadAt
<1>5. op[t].kind \in {"iter", "reset"} \cup GrowKinds
  BY <1>1 DEF BaseInv, KindInv
<1>6. \/ pc'[t] = "visit" /\ op[t].kind = "iter" /\ UNCHANGED ht_lock
      \/ pc'[t] = "reset" /\ op[t].kind = "reset_size" /\ UNCHANGED ht_lock
      \/ pc'[t] = "copy" /\ op[t].kind \in {"resize", "insert"} /\ UNCHANGED ht_lock
      \/ pc'[t] = "reset" /\ op[t].kind = "reset" /\ ht_lock = t /\ ht_lock' = NULL
      \/ pc'[t] = "unlock_stale" /\ op[t].kind = "reset" /\ UNCHANGED ht_lock
      \/ pc'[t] = "reset" /\ op[t].kind = "reset" /\ UNCHANGED ht_lock /\ map[t] = ht_map
  BY <1>5 DEF AllLocked, Goto, BaseInv, TablesInv, GrowKinds, Stale
<1>7. LocksHeld(t)'
  <2>1. Buckets(map[t])' = Buckets(map[t])
    BY <1>3 DEF Buckets
  <2> QED
    BY <1>1, <1>4, <2>1 DEF LocksHeld
<1>8. HtLockHeld(t)' /\ MapIsCurrent(t)'
  BY <1>1, <1>6 DEF HtLockHeld, MapIsCurrent, ThreadInv, GrowKinds
<1>9. AtBucket(t)'
  BY <1>1, <1>3, <1>6 DEF AtBucket, Looking
<1>10. \A u \in Threads : u # t => (ht_lock = u <=> ht_lock' = u)
  BY <1>6, QHTAssumption
<1> QED
  BY <1>1, <1>7, <1>8, <1>9, <1>10, TableStep DEF ThreadInv, BucketStep

LEMMA WithAllTable ==
    ASSUME TableInv, BaseInv', NEW t \in Threads, ResetDone(t) \/ Visit(t) \/ Retire(t)
    PROVE  TableInv'
<1> USE DEF TableInv
<1>1. /\ UNCHANGED <<maps, ht_map, ht_lock, op, map, pend>> /\ LocalsInv'
      /\ \A u \in Threads : u # t => Still(u)
      /\ pc[t] \in {"reset", "visit", "retire"}
      /\ bkt'[t] = 0
  BY DEF ResetDone, Visit, Retire, Goto, Set, Still, Kept, LocalsInv, BaseInv, TablesInv,
         tableVars, localVars, histVars, ThreadInv, AtBucket
<1>2. map[t] \in 1 .. Len(maps)
  BY <1>1, MapInHand DEF WithMap
<1>3. NB(map[t]) \in Nat \ {0} /\ NB(map[t])' = NB(map[t])
  BY <1>1, <1>2, ShapeFacts DEF NB
<1>4. \A c \in Buckets(map[t]) : HeadAt(map[t], c)'.lock = t
  <2>1. ASSUME NEW c \in Buckets(map[t]) PROVE HeadAt(map[t], c).lock = t
    BY <1>1 DEF ThreadInv, LocksHeld, Holds, WithMap
  <2> QED
    BY <1>1, <2>1 DEF HeadAt
<1>5. \/ pc'[t] = "unlock_all"
      \/ pc[t] = "reset" /\ pc'[t] = "copy" /\ op[t].kind = "reset_size"
  BY DEF ResetDone, Visit, Retire, Goto, BaseInv, TablesInv
<1>6. LocksHeld(t)'
  <2>1. Buckets(map[t])' = Buckets(map[t])
    BY <1>3 DEF Buckets
  <2> QED
    BY <1>1, <1>4, <2>1 DEF LocksHeld
<1>7. HtLockHeld(t)' /\ MapIsCurrent(t)'
  BY <1>1, <1>5 DEF HtLockHeld, MapIsCurrent, ThreadInv
<1>8. AtBucket(t)'
  BY <1>1, <1>3, <1>5 DEF AtBucket, Looking
<1> QED
  BY <1>1, <1>6, <1>7, <1>8, TableStep DEF ThreadInv, BucketStep

LEMMA AllUnlockedTable ==
    ASSUME TableInv, BaseInv', NEW t \in Threads, AllUnlocked(t) PROVE TableInv'
<1> USE DEF TableInv
<1>1. UNCHANGED <<maps, ht_map, ht_lock>> /\ LocalsInv' /\ pc[t] \in {"unlock_all", "unlock_stale"}
  BY DEF AllUnlocked, Return, Set, LocalsInv, histVars
<1>2. CASE Return(t)
  BY <1>1, <1>2, ReturnTable DEF BucketStep
<1>3. CASE ~ Return(t)
  <2>1. /\ pc'[t] = "slow" \/ (pc'[t] = "ht_unlock" /\ ht_lock = t)
        /\ \A u \in Threads : u # t => Still(u)
    BY <1>1, <1>3 DEF AllUnlocked, Goto, Set, Still, Kept, LocalsInv, BaseInv, TablesInv
  <2>2. ThreadInv(t)'
    BY <1>1, <2>1 DEF ThreadInv, LocksHeld, HtLockHeld, MapIsCurrent, AtBucket, WithMap, Looking,
                      Counting
  <2> QED
    BY <1>1, <2>1, <2>2, TableStep DEF BucketStep
<1> QED
  BY <1>2, <1>3

LEMMA UnlockBucketTable ==
    ASSUME TableInv, BaseInv', NEW t \in Threads, UnlockBucket(t) PROVE TableInv'
<1> USE DEF TableInv
<1>1. UNCHANGED <<ht_map, ht_lock>> /\ LocalsInv' /\ pc[t] = "unlock"
         /\ SetsLock(map[t], bkt[t], NULL)
  BY DEF UnlockBucket, Return, Set, LocalsInv, histVars, SetsLock
<1>2. PICK m \in 1 .. Len(maps), b \in Nat : m = map[t] /\ b = bkt[t] /\ b \in Buckets(m)
  BY <1>1, BucketInMap DEF Buckets
<1>3. HeadAt(m, b).lock = t
  BY <1>1, <1>2 DEF ThreadInv, LocksHeld, Holds, WithMap
<1>4. BucketStep(t)
  BY <1>1, <1>2, <1>3, LockWrote
<1>5. CASE Return(t)
  BY <1>1, <1>4, <1>5, ReturnTable
<1>6. CASE ~ Return(t)
  <2>1. pc'[t] = "grow" /\ \A u \in Threads : u # t => Still(u)
    BY <1>1, <1>6 DEF UnlockBucket, Goto, Set, Still, Kept, LocalsInv, BaseInv, TablesInv
  <2>2. ThreadInv(t)'
    BY <2>1, NoLocks DEF WithMap, Looking, Counting
  <2> QED
    BY <1>1, <1>4, <2>1, <2>2, TableStep
<1> QED
  BY <1>5, <1>6

-----------------------------------------------------------------------------
(* The locks while a bucket is written to. *)

(* Thread t writes to the bucket in hand and keeps its locks. *)
WritesOwn(t) ==
    \/ UNCHANGED maps
    \/ \E v : Wrote(map[t], bkt[t], v) /\ v.lock = HeadAt(map[t], bkt[t]).lock

LEMMA WritesOwnFacts ==
    ASSUME TableInv, NEW t \in Threads, WritesOwn(t), UNCHANGED map,
           map[t] \in 1 .. Len(maps), bkt[t] \in Buckets(map[t])
    PROVE  /\ BucketStep(t) /\ NB(map[t])' = NB(map[t])
           /\ \A c \in Buckets(map[t]) : HeadAt(map[t], c)'.lock = HeadAt(map[t], c).lock
<1>1. PICK m \in 1 .. Len(maps) : m = map[t]
  OBVIOUS
<1>2. PICK b \in Buckets(m) : b = bkt[t]
  BY <1>1
<1>3. map'[t] = m
  BY <1>1
<1>4. CASE UNCHANGED maps
  BY <1>4 DEF BucketStep, NB, HeadAt
<1>5. ASSUME NEW v, Wrote(m, b, v), v.lock = HeadAt(m, b).lock
      PROVE  /\ BucketStep(t) /\ NB(m)' = NB(m)
             /\ \A c \in Buckets(m) : HeadAt(m, c)'.lock = HeadAt(m, c).lock
  BY <1>5 DEF Wrote, BucketStep
<1>6. WritesOwn(t) => UNCHANGED maps \/ \E v : Wrote(m, b, v) /\ v.lock = HeadAt(m, b).lock
  BY <1>1, <1>2 DEF WritesOwn
<1>7. CASE ~ UNCHANGED maps
  <2>1. PICK v : Wrote(m, b, v) /\ v.lock = HeadAt(m, b).lock
    BY <1>6, <1>7
  <2>2. /\ BucketStep(t) /\ NB(m)' = NB(m)
        /\ \A c \in Buckets(m) : HeadAt(m, c)'.lock = HeadAt(m, c).lock
    BY <1>5, <2>1
  <2> QED
    BY <1>1, <1>3, <2>2 DEF NB, HeadAt
<1> QED
  BY <1>4, <1>7

LEMMA WriterTable ==
    ASSUME TableInv, BaseInv', LocalsInv', NEW t \in Threads, UNCHANGED <<ht_map, ht_lock>>,
           UNCHANGED <<op, map>>, \A u \in Threads : u # t => Still(u), WritesOwn(t),
           pc[t] \in {"work", "store", "reset"}, bkt[t] \in Buckets(map[t]),
           \/ pc[t] # "reset" /\ op[t].kind \in WriteKinds
              /\ pc'[t] \in {"store", "unlock"} /\ bkt'[t] = bkt[t]
           \/ /\ pc[t] # "work" /\ op[t].kind \in ResetKinds
              /\ \/ pc'[t] = "store" /\ bkt'[t] = bkt[t]
                 \/ pc'[t] = "reset" /\ bkt'[t] = bkt[t] + 1,
           pc'[t] = "store" => \A s \in pend'[t] : s.f \in {"h", "p", "next"}
    PROVE  TableInv'
<1> USE DEF TableInv
<1>1. map[t] \in 1 .. Len(maps)
  BY MapInHand DEF WithMap
<1>2. NB(map[t]) \in Nat \ {0} /\ bkt[t] \in 0 .. NB(map[t]) /\ bkt[t] + 1 \in 0 .. NB(map[t])
  BY <1>1, ShapeFacts DEF Buckets
<1>3. /\ BucketStep(t) /\ NB(map[t])' = NB(map[t])
      /\ \A c \in Buckets(map[t]) : HeadAt(map[t], c)'.lock = HeadAt(map[t], c).lock
  BY <1>1, WritesOwnFacts
<1>4. Buckets(map[t])' = Buckets(map[t])
  BY <1>3 DEF Buckets
<1>5. LocksHeld(t)'
  <2>1. \A c : Holds(t, c)' => Holds(t, c)
    BY DEF Holds, WriteKinds, ResetKinds
  <2>2. \A c \in Buckets(map[t]) : Holds(t, c) => HeadAt(map[t], c).lock = t
    BY DEF ThreadInv, LocksHeld, WithMap
  <2> QED
    BY <1>3, <1>4, <2>1, <2>2 DEF LocksHeld
<1>6. HtLockHeld(t)' /\ MapIsCurrent(t)'
  BY DEF HtLockHeld, MapIsCurrent, ThreadInv, WriteKinds, ResetKinds
<1>7. AtBucket(t)'
  <2>1. op[t].kind \in WriteKinds => op[t].p \in Pointers /\ bkt[t] = Hash[op[t].p] % NB(map[t])
    BY DEF ThreadInv, AtBucket, WriteKinds, ResetKinds
  <2> QED
    BY <1>2, <1>3, <1>4, <2>1 DEF AtBucket, Looking, WriteKinds, ResetKinds
<1> QED
  BY <1>3, <1>5, <1>6, <1>7, TableStep DEF ThreadInv

LEMMA Concatenated ==
    ASSUME NEW S, NEW s \in Seq(S), NEW e \in Seq(S)
    PROVE  /\ s \o e \in Seq(S) /\ Len(s \o e) = Len(s) + Len(e)
           /\ \A i \in 1 .. Len(s) : (s \o e)[i] = s[i]
           /\ \A i \in 1 .. Len(s) + Len(e) : i > Len(s) => (s \o e)[i] = e[i - Len(s)]
OBVIOUS

(* A chain with one more bucket. *)
Longer(s, r) == r = s \o EmptyBucket

LEMMA OneMoreBucket ==
    ASSUME NEW s, IsSeq(s), NEW r, Longer(s, r)
    PROVE  /\ IsSeq(r) /\ Len(r) = Len(s) + QHT_BUCKET_ENTRIES
           /\ \A i \in 1 .. Len(s) : r[i] = s[i]
           /\ \A i \in 1 .. Len(r) : i > Len(s) => r[i] = EmptySlot
<1>1. PICK q \in Nat \ {0} : q = QHT_BUCKET_ENTRIES
  BY QHTAssumption
<1>2. PICK S : S = Values(s) \cup {EmptySlot}
  OBVIOUS
<1>3. Len(s) \in Nat /\ s \in Seq(S)
  <2>1. s \in [1 .. Len(s) -> S] /\ Len(s) \in Nat
    BY <1>2 DEF IsSeq
  <2> QED
    BY <2>1, SeqFunction
<1>4. PICK e : e = EmptyBucket /\ e \in [1 .. q -> S] /\ \A i \in 1 .. q : e[i] = EmptySlot
  <2>1. PICK e : e = [i \in 1 .. q |-> EmptySlot]
    OBVIOUS
  <2>2. e \in [1 .. q -> S] /\ \A i \in 1 .. q : e[i] = EmptySlot
    BY <1>2, <2>1
  <2> QED
    BY <1>1, <2>1, <2>2 DEF EmptyBucket
<1>5. e \in Seq(S) /\ Len(e) = q
  BY <1>4, SeqFunction
<1>6. r = s \o e
  BY <1>4 DEF Longer
<1>7. r \in Seq(S) /\ Len(r) = Len(s) + q
  BY <1>3, <1>5, <1>6, Concatenated
<1>8. \A i \in 1 .. Len(s) : r[i] = s[i]
  BY <1>3, <1>5, <1>6, Concatenated
<1>9. \A i \in 1 .. Len(s) + q : i > Len(s) => r[i] = e[i - Len(s)]
  BY <1>3, <1>5, <1>6, Concatenated
<1>10. \A i \in 1 .. Len(s) + q : i > Len(s) => i - Len(s) \in 1 .. q
  BY <1>1, <1>3
<1> QED
  BY <1>1, <1>4, <1>7, <1>8, <1>9, <1>10, SeqAny

(* qht_insert__locked begins to write. *)
IsFull(h) == FirstFree(h.slots, 1) > Len(h.slots)

LEMMA InsertWrote ==
    ASSUME TableInv, NEW t \in Threads, InsertLocked(t), pc'[t] = "store",
           NEW m \in 1 .. Len(maps), m = map[t], NEW b \in Buckets(m), b = bkt[t],
           NEW h, h = HeadAt(m, b)
    PROVE  \E v : /\ Wrote(m, b, v) /\ v.lock = h.lock /\ v.sequence = h.sequence + 1
                  /\ v.linked = h.linked
                  /\ v.slots = IF IsFull(h) THEN h.slots \o EmptyBucket ELSE h.slots
<1>0. PICK full : full = IsFull(h)
  OBVIOUS
<1>1. WellFormedHead(h)
  BY ShapeFacts DEF TableInv
<1>2. PICK v : v = Begun(h, full)
  OBVIOUS
<1>3. /\ DOMAIN v = {"lock", "sequence", "linked", "slots"}
      /\ v.lock = h.lock /\ v.sequence = h.sequence + 1 /\ v.linked = h.linked
      /\ v.slots = IF full THEN h.slots \o EmptyBucket ELSE h.slots
  BY <1>1, <1>2 DEF WellFormedHead, Begun
<1>4. WellFormedHead(v)
  <2>1. CASE ~ full
    BY <1>1, <1>3, <2>1 DEF WellFormedHead
  <2>2. CASE full
    <3>1. PICK n \in Nat \ {0} : n = Len(h.slots) /\ n % QHT_BUCKET_ENTRIES = 0
      BY <1>1, SeqFacts DEF WellFormedHead
    <3>2. /\ IsSeq(v.slots) /\ Len(v.slots) = n + QHT_BUCKET_ENTRIES
          /\ \A i \in 1 .. n : v.slots[i] = h.slots[i]
          /\ \A i \in 1 .. n + QHT_BUCKET_ENTRIES : i > n => v.slots[i] = EmptySlot
      <4>1. IsSeq(h.slots)
        BY <1>1 DEF WellFormedHead
      <4>2. PICK r : r = h.slots \o EmptyBucket
        OBVIOUS
      <4>3. Longer(h.slots, r)
        BY <4>2 DEF Longer
      <4>4. /\ IsSeq(r) /\ Len(r) = n + QHT_BUCKET_ENTRIES
            /\ \A i \in 1 .. n : r[i] = h.slots[i]
            /\ \A i \in 1 .. Len(r) : i > n => r[i] = EmptySlot
        BY <3>1, <4>1, <4>3, OneMoreBucket
      <4>5. v.slots = r
        BY <1>3, <2>2, <4>2
      <4> QED
        BY <4>4, <4>5
    <3>3. (n + QHT_BUCKET_ENTRIES) % QHT_BUCKET_ENTRIES = 0 /\ n + QHT_BUCKET_ENTRIES > 0
      <4>1. PICK q \in Nat \ {0} : q = QHT_BUCKET_ENTRIES
        BY QHTAssumption
      <4>2. n + q > 0
        OBVIOUS
      <4> QED
        BY <3>1, <4>1, <4>2, RoomGrows
    <3>4. ASSUME NEW i \in 1 .. n + QHT_BUCKET_ENTRIES PROVE IsSlot(v.slots[i])
      <4>1. CASE i > n
        BY <3>2, <4>1 DEF EmptySlot, IsSlot
      <4>2. CASE i <= n
        BY <1>1, <3>1, <3>2, <4>2 DEF WellFormedHead
      <4> QED
        BY <3>1, <4>1, <4>2
    <3>5. h.sequence + 1 \in Nat
      BY <1>1 DEF WellFormedHead
    <3> QED
      BY <1>3, <3>2, <3>3, <3>4, <3>5 DEF WellFormedHead
  <2> QED
    BY <2>1, <2>2
<1>5. DOMAIN maps[m] = {"n_buckets", "n_added", "heads"} /\ maps[m].heads[b] = h
  BY DEF TableInv, ShapeInv, WellFormedMap, HeadAt
<1>7. PICK w : w = BeginInsert(maps[m], b, full)
  OBVIOUS
<1>8. maps' = [maps EXCEPT ![m] = w]
  <2>1. pc[t] = "work" /\ DOMAIN pc = Threads /\ HeadOf(t) = h
    BY DEF InsertLocked, TableInv, BaseInv, TablesInv, HeadOf, HeadAt
  <2> QED
    BY <1>0, <1>7, <2>1 DEF InsertLocked, Goto, IsFull
<1>9. /\ DOMAIN w = {"n_buckets", "n_added", "heads"} /\ w.n_buckets = maps[m].n_buckets
      /\ w.heads = [maps[m].heads EXCEPT ![b] = v]
  <2>1. DOMAIN w = {"n_buckets", "n_added", "heads"} /\ w.n_buckets = maps[m].n_buckets
    BY <1>5, <1>7 DEF BeginInsert
  <2>2. w.heads = [maps[m].heads EXCEPT ![b] = v]
    BY <1>2, <1>5, <1>7 DEF BeginInsert
  <2> QED
    BY <2>1, <2>2
<1>10. Wrote(m, b, v)
  BY <1>4, <1>8, <1>9, WriteMap DEF TableInv
<1> QED
  BY <1>0, <1>3, <1>10

(* A write section begins or ends. *)
Turns(m, b) == maps' = [maps EXCEPT ![m].heads[b].sequence = @ + 1]

LEMMA SequenceWrote ==
    ASSUME TableInv, NEW m \in 1 .. Len(maps), NEW b \in Buckets(m), Turns(m, b),
           NEW h, h = HeadAt(m, b)
    PROVE  \E v : /\ Wrote(m, b, v) /\ v.lock = h.lock /\ v.sequence = h.sequence + 1
                  /\ v.linked = h.linked /\ v.slots = h.slots
<1>1. WellFormedHead(h)
  BY ShapeFacts DEF TableInv
<1>2. PICK v : v = [h EXCEPT !.sequence = @ + 1]
  OBVIOUS
<1>3. /\ v.lock = h.lock /\ v.sequence = h.sequence + 1 /\ v.linked = h.linked /\ v.slots = h.slots
  BY <1>1, <1>2 DEF WellFormedHead
<1>4. Wrote(m, b, [HeadAt(m, b) EXCEPT !.sequence = @ + 1])
  BY WriteSequence DEF TableInv, Turns
<1> QED
  BY <1>2, <1>3, <1>4

(* One of the stores takes effect. *)
Stored(h, s, v) ==
    /\ v.lock = h.lock /\ v.sequence = h.sequence /\ Len(v.slots) = Len(h.slots)
    /\ v.linked = IF s.f = "next" THEN s.v ELSE h.linked
    /\ \A i \in 1 .. Len(h.slots) :
          /\ v.slots[i].h = IF s.f = "h" /\ s.i = i THEN s.v ELSE h.slots[i].h
          /\ v.slots[i].p = IF s.f = "p" /\ s.i = i THEN s.v ELSE h.slots[i].p

SlotSet(g, j, x, r) == r = [g EXCEPT ![j].h = x] \/ r = [g EXCEPT ![j].p = x]

LEMMA SlotWritten ==
    ASSUME NEW g, IsSeq(g), \A i \in 1 .. Len(g) : IsSlot(g[i]), NEW j, NEW x,
           NEW r, SlotSet(g, j, x, r)
    PROVE  IsSeq(r) /\ Len(r) = Len(g) /\ \A i \in 1 .. Len(g) : IsSlot(r[i])
<1>1. Len(g) \in Nat /\ DOMAIN g = 1 .. Len(g)
  BY SeqFacts
<1>2. r = [k \in DOMAIN g |-> r[k]]
  BY DEF SlotSet
<1>3. IsSeq(r) /\ Len(r) = Len(g)
  BY <1>2, SeqSame
<1> QED
  BY <1>1, <1>3 DEF SlotSet, IsSlot

Stores(m, b, s) ==
    maps' = [maps EXCEPT ![m].heads[b] =
                CASE s.f = "h"    -> [@ EXCEPT !.slots[s.i].h = s.v]
                  [] s.f = "p"    -> [@ EXCEPT !.slots[s.i].p = s.v]
                  [] s.f = "next" -> [@ EXCEPT !.linked = s.v]]

LEMMA StoreWrote ==
    ASSUME TableInv, NEW m \in 1 .. Len(maps), NEW b \in Buckets(m),
           NEW s, s.f \in {"h", "p", "next"}, Stores(m, b, s),
           NEW h, h = HeadAt(m, b)
    PROVE  \E v : Wrote(m, b, v) /\ Stored(h, s, v)
<1>1. WellFormedHead(h)
  BY ShapeFacts DEF TableInv
<1>2. PICK v : v = CASE s.f = "h"    -> [h EXCEPT !.slots[s.i].h = s.v]
                     [] s.f = "p"    -> [h EXCEPT !.slots[s.i].p = s.v]
                     [] s.f = "next" -> [h EXCEPT !.linked = s.v]
  OBVIOUS
<1>3. maps' = [maps EXCEPT ![m].heads[b] = v]
  BY <1>2 DEF HeadAt, Stores
<1>4. WellFormedHead(v) /\ Stored(h, s, v)
  <2>1. CASE s.f = "h"
    <3>0. PICK g, j, x : g = h.slots /\ j = s.i /\ x = s.v
      OBVIOUS
    <3>1. PICK r : r = [g EXCEPT ![j].h = x]
      OBVIOUS
    <3>2. v = [h EXCEPT !.slots = r]
      BY <1>2, <2>1, <3>0, <3>1
    <3>3. DOMAIN v = DOMAIN h /\ v.lock = h.lock /\ v.sequence = h.sequence /\ v.slots = r
          /\ v.linked = h.linked
      BY <1>1, <3>2 DEF WellFormedHead
    <3>4. IsSeq(r) /\ Len(r) = Len(h.slots) /\ \A i \in 1 .. Len(h.slots) : IsSlot(r[i])
      <4>1. IsSeq(g) /\ \A i \in 1 .. Len(g) : IsSlot(g[i])
        BY <1>1, <3>0 DEF WellFormedHead
      <4>2. IsSeq(r) /\ Len(r) = Len(g) /\ \A i \in 1 .. Len(g) : IsSlot(r[i])
        <5>1. SlotSet(g, j, x, r)
          BY <3>1 DEF SlotSet
        <5> QED
          BY <4>1, <5>1, SlotWritten
      <4> QED
        BY <3>0, <4>2
    <3>5. ASSUME NEW i \in 1 .. Len(h.slots)
          PROVE  r[i].h = (IF s.i = i THEN s.v ELSE h.slots[i].h) /\ r[i].p = h.slots[i].p
      <4>1. i \in DOMAIN h.slots /\ IsSlot(h.slots[i])
        BY <1>1, SeqFacts DEF WellFormedHead
      <4> QED
        BY <3>0, <3>1, <4>1 DEF IsSlot
    <3> QED
      BY <1>1, <2>1, <3>3, <3>4, <3>5 DEF WellFormedHead, Stored
  <2>2. CASE s.f = "p"
    <3>0. PICK g, j, x : g = h.slots /\ j = s.i /\ x = s.v
      OBVIOUS
    <3>1. PICK r : r = [g EXCEPT ![j].p = x]
      OBVIOUS
    <3>2. v = [h EXCEPT !.slots = r]
      BY <1>2, <2>2, <3>0, <3>1
    <3>3. DOMAIN v = DOMAIN h /\ v.lock = h.lock /\ v.sequence = h.sequence /\ v.slots = r
          /\ v.linked = h.linked
      BY <1>1, <3>2 DEF WellFormedHead
    <3>4. IsSeq(r) /\ Len(r) = Len(h.slots) /\ \A i \in 1 .. Len(h.slots) : IsSlot(r[i])
      <4>1. IsSeq(g) /\ \A i \in 1 .. Len(g) : IsSlot(g[i])
        BY <1>1, <3>0 DEF WellFormedHead
      <4>2. IsSeq(r) /\ Len(r) = Len(g) /\ \A i \in 1 .. Len(g) : IsSlot(r[i])
        <5>1. SlotSet(g, j, x, r)
          BY <3>1 DEF SlotSet
        <5> QED
          BY <4>1, <5>1, SlotWritten
      <4> QED
        BY <3>0, <4>2
    <3>5. ASSUME NEW i \in 1 .. Len(h.slots)
          PROVE  r[i].p = (IF s.i = i THEN s.v ELSE h.slots[i].p) /\ r[i].h = h.slots[i].h
      <4>1. i \in DOMAIN h.slots /\ IsSlot(h.slots[i])
        BY <1>1, SeqFacts DEF WellFormedHead
      <4> QED
        BY <3>0, <3>1, <4>1 DEF IsSlot
    <3> QED
      BY <1>1, <2>2, <3>3, <3>4, <3>5 DEF WellFormedHead, Stored
  <2>3. CASE s.f = "next"
    <3>1. v = [h EXCEPT !.linked = s.v]
      BY <1>2, <2>3
    <3>2. DOMAIN v = DOMAIN h /\ v.lock = h.lock /\ v.sequence = h.sequence /\ v.slots = h.slots
          /\ v.linked = s.v
      BY <1>1, <3>1 DEF WellFormedHead
    <3> QED
      BY <1>1, <2>3, <3>2 DEF WellFormedHead, Stored
  <2> QED
    BY <2>1, <2>2, <2>3
<1>5. Wrote(m, b, v)
  BY <1>3, <1>4, WriteHead DEF TableInv
<1> QED
  BY <1>4, <1>5

(* The map and the bucket in hand of a thread that writes. *)
MayWrite(t) == pc[t] \in {"work", "store"} \/ (pc[t] = "reset" /\ bkt[t] < NB(map[t]))

LEMMA WriterAt ==
    ASSUME TableInv, NEW t \in Threads, MayWrite(t)
    PROVE  /\ map[t] \in 1 .. Len(maps) /\ bkt[t] \in Buckets(map[t]) /\ map[t] = ht_map
           /\ HeadAt(map[t], bkt[t]).lock = t /\ HeadOf(t) = HeadAt(map[t], bkt[t])
<1>0. pc[t] \in {"work", "store", "reset"} /\ (pc[t] = "reset" => bkt[t] < NB(map[t]))
  BY DEF MayWrite
<1>1. map[t] \in 1 .. Len(maps)
  BY <1>0, MapInHand DEF TableInv, WithMap
<1>2. bkt[t] \in Buckets(map[t])
  <2>1. CASE pc[t] = "reset"
    <3>1. NB(map[t]) \in Nat \ {0} /\ bkt[t] \in 0 .. NB(map[t]) /\ bkt[t] < NB(map[t])
      BY <1>0, <1>1, <2>1, ShapeFacts DEF TableInv, ThreadInv, AtBucket
    <3> QED
      BY <3>1 DEF Buckets
  <2> QED
    BY <1>0, <2>1, BucketInMap
<1>3. map[t] = ht_map
  BY <1>0 DEF TableInv, ThreadInv, MapIsCurrent
<1>4. Holds(t, bkt[t])
  BY <1>0 DEF TableInv, BaseInv, KindInv, Holds
<1>5. HeadAt(map[t], bkt[t]).lock = t
  BY <1>0, <1>2, <1>4 DEF TableInv, ThreadInv, LocksHeld, WithMap
<1> QED
  BY <1>1, <1>2, <1>3, <1>5 DEF HeadOf, HeadAt

(* The fields that stores are for. *)
Fields(S) == \A s \in S : s.f \in {"h", "p", "next"}

LEMMA FieldsOf ==
    /\ \A i, h, p : Fields(SetSlot(i, h, p))
    /\ \A i, v : Fields({Store("next", i, v)})
    /\ Fields({})
    /\ \A S, T : Fields(S) /\ Fields(T) => Fields(S \cup T)
BY DEF Fields, SetSlot, Store

(* Thread t goes on at l with the stores of S to do. *)
LEMMA StoresTable ==
    ASSUME TableInv, BaseInv', NEW t \in Threads, NEW l, NEW S,
           Goto(t, l) \/ (pc' = pc /\ l = pc[t]),
           pend' = Set(pend, t, S) \/ (pend' = pend /\ S = pend[t]), l = "store" => Fields(S),
           UNCHANGED <<ht_map, ht_lock>>, UNCHANGED <<op, map, pos, version, found>>,
           \A u \in Threads : u # t => bkt'[u] = bkt[u] /\ needs_resize'[u] = needs_resize[u],
           DOMAIN bkt' = Threads, DOMAIN seen' = Threads, DOMAIN result' = Threads, WritesOwn(t),
           pc[t] \in {"work", "store", "reset"}, bkt[t] \in Buckets(map[t]),
           \/ pc[t] # "reset" /\ op[t].kind \in WriteKinds
              /\ l \in {"store", "unlock"} /\ bkt'[t] = bkt[t]
           \/ /\ pc[t] # "work" /\ op[t].kind \in ResetKinds
              /\ \/ l = "store" /\ bkt'[t] = bkt[t]
                 \/ l = "reset" /\ bkt'[t] = bkt[t] + 1
    PROVE  TableInv'
<1> USE DEF TableInv
<1>1. pc'[t] = l /\ \A u \in Threads : u # t => pc'[u] = pc[u]
  BY DEF Goto, BaseInv, TablesInv
<1>2. pend'[t] = S /\ \A u \in Threads : u # t => pend'[u] = pend[u]
  BY DEF Set, LocalsInv
<1>3. LocalsInv'
  BY DEF LocalsInv, Set
<1>4. \A u \in Threads : u # t => Still(u)
  BY <1>1, <1>2 DEF Still, Kept
<1>5. pc'[t] = "store" => \A s \in pend'[t] : s.f \in {"h", "p", "next"}
  BY <1>1, <1>2 DEF Fields
<1> QED
  BY <1>1, <1>3, <1>4, <1>5, WriterTable

LEMMA InsertTable == ASSUME TableInv, BaseInv', NEW t \in Threads, InsertLocked(t) PROVE TableInv'
<1> USE DEF TableInv
<1>1. /\ pc[t] = "work" /\ op[t].kind = "insert" /\ UNCHANGED <<ht_map, ht_lock>>
      /\ UNCHANGED <<op, map, pos, version, found>> /\ UNCHANGED bkt
  BY DEF InsertLocked
<1>2. map[t] \in 1 .. Len(maps) /\ bkt[t] \in Buckets(map[t])
  BY <1>1, WriterAt DEF MayWrite
<1>3. PICK l \in {"unlock", "store"} : Goto(t, l) /\ (l = "unlock" => UNCHANGED <<maps, pend>>)
  BY DEF InsertLocked
<1>4. pc'[t] = l
  BY <1>3 DEF Goto, BaseInv, TablesInv
<1>5. \E S : /\ pend' = Set(pend, t, S) \/ (pend' = pend /\ S = pend[t])
             /\ (l = "store" => Fields(S))
  <2>1. CASE l = "unlock"
    BY <1>3, <2>1
  <2>2. CASE l = "store"
    <3>1. \E i, p, v : pend' = Set(pend, t, SetSlot(i, Hash[p], p) \cup v)
                       /\ (v = {Store("next", i, LinkedWith(i))} \/ v = {})
      BY <1>1, <1>4, <2>2 DEF InsertLocked, Goto, BaseInv, TablesInv
    <3>2. \A i, p, v : v = {Store("next", i, LinkedWith(i))} \/ v = {} =>
             Fields(SetSlot(i, Hash[p], p) \cup v)
      BY FieldsOf DEF Fields
    <3> QED
      BY <3>1, <3>2
  <2> QED
    BY <2>1, <2>2
<1>6. /\ DOMAIN bkt' = Threads /\ DOMAIN seen' = Threads /\ DOMAIN result' = Threads
      /\ \A u \in Threads : u # t => needs_resize'[u] = needs_resize[u]
  BY <1>1 DEF InsertLocked, LocalsInv, Set, Become, BaseInv, TablesInv
<1>8. WritesOwn(t)
  <2>1. CASE l = "unlock"
    BY <1>3, <2>1 DEF WritesOwn
  <2>2. CASE l = "store"
    <3>2. \E v : Wrote(map[t], bkt[t], v) /\ v.lock = HeadAt(map[t], bkt[t]).lock
      BY <1>2, <1>4, <2>2, InsertWrote
    <3> QED
      BY <3>2 DEF WritesOwn
  <2> QED
    BY <2>1, <2>2
<1> QED
  BY <1>1, <1>2, <1>3, <1>5, <1>6, <1>8, StoresTable DEF WriteKinds

LEMMA TurnsOwn ==
    ASSUME TableInv, NEW t \in Threads, map[t] \in 1 .. Len(maps), bkt[t] \in Buckets(map[t]),
           Turns(map[t], bkt[t])
    PROVE  \E v : /\ Wrote(map[t], bkt[t], v) /\ v.lock = HeadAt(map[t], bkt[t]).lock
                  /\ v.sequence = HeadAt(map[t], bkt[t]).sequence + 1
                  /\ v.linked = HeadAt(map[t], bkt[t]).linked
                  /\ v.slots = HeadAt(map[t], bkt[t]).slots
<1>1. PICK m \in 1 .. Len(maps) : m = map[t]
  OBVIOUS
<1>2. PICK b \in Buckets(m) : b = bkt[t]
  BY <1>1
<1>3. Turns(m, b)
  BY <1>1, <1>2
<1>4. PICK h : h = HeadAt(m, b)
  OBVIOUS
<1>5. PICK v : /\ Wrote(m, b, v) /\ v.lock = h.lock /\ v.sequence = h.sequence + 1
               /\ v.linked = h.linked /\ v.slots = h.slots
  BY <1>3, <1>4, SequenceWrote
<1> QED
  BY <1>1, <1>2, <1>4, <1>5

LEMMA RemoveFields == ASSUME NEW g, NEW i PROVE Fields(RemoveEntry(g, i))
BY FieldsOf DEF RemoveEntry

LEMMA RemoveTable == ASSUME TableInv, BaseInv', NEW t \in Threads, RemoveLocked(t) PROVE TableInv'
<1> USE DEF TableInv
<1>1. /\ pc[t] = "work" /\ op[t].kind = "remove" /\ UNCHANGED <<ht_map, ht_lock>>
      /\ UNCHANGED <<op, map, pos, version, found>> /\ UNCHANGED <<bkt, needs_resize>>
  BY DEF RemoveLocked
<1>2. map[t] \in 1 .. Len(maps) /\ bkt[t] \in Buckets(map[t])
  BY <1>1, WriterAt DEF MayWrite
<1>3. \/ Goto(t, "unlock") /\ UNCHANGED <<maps, pend>>
      \/ /\ Goto(t, "store") /\ Turns(map[t], bkt[t])
         /\ \E g, i : pend' = Set(pend, t, RemoveEntry(g, i))
  BY DEF RemoveLocked, Turns
<1>4. DOMAIN bkt' = Threads /\ DOMAIN seen' = Threads /\ DOMAIN result' = Threads
  BY <1>1 DEF RemoveLocked, LocalsInv, Set, Become
<1>5. CASE Goto(t, "unlock") /\ UNCHANGED <<maps, pend>>
  <2>1. pend' = pend /\ WritesOwn(t)
    BY <1>5 DEF WritesOwn
  <2>2. PICK l, S : l = "unlock" /\ S = pend[t]
    OBVIOUS
  <2>3. Goto(t, l) /\ (l = "store" => Fields(S)) /\ l \in {"store", "unlock"}
    BY <1>5, <2>2
  <2>4. op[t].kind \in WriteKinds /\ bkt'[t] = bkt[t]
    BY <1>1 DEF WriteKinds
  <2> QED
    BY <1>1, <1>2, <1>4, <2>1, <2>2, <2>3, <2>4, StoresTable
<1>6. CASE Goto(t, "store") /\ Turns(map[t], bkt[t]) 
         /\ \E g, i : pend' = Set(pend, t, RemoveEntry(g, i))
  <2>1. PICK S : pend' = Set(pend, t, S) /\ Fields(S)
    BY <1>6, RemoveFields
  <2>2. WritesOwn(t)
    BY <1>2, <1>6, TurnsOwn DEF WritesOwn
  <2> QED
    BY <1>1, <1>2, <1>4, <1>6, <2>1, <2>2, StoresTable DEF WriteKinds
<1> QED
  BY <1>3, <1>5, <1>6

LEMMA ResetTable == ASSUME TableInv, BaseInv', NEW t \in Threads, ResetBucket(t) PROVE TableInv'
<1> USE DEF TableInv
<1>1. /\ pc[t] = "reset" /\ bkt[t] < NB(map[t]) /\ UNCHANGED <<ht_map, ht_lock>>
      /\ UNCHANGED <<op, map, pos, version, found>> /\ UNCHANGED <<bkt, needs_resize, result>>
      /\ Goto(t, "store") /\ Turns(map[t], bkt[t])
  BY DEF ResetBucket, NB, Turns
<1>2. map[t] \in 1 .. Len(maps) /\ bkt[t] \in Buckets(map[t])
  BY <1>1, WriterAt DEF MayWrite
<1>3. DOMAIN bkt' = Threads /\ DOMAIN seen' = Threads /\ DOMAIN result' = Threads
  BY <1>1 DEF ResetBucket, LocalsInv, Set, Become
<1>4. PICK S : pend' = Set(pend, t, S) /\ Fields(S)
  <2>1. PICK c : pend' = Set(pend, t, UNION {SetSlot(i, 0, NULL) : i \in c})
    BY DEF ResetBucket
  <2>2. Fields(UNION {SetSlot(i, 0, NULL) : i \in c})
    BY FieldsOf DEF Fields
  <2> QED
    BY <2>1, <2>2
<1>5. WritesOwn(t)
  BY <1>1, <1>2, TurnsOwn DEF WritesOwn
<1>6. op[t].kind \in ResetKinds
  BY <1>1 DEF BaseInv, KindInv
<1> QED
  BY <1>1, <1>2, <1>3, <1>4, <1>5, <1>6, StoresTable

LEMMA WriteEndTable == ASSUME TableInv, BaseInv', NEW t \in Threads, WriteEnd(t) PROVE TableInv'
<1> USE DEF TableInv
<1>1. /\ pc[t] = "store" /\ UNCHANGED <<ht_map, ht_lock>>
      /\ UNCHANGED <<op, map, pos, version, found>>
            /\ UNCHANGED <<needs_resize, pend, seen, result>>
      /\ Turns(map[t], bkt[t])
  BY DEF WriteEnd, Turns, histVars
<1>2. map[t] \in 1 .. Len(maps) /\ bkt[t] \in Buckets(map[t])
  BY <1>1, WriterAt DEF MayWrite
<1>3. \/ op[t].kind \in WriteKinds /\ Goto(t, "unlock") /\ bkt' = bkt
      \/ op[t].kind \in ResetKinds /\ Goto(t, "reset") /\ bkt' = Set(bkt, t, bkt[t] + 1)
  BY <1>1 DEF WriteEnd, BaseInv, KindInv, WriteKinds, ResetKinds
<1>4. /\ DOMAIN bkt' = Threads /\ DOMAIN seen' = Threads /\ DOMAIN result' = Threads
      /\ \A u \in Threads : u # t => bkt'[u] = bkt[u]
      /\ bkt' = Set(bkt, t, bkt[t] + 1) => bkt'[t] = bkt[t] + 1
  BY <1>1, <1>3 DEF LocalsInv, Set
<1>5. pend' = pend
  BY <1>1
<1>6. WritesOwn(t)
  BY <1>1, <1>2, TurnsOwn DEF WritesOwn
<1>7. CASE op[t].kind \in WriteKinds /\ Goto(t, "unlock") /\ bkt' = bkt
  <2>1. PICK l, S : l = "unlock" /\ S = pend[t]
    OBVIOUS
  <2>2. Goto(t, l) /\ (l = "store" => Fields(S)) /\ l \in {"store", "unlock"} /\ bkt'[t] = bkt[t]
    BY <1>7, <2>1
  <2> QED
    BY <1>1, <1>2, <1>4, <1>5, <1>6, <1>7, <2>1, <2>2, StoresTable
<1>8. CASE op[t].kind \in ResetKinds /\ Goto(t, "reset") /\ bkt' = Set(bkt, t, bkt[t] + 1)
  <2>1. PICK l, S : l = "reset" /\ S = pend[t]
    OBVIOUS
  <2>2. Goto(t, l) /\ (l = "store" => Fields(S)) /\ bkt'[t] = bkt[t] + 1
    BY <1>4, <1>8, <2>1
  <2> QED
    BY <1>1, <1>2, <1>4, <1>5, <1>6, <1>8, <2>1, <2>2, StoresTable
<1> QED
  BY <1>3, <1>7, <1>8

(* What a store makes of the bucket in hand. *)
LEMMA DoStoreOwn ==
    ASSUME TableInv, NEW t \in Threads, DoStore(t)
    PROVE  \E s \in pend[t] : \E v :
              /\ pend' = Set(pend, t, pend[t] \ {s}) /\ s.f \in {"h", "p", "next"}
              /\ Wrote(map[t], bkt[t], v) /\ Stored(HeadAt(map[t], bkt[t]), s, v)
<1>1. pc[t] = "store" /\ map[t] \in 1 .. Len(maps) /\ bkt[t] \in Buckets(map[t])
  BY WriterAt DEF DoStore, MayWrite
<1>2. PICK m \in 1 .. Len(maps) : m = map[t]
  BY <1>1
<1>3. PICK b \in Buckets(m) : b = bkt[t]
  BY <1>1, <1>2
<1>4. PICK h : h = HeadAt(m, b)
  OBVIOUS
<1>5. PICK s \in pend[t] :
         pend' = Set(pend, t, pend[t] \ {s}) /\ Stores(m, b, s)
  BY <1>2, <1>3 DEF DoStore, Stores
<1>6. s.f \in {"h", "p", "next"}
  BY <1>1, <1>5 DEF TableInv, ThreadInv, AtBucket
<1>7. PICK v : Wrote(m, b, v) /\ Stored(h, s, v)
  BY <1>4, <1>5, <1>6, StoreWrote
<1> QED
  BY <1>2, <1>3, <1>4, <1>5, <1>6, <1>7

LEMMA DoStoreTable == ASSUME TableInv, BaseInv', NEW t \in Threads, DoStore(t) PROVE TableInv'
<1> USE DEF TableInv
<1>1. /\ pc[t] = "store" /\ UNCHANGED <<ht_map, ht_lock>>
      /\ UNCHANGED <<op, map, pos, version, found>>
            /\ UNCHANGED <<pc, bkt, needs_resize, seen, result>>
  BY DEF DoStore, histVars
<1>2. map[t] \in 1 .. Len(maps) /\ bkt[t] \in Buckets(map[t])
  BY <1>1, WriterAt DEF MayWrite
<1>3. PICK s \in pend[t] : \E v :
              /\ pend' = Set(pend, t, pend[t] \ {s}) /\ s.f \in {"h", "p", "next"}
              /\ Wrote(map[t], bkt[t], v) /\ Stored(HeadAt(map[t], bkt[t]), s, v)
  BY DoStoreOwn
<1>4. Fields(pend[t] \ {s})
  BY <1>1 DEF ThreadInv, AtBucket, Fields
<1>5. WritesOwn(t)
  BY <1>3 DEF WritesOwn, Stored
<1>7. op[t].kind \in WriteKinds \cup ResetKinds
  BY <1>1 DEF BaseInv, KindInv
<1>8. DOMAIN bkt' = Threads /\ DOMAIN seen' = Threads /\ DOMAIN result' = Threads
  BY <1>1 DEF LocalsInv
<1> QED
  BY <1>1, <1>2, <1>3, <1>4, <1>5, <1>7, <1>8, StoresTable

-----------------------------------------------------------------------------
(* What the buckets of the current map hold. *)

(* Thread t is writing to bucket b of map m. *)
AtStore(t, m, b) == pc[t] = "store" /\ map[t] = m /\ bkt[t] = b

(* The stores of S make the slots of g out of those of h. *)
Toward(h, S, g) ==
    /\ \A i \in 1 .. Len(h.slots) : h.slots[i].h = g[i].h \/ Store("h", i, g[i].h) \in S
    /\ \A i \in 1 .. Len(h.slots) : h.slots[i].p = g[i].p \/ Store("p", i, g[i].p) \in S
    /\ h.linked = Len(h.slots) \/ \E s \in S : s.f = "next"
    /\ \A s \in S : /\ s.f = "h" => s.v = g[s.i].h
                    /\ s.f = "p" => s.v = g[s.i].p
                    /\ s.f = "next" => s.v = Len(h.slots)

(* A bucket that holds the pointers of P once the stores of S are done. *)
Writing(h, S, P) ==
    h.sequence % 2 # 0 /\ \E g : Exact(g, Len(h.slots), P) /\ Toward(h, S, g)

DataAt(m, b, P) ==
    /\ (\A t \in Threads : ~ AtStore(t, m, b)) => Settled(HeadAt(m, b), P)
    /\ \A t \in Threads : AtStore(t, m, b) => Writing(HeadAt(m, b), pend[t], P)

CurrentExact ==
    /\ contents \subseteq Pointers
    /\ \A b \in Buckets(ht_map) : DataAt(ht_map, b, Part(contents, NB(ht_map), b))

DataInv == TableInv /\ CurrentExact

SameData(h, v) == v.sequence = h.sequence /\ v.linked = h.linked /\ v.slots = h.slots

LEMMA SameSettled ==
    ASSUME NEW h, NEW v, NEW P, SameData(h, v)
    PROVE  /\ Settled(h, P) => Settled(v, P)
           /\ \A S : Writing(h, S, P) => Writing(v, S, P)
<1>1. Settled(h, P) => Settled(v, P)
  BY DEF SameData, Settled
<1>2. ASSUME NEW S, NEW g, Toward(h, S, g) PROVE Toward(v, S, g)
  BY <1>2 DEF SameData, Toward
<1> QED
  BY <1>1, <1>2 DEF SameData, Writing

(* The thread that writes to a bucket has its lock. *)
LEMMA WriterAlone ==
    ASSUME TableInv, NEW t \in Threads, NEW u \in Threads, NEW b \in Buckets(map[t]),
           map[t] \in 1 .. Len(maps), HeadAt(map[t], b).lock = t, AtStore(u, map[t], b)
    PROVE  u = t
<1>1. pc[u] = "store" /\ map[u] = map[t] /\ bkt[u] = b
  BY DEF AtStore
<1>2. Holds(u, b)
  BY <1>1 DEF TableInv, BaseInv, KindInv, Holds
<1>3. HeadAt(map[u], b).lock = u
  BY <1>1, <1>2 DEF TableInv, ThreadInv, LocksHeld, WithMap
<1> QED
  BY <1>1, <1>3

(* A step that neither begins, continues nor ends a write section. *)
Quiet(t) ==
    /\ Len(maps') = Len(maps) /\ ht_map' = ht_map
    /\ \A m \in 1 .. Len(maps) : NB(m)' = NB(m)
    /\ \A m \in 1 .. Len(maps) : \A b \in Buckets(m) : SameData(HeadAt(m, b), HeadAt(m, b)')
    /\ \A u \in Threads : u # t => Still(u)
    /\ contents' = contents
    /\ pc[t] # "store" /\ pc'[t] # "store"

LEMMA QuietData == ASSUME DataInv, NEW t \in Threads, Quiet(t) PROVE CurrentExact'
<1>1. PICK m \in 1 .. Len(maps) : m = ht_map
  BY DEF DataInv, TableInv, BaseInv, TablesInv
<1>2. NB(m)' = NB(m) /\ Buckets(m)' = Buckets(m)
  BY DEF Quiet, Buckets
<1>3. ASSUME NEW b \in Buckets(m), NEW P, DataAt(m, b, P) PROVE DataAt(m, b, P)'
  <2>1. SameData(HeadAt(m, b), HeadAt(m, b)')
    BY DEF Quiet
  <2>2. ASSUME NEW u \in Threads PROVE /\ AtStore(u, m, b)' <=> AtStore(u, m, b)
                                       /\ AtStore(u, m, b) => pend'[u] = pend[u]
    BY DEF Quiet, AtStore, Still, Kept
  <2>3. PICK h, v : h = HeadAt(m, b) /\ v = HeadAt(m, b)'
    OBVIOUS
  <2>4. (Settled(h, P) => Settled(v, P)) /\ \A S : Writing(h, S, P) => Writing(v, S, P)
    BY <2>1, <2>3, SameSettled
  <2>5. (\A u \in Threads : ~ AtStore(u, m, b)') => Settled(v, P)
    BY <1>3, <2>2, <2>3, <2>4 DEF DataAt
  <2>6. ASSUME NEW u \in Threads, AtStore(u, m, b)' PROVE Writing(v, pend'[u], P)
    BY <1>3, <2>2, <2>3, <2>4, <2>6 DEF DataAt
  <2> QED
    BY <2>3, <2>5, <2>6 DEF DataAt
<1>4. ht_map' = m /\ contents' = contents
  BY <1>1 DEF Quiet
<1>5. NB(ht_map)' = NB(m) /\ Buckets(ht_map)' = Buckets(m)
  BY <1>2, <1>4 DEF NB, Buckets
<1>6. ASSUME NEW b \in Buckets(m)
      PROVE  DataAt(ht_map, b, Part(contents, NB(ht_map), b))'
  <2>1. PICK P : P = Part(contents, NB(m), b)
    OBVIOUS
  <2>2. DataAt(m, b, P)
    BY <1>1, <1>6, <2>1 DEF DataInv, CurrentExact
  <2>3. DataAt(m, b, P)'
    BY <1>3, <2>2
  <2>4. Part(contents, NB(ht_map), b)' = P
    BY <1>4, <1>5, <2>1 DEF Part
  <2> QED
    BY <1>4, <2>3, <2>4 DEF DataAt, AtStore, HeadAt
<1> QED
  BY <1>1, <1>4, <1>5, <1>6 DEF DataInv, CurrentExact

(* What the bucket in hand holds before thread t writes to it. *)
LEMMA InHand ==
    ASSUME DataInv, NEW t \in Threads,
           MayWrite(t),
           NEW m, m = map[t], NEW b, b = bkt[t], NEW h, h = HeadAt(m, b),
           NEW P, P = Part(contents, NB(m), b)
    PROVE  /\ m \in 1 .. Len(maps) /\ m = ht_map /\ b \in Buckets(m) /\ h.lock = t
           /\ HeadOf(t) = h /\ WellFormedHead(h) /\ P \subseteq Pointers
           /\ pc[t] # "store" => Settled(h, P)
           /\ pc[t] = "store" => Writing(h, pend[t], P)
<1>1. /\ m \in 1 .. Len(maps) /\ m = ht_map /\ b \in Buckets(m) /\ h.lock = t
      /\ HeadOf(t) = h
  BY WriterAt DEF DataInv
<1>2. WellFormedHead(h) /\ P \subseteq Pointers
  BY <1>1, ShapeFacts DEF DataInv, TableInv, CurrentExact, Part
<1>3. DataAt(m, b, P)
  BY <1>1 DEF DataInv, CurrentExact
<1>4. CASE pc[t] = "store"
  <2>1. AtStore(t, m, b)
    BY <1>4 DEF AtStore
  <2> QED
    BY <1>1, <1>2, <1>3, <1>4, <2>1 DEF DataAt
<1>5. CASE pc[t] # "store"
  <2>1. ASSUME NEW u \in Threads, AtStore(u, m, b) PROVE FALSE
    <3>1. u = t
      BY <1>1, <2>1, WriterAlone DEF DataInv
    <3> QED
      BY <1>5, <2>1, <3>1 DEF AtStore
  <2> QED
    BY <1>1, <1>2, <1>3, <1>5, <2>1 DEF DataAt
<1> QED
  BY <1>4, <1>5

LEMMA WriterData ==
    ASSUME DataInv, NEW t \in Threads,
           MayWrite(t),
           NEW m, m = map[t], NEW b, b = bkt[t], NEW v, Wrote(m, b, v),
           UNCHANGED <<ht_map, map>>, \A u \in Threads : u # t => Still(u),
           pc'[t] = "store" => bkt'[t] = bkt[t],
           contents' \subseteq Pointers,
           NEW W, W = Part(contents', NB(m), b),
           \A c \in Buckets(m) : c # b => Part(contents', NB(m), c) = Part(contents, NB(m), c),
           pc'[t] = "store" => Writing(v, pend'[t], W),
           pc'[t] # "store" => Settled(v, W)
    PROVE  CurrentExact'
<1>1. m \in 1 .. Len(maps) /\ m = ht_map /\ b \in Buckets(m) /\ HeadAt(m, b).lock = t
  BY WriterAt DEF DataInv
<1>2. /\ NB(m)' = NB(m) /\ Buckets(m)' = Buckets(m)
      /\ \A c \in Buckets(m) : HeadAt(m, c)' = IF c = b THEN v ELSE HeadAt(m, c)
  BY <1>1 DEF Wrote, Buckets
<1>3. ht_map' = m /\ map'[t] = m
  BY <1>1
<1>4. NB(ht_map)' = NB(m) /\ Buckets(ht_map)' = Buckets(m)
  BY <1>2, <1>3 DEF NB, Buckets
<1>5. ASSUME NEW u \in Threads, u # t, NEW c PROVE /\ AtStore(u, m, c)' <=> AtStore(u, m, c)
                                                  /\ pend'[u] = pend[u]
  BY <1>5 DEF AtStore, Still, Kept
<1>6. ASSUME NEW u \in Threads, u # t PROVE ~ AtStore(u, m, b)
  BY <1>1, <1>6, WriterAlone DEF DataInv
<1>7. DataAt(m, b, W)'
  <2>1. AtStore(t, m, b)' <=> pc'[t] = "store"
    BY <1>3 DEF AtStore
  <2>2. HeadAt(m, b)' = v
    BY <1>1, <1>2
  <2>3. \A u \in Threads : AtStore(u, m, b)' => u = t
    BY <1>5, <1>6
  <2> QED
    BY <2>1, <2>2, <2>3 DEF DataAt
<1>8. ASSUME NEW c \in Buckets(m), c # b, NEW P, DataAt(m, c, P) PROVE DataAt(m, c, P)'
  <2>1. ~ AtStore(t, m, c) /\ ~ AtStore(t, m, c)'
    BY <1>8 DEF AtStore
  <2>2. HeadAt(m, c)' = HeadAt(m, c)
    BY <1>2, <1>8
  <2>3. \A u \in Threads : AtStore(u, m, c)' <=> AtStore(u, m, c)
    BY <1>5, <2>1
  <2>4. \A u \in Threads : AtStore(u, m, c) => pend'[u] = pend[u]
    BY <1>5, <2>1
  <2> QED
    BY <1>8, <2>2, <2>3, <2>4 DEF DataAt
<1>9. ASSUME NEW c \in Buckets(m)
      PROVE  DataAt(ht_map, c, Part(contents, NB(ht_map), c))'
  <2>1. PICK P : P = Part(contents', NB(m), c)
    OBVIOUS
  <2>2. DataAt(m, c, P)'
    <3>1. CASE c = b
      BY <1>7, <2>1, <3>1
    <3>2. CASE c # b
      <4>1. P = Part(contents, NB(m), c)
        BY <2>1, <3>2
      <4>2. DataAt(m, c, P)
        BY <1>1, <4>1 DEF DataInv, CurrentExact
      <4> QED
        BY <1>8, <3>2, <4>2
    <3> QED
      BY <3>1, <3>2
  <2>3. Part(contents, NB(ht_map), c)' = P
    BY <1>4, <2>1 DEF Part
  <2> QED
    BY <1>3, <2>2, <2>3 DEF DataAt, AtStore, HeadAt
<1> QED
  BY <1>4, <1>9 DEF CurrentExact

-----------------------------------------------------------------------------
(* Insertion, removal and reset, as stores to a chain. *)

(* One pointer more. *)
LEMMA InsertExact ==
    ASSUME NEW n \in Nat, NEW r, NEW k, NEW P, P \subseteq Pointers, Exactly(r, n, k, P), k < n,
           NEW p \in Pointers, p \notin P,
           NEW g, g = [i \in 1 .. n |-> IF i = k + 1 THEN [h |-> Hash[p], p |-> p] ELSE r[i]]
    PROVE  Exactly(g, n, k + 1, P \cup {p})
<1>1. k \in Nat /\ k + 1 \in 1 .. n
  BY DEF Exactly
<1>2. /\ g[k + 1].p = p /\ g[k + 1].h = Hash[p]
      /\ \A i \in 1 .. n : i # k + 1 => g[i] = r[i]
  BY <1>1
<1>3. \A i \in 1 .. k + 1 : i = k + 1 \/ (i \in 1 .. k /\ g[i] = r[i])
  BY <1>1, <1>2
<1>4. \A i \in 1 .. k : g[i] = r[i] /\ i \in 1 .. k + 1
  BY <1>1, <1>2
<1>5. \A i \in 1 .. k + 1 : g[i].p \in P \cup {p} /\ g[i].h = Hash[g[i].p]
  BY <1>2, <1>3 DEF Exactly
<1>6. \A i \in 1 .. n : i > k + 1 => g[i].p = NULL /\ g[i].h = 0
  BY <1>1, <1>2 DEF Exactly
<1>7. ASSUME NEW i \in 1 .. k + 1, NEW j \in 1 .. k + 1, g[i].p = g[j].p PROVE i = j
  BY <1>2, <1>3, <1>7 DEF Exactly
<1>8. ASSUME NEW x \in P \cup {p} PROVE \E i \in 1 .. k + 1 : g[i].p = x
  <2>1. CASE x = p
    <3>1. k + 1 \in 1 .. k + 1 /\ g[k + 1].p = x
      BY <1>1, <1>2, <2>1
    <3> QED
      BY <3>1
  <2>2. CASE x \in P
    <3>1. PICK i \in 1 .. k : r[i].p = x
      BY <2>2 DEF Exactly
    <3> QED
      BY <1>4, <3>1
  <2> QED
    BY <2>1, <2>2
<1>9. k + 1 \in 0 .. n
  BY <1>1
<1> QED
  BY <1>5, <1>6, <1>7, <1>8, <1>9 DEF Exactly

(* One pointer less: the last one takes its place. *)
LEMMA RemoveExact ==
    ASSUME NEW n \in Nat, NEW r, NEW k, NEW P, P \subseteq Pointers, Exactly(r, n, k, P),
           NEW i \in 1 .. k,
           NEW g, g = [j \in 1 .. n |-> IF j = k THEN EmptySlot ELSE IF j = i THEN r[k] ELSE r[j]]
    PROVE  Exactly(g, n, k - 1, P \ {r[i].p})
<1>1. k \in Nat /\ k \in 1 .. n /\ k - 1 \in 0 .. n /\ i \in 1 .. n
  BY DEF Exactly
<1>2. \A j \in 1 .. n : g[j] = IF j = k THEN EmptySlot ELSE IF j = i THEN r[k] ELSE r[j]
  OBVIOUS
<1>3. PICK f : f = [j \in 1 .. k - 1 |-> IF j = i THEN k ELSE j]
  OBVIOUS
<1>4. ASSUME NEW j \in 1 .. k - 1
      PROVE  f[j] \in 1 .. k /\ f[j] # i /\ g[j] = r[f[j]] /\ j \in 1 .. n
  BY <1>1, <1>2, <1>3
<1>5. ASSUME NEW j \in 1 .. k - 1, NEW l \in 1 .. k - 1, f[j] = f[l] PROVE j = l
  BY <1>1, <1>3, <1>5
<1>6. ASSUME NEW x \in 1 .. k, x # i PROVE \E j \in 1 .. k - 1 : f[j] = x
  <2>1. CASE x = k
    BY <1>1, <1>3, <1>6, <2>1
  <2>2. CASE x # k
    BY <1>1, <1>3, <1>6, <2>2
  <2> QED
    BY <2>1, <2>2
<1>7. \A x, y \in 1 .. k : r[x].p = r[y].p => x = y
  BY DEF Exactly
<1>8. ASSUME NEW j \in 1 .. k - 1 PROVE g[j].p \in P \ {r[i].p} /\ g[j].h = Hash[g[j].p]
  <2>1. PICK x \in 1 .. k : x # i /\ g[j] = r[x]
    BY <1>4
  <2>2. r[x].p \in P /\ r[x].h = Hash[r[x].p]
    BY DEF Exactly
  <2>3. r[x].p # r[i].p
    BY <1>7, <2>1
  <2> QED
    BY <2>1, <2>2, <2>3
<1>9. ASSUME NEW j \in 1 .. n, j > k - 1 PROVE g[j].p = NULL /\ g[j].h = 0
  <2>1. CASE j = k
    BY <1>2, <2>1 DEF EmptySlot
  <2>2. CASE j > k
    BY <1>1, <1>2, <2>2 DEF Exactly
  <2> QED
    BY <1>1, <1>9, <2>1, <2>2
<1>10. ASSUME NEW j \in 1 .. k - 1, NEW l \in 1 .. k - 1, g[j].p = g[l].p PROVE j = l
  <2>1. f[j] \in 1 .. k /\ f[l] \in 1 .. k /\ r[f[j]].p = r[f[l]].p
    BY <1>4, <1>10
  <2>2. f[j] = f[l]
    BY <1>7, <2>1
  <2> QED
    BY <1>5, <2>2
<1>11. ASSUME NEW q \in P \ {r[i].p} PROVE \E j \in 1 .. k - 1 : g[j].p = q
  <2>1. PICK x \in 1 .. k : r[x].p = q
    BY DEF Exactly
  <2>2. x # i
    BY <1>11, <2>1
  <2>3. PICK j \in 1 .. k - 1 : f[j] = x
    BY <1>6, <2>2
  <2> QED
    BY <1>4, <2>1, <2>3
<1> QED
  BY <1>1, <1>8, <1>9, <1>10, <1>11 DEF Exactly

LEMMA EvenOdd ==
    /\ \A s \in Nat : s % 2 = 0 => (s + 1) % 2 # 0
    /\ \A s \in Nat : s % 2 # 0 => (s + 1) % 2 = 0
OBVIOUS

(* A chain with more room holds the same. *)
LEMMA RoomExact ==
    ASSUME NEW n \in Nat, NEW g, NEW k, NEW P, Exactly(g, n, k, P), NEW d \in Nat, NEW r,
           \A i \in 1 .. n : r[i] = g[i],
           \A i \in 1 .. n + d : i > n => r[i] = EmptySlot
    PROVE  Exactly(r, n + d, k, P)
<1>1. k \in 0 .. n /\ k \in 0 .. n + d /\ \A i \in 1 .. k : i \in 1 .. n /\ r[i] = g[i]
  BY DEF Exactly
<1>2. ASSUME NEW i \in 1 .. n + d, i > k PROVE r[i].p = NULL /\ r[i].h = 0
  <2>1. CASE i > n
    BY <2>1 DEF EmptySlot
  <2>2. CASE i <= n
    <3>1. i \in 1 .. n /\ r[i] = g[i]
      BY <2>2
    <3> QED
      BY <1>2, <3>1 DEF Exactly
  <2> QED
    BY <2>1, <2>2
<1>3. \A i \in 1 .. k : r[i].p \in P /\ r[i].h = Hash[r[i].p]
  BY <1>1 DEF Exactly
<1>4. \A i, j \in 1 .. k : r[i].p = r[j].p => i = j
  BY <1>1 DEF Exactly
<1>5. \A p \in P : \E i \in 1 .. k : r[i].p = p
  BY <1>1 DEF Exactly
<1> QED
  BY <1>1, <1>2, <1>3, <1>4, <1>5 DEF Exactly

(* The stores of qht_insert__locked. *)
InsertStores(k, p, full) ==
    SetSlot(k + 1, Hash[p], p) \cup (IF full THEN {Store("next", k + 1, LinkedWith(k + 1))} ELSE {})

LEMMA InsertToward ==
    ASSUME NEW v, IsSeq(v.slots), NEW n \in Nat, n = Len(v.slots), NEW p \in Pointers,
           NEW k \in Nat,
           k + 1 \in 1 .. n, NEW full,
           ~ full => v.linked = n, full => LinkedWith(k + 1) = n,
           NEW g, g = [i \in 1 .. n |-> IF i = k + 1 THEN [h |-> Hash[p], p |-> p] ELSE v.slots[i]]
    PROVE  Toward(v, InsertStores(k, p, full), g)
<1>1. PICK S : S = InsertStores(k, p, full)
  OBVIOUS
<1>2. /\ Store("h", k + 1, Hash[p]) \in S /\ Store("p", k + 1, p) \in S
      /\ full => Store("next", k + 1, n) \in S
  BY <1>1 DEF InsertStores, SetSlot
<1>3. \A s \in S : \/ s = Store("h", k + 1, Hash[p]) \/ s = Store("p", k + 1, p)
                   \/ full /\ s = Store("next", k + 1, n)
  BY <1>1 DEF InsertStores, SetSlot
<1>4. /\ g[k + 1].h = Hash[p] /\ g[k + 1].p = p
      /\ \A i \in 1 .. n : i # k + 1 => g[i] = v.slots[i]
  OBVIOUS
<1>5. \A f, i, x : Store(f, i, x).f = f /\ Store(f, i, x).i = i /\ Store(f, i, x).v = x
  BY DEF Store
<1>6. \A i \in 1 .. n : /\ v.slots[i].h = g[i].h \/ Store("h", i, g[i].h) \in S
                        /\ v.slots[i].p = g[i].p \/ Store("p", i, g[i].p) \in S
  BY <1>2, <1>4
<1>7. v.linked = n \/ \E s \in S : s.f = "next"
  BY <1>2, <1>5
<1>8. ASSUME NEW s \in S PROVE /\ s.f = "h" => s.v = g[s.i].h
                               /\ s.f = "p" => s.v = g[s.i].p
                               /\ s.f = "next" => s.v = n
  <2>1. CASE s = Store("h", k + 1, Hash[p])
    BY <1>4, <1>5, <2>1
  <2>2. CASE s = Store("p", k + 1, p)
    BY <1>4, <1>5, <2>2
  <2>3. CASE s = Store("next", k + 1, n)
    BY <1>4, <1>5, <2>3
  <2> QED
    BY <1>3, <2>1, <2>2, <2>3
<1> QED
  BY <1>1, <1>6, <1>7, <1>8 DEF Toward

(* What qht_insert__locked finds and does. *)
InsertFinds(t, P, p) ==
    /\ pc'[t] = "unlock" /\ p \in P /\ result' = Set(result, t, {})
    /\ UNCHANGED <<maps, pend, contents, seen>>
InsertBegins(t, h, P, p) ==
    /\ pc'[t] = "store" /\ p \notin P /\ result' = Set(result, t, {p})
    /\ Become(contents \cup {p})
    /\ \E k : /\ Exactly(h.slots, Len(h.slots), k, P)
              /\ IsFull(h) <=> k + 1 > Len(h.slots)
              /\ pend' = Set(pend, t, InsertStores(k, p, IsFull(h)))

LEMMA InsertFacts ==
    ASSUME DataInv, NEW t \in Threads, InsertLocked(t),
           NEW m, m = map[t], NEW b, b = bkt[t], NEW h, h = HeadAt(m, b),
           NEW P, P = Part(contents, NB(m), b), NEW p, p = op[t].p
    PROVE  /\ p \in Pointers /\ Hash[p] % NB(m) = b
           /\ InsertFinds(t, P, p) \/ InsertBegins(t, h, P, p)
<1>1. /\ m \in 1 .. Len(maps) /\ HeadOf(t) = h /\ WellFormedHead(h) /\ P \subseteq Pointers
      /\ Settled(h, P) /\ pc[t] = "work" /\ op[t].kind = "insert"
  BY InHand DEF InsertLocked, MayWrite
<1>2. p \in Pointers /\ Hash[p] % NB(m) = b
  BY <1>1 DEF DataInv, TableInv, ThreadInv, AtBucket
<1>3. PICK k \in 0 .. Len(h.slots) : Exactly(h.slots, Len(h.slots), k, P)
  BY <1>1 DEF Settled, Exact
<1>4. IsSeq(h.slots) /\ k \in Nat /\ 1 \in 1 .. k + 1
  BY <1>1, <1>3, SeqFacts DEF WellFormedHead
<1>5. FirstFree(h.slots, 1) = k + 1
  BY <1>1, <1>3, <1>4, FirstFreeIs
<1>6. (\E j \in 1 .. FirstFree(h.slots, 1) - 1 : h.slots[j].p = p) <=> p \in P
  <2>1. 1 .. FirstFree(h.slots, 1) - 1 = 1 .. k
    BY <1>4, <1>5
  <2>2. (\E j \in 1 .. k : h.slots[j].p = p) <=> p \in P
    BY <1>3 DEF Exactly
  <2> QED
    BY <2>1, <2>2
<1>7. DOMAIN pc = Threads
  BY DEF DataInv, TableInv, BaseInv, TablesInv
<1>8. CASE p \in P
  BY <1>1, <1>2, <1>6, <1>7, <1>8 DEF InsertLocked, Goto, InsertFinds
<1>9. CASE p \notin P
  <2>1. IsFull(h) <=> k + 1 > Len(h.slots)
    BY <1>5 DEF IsFull
  <2>2. pc'[t] = "store" /\ result' = Set(result, t, {p}) /\ Become(contents \cup {p})
    BY <1>1, <1>6, <1>7, <1>9 DEF InsertLocked, Goto
  <2>3. pend' = Set(pend, t, InsertStores(k, p, IsFull(h)))
    BY <1>1, <1>5, <1>6, <1>9 DEF InsertLocked, InsertStores, IsFull
  <2> QED
    BY <1>2, <1>3, <1>9, <2>1, <2>2, <2>3 DEF InsertBegins
<1> QED
  BY <1>8, <1>9

(* The pointers of the other buckets stay. *)
GoesTo(p, n, b) == Hash[p] % n = b

LEMMA PartMore ==
    ASSUME NEW C, NEW n, NEW b, NEW p, GoesTo(p, n, b), NEW D, D = C \cup {p}
    PROVE  Part(D, n, b) = Part(C, n, b) \cup {p} /\ \A c : c # b => Part(D, n, c) = Part(C, n, c)
BY DEF Part, GoesTo

LEMMA PartLess ==
    ASSUME NEW C, NEW n, NEW b, NEW p, GoesTo(p, n, b), NEW D, D = C \ {p}
    PROVE  Part(D, n, b) = Part(C, n, b) \ {p} /\ \A c : c # b => Part(D, n, c) = Part(C, n, c)
BY DEF Part, GoesTo

LEMMA InsertData ==
    ASSUME DataInv, NEW t \in Threads, InsertLocked(t), pc'[t] = "store" PROVE CurrentExact'
<1>1. PICK m, b : m = map[t] /\ b = bkt[t]
  OBVIOUS
<1>2. PICK h : h = HeadAt(m, b)
  OBVIOUS
<1>3. PICK P : P = Part(contents, NB(m), b)
  OBVIOUS
<1>4. PICK p : p = op[t].p
  OBVIOUS
<1>5. pc[t] = "work" /\ UNCHANGED <<ht_map, map>> /\ bkt' = bkt
         /\ UNCHANGED <<op, pos, version, found>>
  BY DEF InsertLocked
<1>6. /\ m \in 1 .. Len(maps) /\ b \in Buckets(m) /\ WellFormedHead(h) /\ P \subseteq Pointers
      /\ Settled(h, P)
  BY <1>1, <1>2, <1>3, <1>5, InHand DEF MayWrite
<1>7. PICK k : /\ p \in Pointers /\ Hash[p] % NB(m) = b /\ p \notin P
               /\ Become(contents \cup {p}) /\ Exactly(h.slots, Len(h.slots), k, P)
               /\ IsFull(h) <=> k + 1 > Len(h.slots)
               /\ pend' = Set(pend, t, InsertStores(k, p, IsFull(h)))
  <2>1. p \in Pointers /\ Hash[p] % NB(m) = b /\ (InsertFinds(t, P, p) \/ InsertBegins(t, h, P, p))
    BY <1>1, <1>2, <1>3, <1>4, InsertFacts
  <2> QED
    BY <2>1 DEF InsertFinds, InsertBegins
<1>8. PICK v : /\ Wrote(m, b, v) /\ v.lock = h.lock /\ v.sequence = h.sequence + 1
               /\ v.linked = h.linked
               /\ v.slots = IF IsFull(h) THEN h.slots \o EmptyBucket ELSE h.slots
  <2>1. TableInv
    BY DEF DataInv
  <2> QED
    BY <1>1, <1>2, <1>6, <2>1, InsertWrote
<1>9. PICK n \in Nat \ {0} : n = Len(h.slots) /\ IsSeq(h.slots) /\ h.linked = n
  BY <1>6, SeqFacts DEF WellFormedHead, Settled
<1>10. PICK q \in Nat \ {0} : q = QHT_BUCKET_ENTRIES
  BY QHTAssumption
<1>11. k \in 0 .. n /\ (IsFull(h) <=> k = n)
  <2>1. k \in 0 .. n
    BY <1>7, <1>9 DEF Exactly
  <2> QED
    BY <1>7, <1>9, <2>1
<1>12. PICK d \in Nat : d = IF IsFull(h) THEN q ELSE 0
  OBVIOUS
<1>13. /\ IsSeq(v.slots) /\ Len(v.slots) = n + d /\ Exactly(v.slots, n + d, k, P)
  <2>1. CASE IsFull(h)
    <3>1. Longer(h.slots, v.slots)
      BY <1>8, <2>1 DEF Longer
    <3>2. PICK r, s : r = v.slots /\ s = h.slots
      OBVIOUS
    <3>3. IsSeq(s) /\ Longer(s, r) /\ n = Len(s) /\ Exactly(s, n, k, P)
      BY <1>7, <1>9, <3>1, <3>2
    <3>4. /\ IsSeq(r) /\ Len(r) = n + q
          /\ \A i \in 1 .. n : r[i] = s[i]
          /\ \A i \in 1 .. n + q : i > n => r[i] = EmptySlot
      BY <1>10, <3>3, OneMoreBucket
    <3>5. Exactly(r, n + q, k, P)
      BY <3>3, <3>4, RoomExact
    <3> QED
      BY <1>12, <2>1, <3>2, <3>4, <3>5
  <2>2. CASE ~ IsFull(h)
    BY <1>7, <1>8, <1>9, <1>12, <2>2
  <2> QED
    BY <2>1, <2>2
<1>14. PICK N \in Nat : N = n + d
  OBVIOUS
<1>15. k \in Nat /\ k < N /\ k + 1 \in 1 .. N
  BY <1>11, <1>12, <1>14
<1>16. PICK g : g = [i \in 1 .. N |-> IF i = k + 1 THEN [h |-> Hash[p], p |-> p] ELSE v.slots[i]]
  OBVIOUS
<1>17. Exact(g, N, P \cup {p})
  <2>1. Exactly(g, N, k + 1, P \cup {p})
    BY <1>6, <1>7, <1>13, <1>14, <1>15, <1>16, InsertExact
  <2>2. k + 1 \in 0 .. N
    BY <1>15
  <2> QED
    BY <2>1, <2>2 DEF Exact
<1>18. Toward(v, InsertStores(k, p, IsFull(h)), g)
  <2>1. IsFull(h) => LinkedWith(k + 1) = N
    BY <1>10, <1>11, <1>12, <1>14 DEF LinkedWith
  <2>2. ~ IsFull(h) => v.linked = N
    BY <1>8, <1>9, <1>12, <1>14
  <2> QED
    BY <1>7, <1>13, <1>14, <1>15, <1>16, <2>1, <2>2, InsertToward
<1>19. Writing(v, pend'[t], P \cup {p})
  <2>1. pend'[t] = InsertStores(k, p, IsFull(h))
    BY <1>7 DEF Set, DataInv, TableInv, LocalsInv
  <2>2. v.sequence % 2 # 0
    BY <1>6, <1>8, EvenOdd DEF WellFormedHead, Settled
  <2> QED
    BY <1>13, <1>14, <1>17, <1>18, <2>1, <2>2 DEF Writing
<1>20. contents' = contents \cup {p}
  BY <1>7 DEF Become
<1>21. /\ Part(contents', NB(m), b) = P \cup {p}
       /\ \A c \in Buckets(m) : c # b => Part(contents', NB(m), c) = Part(contents, NB(m), c)
  <2>1. GoesTo(p, NB(m), b)
    BY <1>7 DEF GoesTo
  <2> QED
    BY <1>3, <1>20, <2>1, PartMore
<1>22. contents' \subseteq Pointers
  BY <1>7, <1>20 DEF DataInv, CurrentExact
<1>23. \A u \in Threads : u # t => Still(u)
  <2>1. Goto(t, "store") /\ \E r : needs_resize' = Set(needs_resize, t, r)
    BY <1>5 DEF InsertLocked, Goto, DataInv, TableInv, BaseInv, TablesInv
  <2> QED
    BY <1>5, <1>7, <2>1 DEF Still, Kept, Goto, Set, DataInv, TableInv, LocalsInv, BaseInv, TablesInv
<1>24. PICK W : W = Part(contents', NB(m), b)
  OBVIOUS
<1>25. /\ bkt'[t] = bkt[t] /\ Writing(v, pend'[t], W) /\ Wrote(m, b, v)
       /\ UNCHANGED <<ht_map, map>> /\ MayWrite(t)
       /\ \A c \in Buckets(m) : c # b => Part(contents', NB(m), c) = Part(contents, NB(m), c)
  BY <1>5, <1>8, <1>19, <1>21, <1>24 DEF MayWrite
<1> QED
  BY <1>1, <1>22, <1>23, <1>24, <1>25, WriterData

(* The stores of qht_bucket_remove_entry. *)
LEMMA RemoveStores ==
    ASSUME NEW r, IsSeq(r), NEW k, NEW P, P \subseteq Pointers, Exactly(r, Len(r), k, P),
           NEW i \in 1 .. k, NEW S, S = RemoveEntry(r, i)
    PROVE  IF i = k THEN S = SetSlot(k, 0, NULL)
           ELSE S = SetSlot(i, r[k].h, r[k].p) \cup SetSlot(k, 0, NULL)
<1>1. PICK n \in Nat : n = Len(r) /\ k \in 0 .. n
  BY SeqFacts DEF Exactly
<1>2. CASE i = k
  <2>1. qht_entry_is_last(r, i)
    <3>1. i = n \/ (i + 1 \in 1 .. n /\ i + 1 > k)
      BY <1>1, <1>2
    <3> QED
      BY <1>1, <3>1 DEF qht_entry_is_last, Exactly
  <2> QED
    BY <1>2, <2>1 DEF RemoveEntry
<1>3. CASE i # k
  <2>1. ~ qht_entry_is_last(r, i)
    <3>1. i # n /\ i + 1 \in 1 .. k
      BY <1>1, <1>3
    <3>2. r[i + 1].p \in Pointers
      BY <3>1 DEF Exactly
    <3> QED
      BY <1>1, <3>1, <3>2, QHTAssumption DEF qht_entry_is_last
  <2>2. LastEntry(r, i) = k
    <3>1. PICK a : a = Room(i) - QHT_BUCKET_ENTRIES + 1 /\ a \in 1 .. i
      BY <1>1, RoomFacts
    <3>2. a \in 1 .. k + 1
      BY <1>1, <3>1
    <3>3. FirstFree(r, a) = k + 1
      BY <3>2, FirstFreeIs
    <3> QED
      BY <1>1, <3>1, <3>3 DEF LastEntry
  <2> QED
    BY <1>3, <2>1, <2>2 DEF RemoveEntry
<1> QED
  BY <1>2, <1>3

LEMMA RemoveToward ==
    ASSUME NEW v, IsSeq(v.slots), NEW n \in Nat, n = Len(v.slots), v.linked = n, NEW k, NEW P,
           P \subseteq Pointers, Exactly(v.slots, n, k, P), NEW i \in 1 .. k,
           NEW g, g = [j \in 1 .. n |-> IF j = k THEN EmptySlot
                                        ELSE IF j = i THEN v.slots[k] ELSE v.slots[j]]
    PROVE  Toward(v, RemoveEntry(v.slots, i), g)
<1>1. PICK r : r = v.slots
  OBVIOUS
<1>2. PICK S : S = RemoveEntry(r, i)
  OBVIOUS
<1>3. IF i = k THEN S = SetSlot(k, 0, NULL)
      ELSE S = SetSlot(i, r[k].h, r[k].p) \cup SetSlot(k, 0, NULL)
  BY <1>1, <1>2, RemoveStores
<1>4. k \in 1 .. n /\ i \in 1 .. n
  BY DEF Exactly
<1>5. /\ g[k].h = 0 /\ g[k].p = NULL
      /\ i # k => g[i] = r[k]
      /\ \A j \in 1 .. n : j # k /\ j # i => g[j] = r[j]
  BY <1>1, <1>4 DEF EmptySlot
<1>6. /\ Store("h", k, 0) \in S /\ Store("p", k, NULL) \in S
      /\ i # k => Store("h", i, r[k].h) \in S /\ Store("p", i, r[k].p) \in S
  BY <1>3 DEF SetSlot
<1>7. \A s \in S : \/ s = Store("h", k, 0) \/ s = Store("p", k, NULL)
                   \/ (i # k /\ s = Store("h", i, r[k].h)) \/ (i # k /\ s = Store("p", i, r[k].p))
  <2>1. CASE i = k
    BY <1>3, <2>1 DEF SetSlot
  <2>2. CASE i # k
    <3>1. S = SetSlot(i, r[k].h, r[k].p) \cup SetSlot(k, 0, NULL)
      BY <1>3, <2>2
    <3>2. \A s \in SetSlot(i, r[k].h, r[k].p) :
             s = Store("h", i, r[k].h) \/ s = Store("p", i, r[k].p)
      BY DEF SetSlot
    <3>3. \A s \in SetSlot(k, 0, NULL) : s = Store("h", k, 0) \/ s = Store("p", k, NULL)
      BY DEF SetSlot
    <3> QED
      BY <2>2, <3>1, <3>2, <3>3
  <2> QED
    BY <2>1, <2>2
<1>8. \A f, j, x : Store(f, j, x).f = f /\ Store(f, j, x).i = j /\ Store(f, j, x).v = x
  BY DEF Store
<1>9. ASSUME NEW j \in 1 .. n PROVE /\ r[j].h = g[j].h \/ Store("h", j, g[j].h) \in S
                                    /\ r[j].p = g[j].p \/ Store("p", j, g[j].p) \in S
  BY <1>5, <1>6
<1>10. ASSUME NEW s \in S PROVE /\ s.f = "h" => s.v = g[s.i].h
                                /\ s.f = "p" => s.v = g[s.i].p
                                /\ s.f # "next"
  <2>1. CASE s = Store("h", k, 0)
    BY <1>5, <1>8, <2>1
  <2>2. CASE s = Store("p", k, NULL)
    BY <1>5, <1>8, <2>2
  <2>3. CASE i # k /\ s = Store("h", i, r[k].h)
    BY <1>5, <1>8, <2>3
  <2>4. CASE i # k /\ s = Store("p", i, r[k].p)
    BY <1>5, <1>8, <2>4
  <2> QED
    BY <1>7, <2>1, <2>2, <2>3, <2>4
<1>11. Toward(v, S, g)
  <2>1. \A j \in 1 .. Len(v.slots) : v.slots[j].h = g[j].h \/ Store("h", j, g[j].h) \in S
    BY <1>1, <1>9
  <2>2. \A j \in 1 .. Len(v.slots) : v.slots[j].p = g[j].p \/ Store("p", j, g[j].p) \in S
    BY <1>1, <1>9
  <2> QED
    BY <1>10, <2>1, <2>2 DEF Toward
<1> QED
  BY <1>1, <1>2, <1>11

(* What qht_remove__locked finds and does. *)
RemoveMisses(t, P, p) ==
    /\ pc'[t] = "unlock" /\ p \notin P /\ result' = Set(result, t, {})
    /\ UNCHANGED <<maps, pend, contents, seen>>
RemoveBegins(t, h, P, p) ==
    /\ pc'[t] = "store" /\ p \in P /\ result' = Set(result, t, {p})
    /\ Become(contents \ {p}) /\ Turns(map[t], bkt[t])
    /\ \E k : /\ Exactly(h.slots, Len(h.slots), k, P)
              /\ \E i \in 1 .. k : h.slots[i].p = p /\ pend' = Set(pend, t, RemoveEntry(h.slots, i))

LEMMA RemoveFacts ==
    ASSUME DataInv, NEW t \in Threads, RemoveLocked(t),
           NEW m, m = map[t], NEW b, b = bkt[t], NEW h, h = HeadAt(m, b),
           NEW P, P = Part(contents, NB(m), b), NEW p, p = op[t].p
    PROVE  /\ p \in Pointers /\ Hash[p] % NB(m) = b
           /\ RemoveMisses(t, P, p) \/ RemoveBegins(t, h, P, p)
<1>1. /\ m \in 1 .. Len(maps) /\ HeadOf(t) = h /\ WellFormedHead(h) /\ P \subseteq Pointers
      /\ Settled(h, P) /\ pc[t] = "work" /\ op[t].kind = "remove"
  BY InHand DEF RemoveLocked, MayWrite
<1>2. p \in Pointers /\ Hash[p] % NB(m) = b
  BY <1>1 DEF DataInv, TableInv, ThreadInv, AtBucket
<1>3. PICK k \in 0 .. Len(h.slots) : Exactly(h.slots, Len(h.slots), k, P)
  BY <1>1 DEF Settled, Exact
<1>4. IsSeq(h.slots)
  BY <1>1 DEF WellFormedHead
<1>5. Chain(h.slots) = 1 .. k /\ k \in Nat
  BY <1>1, <1>3, <1>4, ChainIs
<1>6. PICK at : at = {j \in Chain(h.slots) : h.slots[j].p = p}
  OBVIOUS
<1>7. DOMAIN pc = Threads
  BY DEF DataInv, TableInv, BaseInv, TablesInv
<1>8. CASE p \notin P
  <2>1. at = {}
    <3>1. \A j \in 1 .. k : h.slots[j].p \in P
      BY <1>3 DEF Exactly
    <3> QED
      BY <1>5, <1>6, <1>8, <3>1
  <2> QED
    BY <1>1, <1>2, <1>6, <1>7, <1>8, <2>1 DEF RemoveLocked, Goto, RemoveMisses
<1>9. CASE p \in P
  <2>1. PICK i \in 1 .. k : h.slots[i].p = p
    BY <1>3, <1>9 DEF Exactly
  <2>2. at = {i}
    <3>1. \A j \in 1 .. k : h.slots[j].p = h.slots[i].p => j = i
      BY <1>3 DEF Exactly
    <3> QED
      BY <1>5, <1>6, <2>1, <3>1
  <2>3. Min(at) = i
    <3>1. i \in Int /\ at \subseteq Int /\ i \in at /\ \A y \in at : i <= y
      BY <1>5, <2>2
    <3> QED
      BY <3>1, MinIs
  <2>4. /\ pc'[t] = "store" /\ result' = Set(result, t, {p}) /\ Become(contents \ {p})
        /\ Turns(map[t], bkt[t]) /\ pend' = Set(pend, t, RemoveEntry(h.slots, i))
    BY <1>1, <1>6, <1>7, <2>2, <2>3 DEF RemoveLocked, Goto, Turns
  <2> QED
    BY <1>2, <1>3, <1>9, <2>1, <2>4 DEF RemoveBegins
<1> QED
  BY <1>8, <1>9

LEMMA RemoveData ==
    ASSUME DataInv, NEW t \in Threads, RemoveLocked(t), pc'[t] = "store" PROVE CurrentExact'
<1>1. PICK m, b : m = map[t] /\ b = bkt[t]
  OBVIOUS
<1>2. PICK h : h = HeadAt(m, b)
  OBVIOUS
<1>3. PICK P : P = Part(contents, NB(m), b)
  OBVIOUS
<1>4. PICK p : p = op[t].p
  OBVIOUS
<1>5. pc[t] = "work" /\ UNCHANGED <<ht_map, map>> /\ bkt' = bkt
         /\ UNCHANGED <<op, pos, version, found, needs_resize>>
  BY DEF RemoveLocked
<1>6. /\ m \in 1 .. Len(maps) /\ b \in Buckets(m) /\ WellFormedHead(h) /\ P \subseteq Pointers
      /\ Settled(h, P)
  BY <1>1, <1>2, <1>3, <1>5, InHand DEF MayWrite
<1>7. PICK k : /\ p \in Pointers /\ Hash[p] % NB(m) = b /\ p \in P
               /\ Become(contents \ {p}) /\ Turns(map[t], bkt[t])
               /\ Exactly(h.slots, Len(h.slots), k, P)
               /\ \E i \in 1 .. k : h.slots[i].p = p
                     /\ pend' = Set(pend, t, RemoveEntry(h.slots, i))
  <2>1. p \in Pointers /\ Hash[p] % NB(m) = b /\ (RemoveMisses(t, P, p) \/ RemoveBegins(t, h, P, p))
    BY <1>1, <1>2, <1>3, <1>4, RemoveFacts
  <2> QED
    BY <2>1 DEF RemoveMisses, RemoveBegins
<1>8. PICK i \in 1 .. k : h.slots[i].p = p /\ pend' = Set(pend, t, RemoveEntry(h.slots, i))
  BY <1>7
<1>9. PICK v : /\ Wrote(m, b, v) /\ v.sequence = h.sequence + 1
               /\ v.linked = h.linked /\ v.slots = h.slots
  <2>1. Turns(m, b)
    BY <1>1, <1>7
  <2> QED
    BY <1>2, <1>6, <2>1, SequenceWrote DEF DataInv
<1>10. PICK n \in Nat \ {0} : n = Len(h.slots) /\ IsSeq(h.slots) /\ h.linked = n
  BY <1>6, SeqFacts DEF WellFormedHead, Settled
<1>11. PICK g : g = [j \in 1 .. n |-> IF j = k THEN EmptySlot
                                      ELSE IF j = i THEN h.slots[k] ELSE h.slots[j]]
  OBVIOUS
<1>12. Exact(g, n, P \ {p})
  <2>1. Exactly(g, n, k - 1, P \ {h.slots[i].p})
    BY <1>6, <1>7, <1>10, <1>11, RemoveExact
  <2>2. k - 1 \in 0 .. n
    BY <1>7, <1>10 DEF Exactly
  <2> QED
    BY <1>8, <2>1, <2>2 DEF Exact
<1>13. Toward(v, RemoveEntry(h.slots, i), g)
  <2>1. IsSeq(v.slots) /\ n = Len(v.slots) /\ v.linked = n /\ Exactly(v.slots, n, k, P)
    BY <1>7, <1>9, <1>10
  <2>2. g = [j \in 1 .. n |-> IF j = k THEN EmptySlot
                              ELSE IF j = i THEN v.slots[k] ELSE v.slots[j]]
    BY <1>9, <1>11
  <2>3. Toward(v, RemoveEntry(v.slots, i), g)
    BY <1>6, <2>1, <2>2, RemoveToward
  <2> QED
    BY <1>9, <2>3
<1>14. Writing(v, pend'[t], P \ {p})
  <2>1. pend'[t] = RemoveEntry(h.slots, i)
    BY <1>8 DEF Set, DataInv, TableInv, LocalsInv
  <2>2. v.sequence % 2 # 0
    BY <1>6, <1>9, EvenOdd DEF WellFormedHead, Settled
  <2> QED
    BY <1>9, <1>10, <1>12, <1>13, <2>1, <2>2 DEF Writing
<1>15. contents' = contents \ {p}
  BY <1>7 DEF Become
<1>16. /\ Part(contents', NB(m), b) = P \ {p}
       /\ \A c \in Buckets(m) : c # b => Part(contents', NB(m), c) = Part(contents, NB(m), c)
  <2>1. GoesTo(p, NB(m), b)
    BY <1>7 DEF GoesTo
  <2> QED
    BY <1>3, <1>15, <2>1, PartLess
<1>17. contents' \subseteq Pointers
  BY <1>15 DEF DataInv, CurrentExact
<1>18. \A u \in Threads : u # t => Still(u)
  <2>1. Goto(t, "store")
    BY <1>5 DEF RemoveLocked, Goto, DataInv, TableInv, BaseInv, TablesInv
  <2> QED
    BY <1>5, <1>8, <2>1 DEF Still, Kept, Goto, Set, DataInv, TableInv, LocalsInv, BaseInv, TablesInv
<1>19. PICK W : W = Part(contents', NB(m), b)
  OBVIOUS
<1>20. /\ bkt'[t] = bkt[t] /\ Writing(v, pend'[t], W) /\ Wrote(m, b, v)
       /\ UNCHANGED <<ht_map, map>> /\ MayWrite(t)
       /\ \A c \in Buckets(m) : c # b => Part(contents', NB(m), c) = Part(contents, NB(m), c)
  BY <1>5, <1>9, <1>14, <1>16, <1>19 DEF MayWrite
<1> QED
  BY <1>1, <1>17, <1>18, <1>19, <1>20, WriterData

(* qht_bucket_reset__locked empties the slots of the chain. *)
LEMMA ResetToward ==
    ASSUME NEW v, NEW n \in Nat, n = Len(v.slots), v.linked = n, NEW k, NEW P,
           Exactly(v.slots, n, k, P), NEW S, S = UNION {SetSlot(i, 0, NULL) : i \in 1 .. k},
           NEW g, g = [j \in 1 .. n |-> EmptySlot]
    PROVE  Toward(v, S, g) /\ Exact(g, n, {})
<1>1. \A j \in 1 .. n : g[j].h = 0 /\ g[j].p = NULL
  BY DEF EmptySlot
<1>2. \A s \in S : \E i \in 1 .. k : s = Store("h", i, 0) \/ s = Store("p", i, NULL)
  BY DEF SetSlot
<1>3. \A i \in 1 .. k : Store("h", i, 0) \in S /\ Store("p", i, NULL) \in S
  BY DEF SetSlot
<1>4. k \in 0 .. n /\ \A i \in 1 .. k : i \in 1 .. n
  BY DEF Exactly
<1>5. \A f, j, x : Store(f, j, x).f = f /\ Store(f, j, x).i = j /\ Store(f, j, x).v = x
  BY DEF Store
<1>6. ASSUME NEW j \in 1 .. n PROVE /\ v.slots[j].h = g[j].h \/ Store("h", j, g[j].h) \in S
                                    /\ v.slots[j].p = g[j].p \/ Store("p", j, g[j].p) \in S
  <2>1. CASE j > k
    BY <1>1, <2>1 DEF Exactly
  <2>2. CASE j <= k
    <3>1. j \in 1 .. k
      BY <1>4, <2>2
    <3> QED
      BY <1>1, <1>3, <3>1
  <2> QED
    BY <1>4, <2>1, <2>2
<1>7. ASSUME NEW s \in S PROVE /\ s.f = "h" => s.v = g[s.i].h
                               /\ s.f = "p" => s.v = g[s.i].p
                               /\ s.f # "next"
  <2>1. PICK i \in 1 .. k : s = Store("h", i, 0) \/ s = Store("p", i, NULL)
    BY <1>2
  <2>2. g[i].h = 0 /\ g[i].p = NULL
    BY <1>1, <1>4
  <2> QED
    BY <1>5, <2>1, <2>2
<1>8. Toward(v, S, g)
  BY <1>6, <1>7 DEF Toward
<1>9. Exactly(g, n, 0, {})
  BY <1>1 DEF Exactly
<1>10. 0 \in 0 .. n
  OBVIOUS
<1> QED
  BY <1>8, <1>9, <1>10 DEF Exact

LEMMA PartNone ==
    ASSUME NEW C, NEW n, NEW b, NEW P, P = Part(C, n, b), NEW D, D = C \ P
    PROVE  Part(D, n, b) = {} /\ \A c : c # b => Part(D, n, c) = Part(C, n, c)
BY DEF Part

LEMMA ResetData ==
    ASSUME DataInv, NEW t \in Threads, ResetBucket(t) PROVE CurrentExact'
<1>1. PICK m, b : m = map[t] /\ b = bkt[t]
  OBVIOUS
<1>2. PICK h : h = HeadAt(m, b)
  OBVIOUS
<1>3. PICK P : P = Part(contents, NB(m), b)
  OBVIOUS
<1>4. /\ pc[t] = "reset" /\ UNCHANGED <<ht_map, map>> /\ bkt' = bkt /\ bkt[t] < NB(map[t])
      /\ UNCHANGED <<op, pos, version, found, needs_resize>> /\ Goto(t, "store")
      /\ Turns(map[t], bkt[t])
  BY DEF ResetBucket, NB, Turns
<1>5. /\ m \in 1 .. Len(maps) /\ b \in Buckets(m) /\ WellFormedHead(h) /\ P \subseteq Pointers
      /\ Settled(h, P) /\ HeadOf(t) = h
  BY <1>1, <1>2, <1>3, <1>4, InHand DEF MayWrite
<1>6. PICK n \in Nat \ {0} : n = Len(h.slots) /\ IsSeq(h.slots) /\ h.linked = n
  BY <1>5, SeqFacts DEF WellFormedHead, Settled
<1>7. PICK k \in 0 .. n : Exactly(h.slots, n, k, P)
  BY <1>5, <1>6 DEF Settled, Exact
<1>8. Chain(h.slots) = 1 .. k
  BY <1>5, <1>6, <1>7, ChainIs
<1>9. PICK S : S = UNION {SetSlot(i, 0, NULL) : i \in 1 .. k}
  OBVIOUS
<1>10. pend' = Set(pend, t, S)
  BY <1>5, <1>8, <1>9 DEF ResetBucket
<1>11. contents' = contents \ P
  <2>1. contents' = contents \ {h.slots[i].p : i \in 1 .. k}
    BY <1>5, <1>8 DEF ResetBucket, Become
  <2>2. {h.slots[i].p : i \in 1 .. k} = P
    BY <1>7 DEF Exactly
  <2> QED
    BY <2>1, <2>2
<1>12. PICK v : /\ Wrote(m, b, v) /\ v.sequence = h.sequence + 1
                /\ v.linked = h.linked /\ v.slots = h.slots
  <2>1. Turns(m, b)
    BY <1>1, <1>4
  <2> QED
    BY <1>2, <1>5, <2>1, SequenceWrote DEF DataInv
<1>13. PICK g : g = [j \in 1 .. n |-> EmptySlot]
  OBVIOUS
<1>14. Toward(v, S, g) /\ Exact(g, n, {})
  <2>1. n = Len(v.slots) /\ v.linked = n /\ Exactly(v.slots, n, k, P)
    BY <1>6, <1>7, <1>12
  <2> QED
    BY <1>9, <1>13, <2>1, ResetToward
<1>15. Writing(v, pend'[t], {})
  <2>1. pend'[t] = S
    BY <1>10 DEF Set, DataInv, TableInv, LocalsInv
  <2>2. v.sequence % 2 # 0
    BY <1>5, <1>12, EvenOdd DEF WellFormedHead, Settled
  <2> QED
    BY <1>6, <1>12, <1>14, <2>1, <2>2 DEF Writing
<1>16. /\ Part(contents', NB(m), b) = {}
       /\ \A c \in Buckets(m) : c # b => Part(contents', NB(m), c) = Part(contents, NB(m), c)
  <2>1. PICK N, C, D : N = NB(m) /\ C = contents /\ D = contents'
    OBVIOUS
  <2>2. Part(D, N, b) = {} /\ \A c : c # b => Part(D, N, c) = Part(C, N, c)
    <3>1. P = Part(C, N, b) /\ D = C \ P
      BY <1>3, <1>11, <2>1
    <3> QED
      BY <3>1, PartNone
  <2> QED
    BY <2>1, <2>2
<1>17. contents' \subseteq Pointers
  BY <1>11 DEF DataInv, CurrentExact
<1>18. \A u \in Threads : u # t => Still(u)
  <2>1. \A u \in Threads : u # t => pc'[u] = pc[u]
    BY <1>4 DEF Goto, DataInv, TableInv, BaseInv, TablesInv
  <2>2. \A u \in Threads : u # t => pend'[u] = pend[u]
    BY <1>10 DEF Set, DataInv, TableInv, LocalsInv
  <2> QED
    BY <1>4, <2>1, <2>2 DEF Still, Kept
<1>19. PICK W : W = Part(contents', NB(m), b)
  OBVIOUS
<1>20. pc'[t] = "store"
  BY <1>4 DEF Goto, DataInv, TableInv, BaseInv, TablesInv
<1>21. /\ bkt'[t] = bkt[t] /\ Writing(v, pend'[t], W) /\ Wrote(m, b, v)
       /\ UNCHANGED <<ht_map, map>> /\ MayWrite(t)
       /\ \A c \in Buckets(m) : c # b => Part(contents', NB(m), c) = Part(contents, NB(m), c)
  BY <1>4, <1>12, <1>15, <1>16, <1>19 DEF MayWrite
<1> QED
  BY <1>1, <1>17, <1>18, <1>19, <1>20, <1>21, WriterData

(* Each store brings the bucket nearer to what it becomes. *)
LEMMA NearerToward ==
    ASSUME NEW h, NEW S, NEW g, Toward(h, S, g), NEW s \in S, s.f \in {"h", "p", "next"},
           NEW v, Stored(h, s, v)
    PROVE  Toward(v, S \ {s}, g)
<1>1. PICK n : n = Len(h.slots) /\ n = Len(v.slots)
  BY DEF Stored
<1>2. \A f, j, x : Store(f, j, x).f = f /\ Store(f, j, x).i = j /\ Store(f, j, x).v = x
  BY DEF Store
<1>3. ASSUME NEW i \in 1 .. n PROVE v.slots[i].h = g[i].h \/ Store("h", i, g[i].h) \in S \ {s}
  <2>1. CASE s.f = "h" /\ s.i = i
    BY <1>1, <2>1 DEF Stored, Toward
  <2>2. CASE ~ (s.f = "h" /\ s.i = i)
    <3>1. v.slots[i].h = h.slots[i].h
      BY <1>1, <2>2 DEF Stored
    <3>2. s # Store("h", i, g[i].h)
      BY <1>2, <2>2
    <3> QED
      BY <1>1, <3>1, <3>2 DEF Toward
  <2> QED
    BY <2>1, <2>2
<1>4. ASSUME NEW i \in 1 .. n PROVE v.slots[i].p = g[i].p \/ Store("p", i, g[i].p) \in S \ {s}
  <2>1. CASE s.f = "p" /\ s.i = i
    BY <1>1, <2>1 DEF Stored, Toward
  <2>2. CASE ~ (s.f = "p" /\ s.i = i)
    <3>1. v.slots[i].p = h.slots[i].p
      BY <1>1, <2>2 DEF Stored
    <3>2. s # Store("p", i, g[i].p)
      BY <1>2, <2>2
    <3> QED
      BY <1>1, <3>1, <3>2 DEF Toward
  <2> QED
    BY <2>1, <2>2
<1>5. v.linked = n \/ \E x \in S \ {s} : x.f = "next"
  <2>1. CASE s.f = "next"
    BY <1>1, <2>1 DEF Stored, Toward
  <2>2. CASE s.f # "next"
    BY <1>1, <2>2 DEF Stored, Toward
  <2> QED
    BY <2>1, <2>2
<1>6. \A x \in S \ {s} : /\ x.f = "h" => x.v = g[x.i].h
                         /\ x.f = "p" => x.v = g[x.i].p
                         /\ x.f = "next" => x.v = n
  BY <1>1 DEF Toward
<1> QED
  BY <1>1, <1>3, <1>4, <1>5, <1>6 DEF Toward

LEMMA DoStoreData ==
    ASSUME DataInv, NEW t \in Threads, DoStore(t) PROVE CurrentExact'
<1>1. PICK m, b : m = map[t] /\ b = bkt[t]
  OBVIOUS
<1>2. PICK h : h = HeadAt(m, b)
  OBVIOUS
<1>3. PICK P : P = Part(contents, NB(m), b)
  OBVIOUS
<1>4. /\ pc[t] = "store" /\ UNCHANGED <<ht_map, map>> /\ bkt' = bkt /\ pc' = pc
      /\ UNCHANGED <<op, pos, version, found, needs_resize>> /\ contents' = contents
  BY DEF DoStore, histVars
<1>5. m \in 1 .. Len(maps) /\ b \in Buckets(m) /\ Writing(h, pend[t], P)
  BY <1>1, <1>2, <1>3, <1>4, InHand DEF MayWrite
<1>6. PICK s \in pend[t] : \E v :
         /\ pend' = Set(pend, t, pend[t] \ {s}) /\ s.f \in {"h", "p", "next"}
         /\ Wrote(m, b, v) /\ Stored(h, s, v)
  BY <1>1, <1>2, DoStoreOwn DEF DataInv
<1>7. PICK v : Wrote(m, b, v) /\ Stored(h, s, v)
  BY <1>6
<1>8. PICK g : Exact(g, Len(h.slots), P) /\ Toward(h, pend[t], g)
  BY <1>5 DEF Writing
<1>9. Toward(v, pend[t] \ {s}, g)
  BY <1>6, <1>7, <1>8, NearerToward
<1>10. Writing(v, pend[t] \ {s}, P)
  BY <1>5, <1>7, <1>8, <1>9 DEF Writing, Stored
<1>11. pend'[t] = pend[t] \ {s}
  BY <1>6 DEF Set, DataInv, TableInv, LocalsInv
<1>12. \A u \in Threads : u # t => Still(u)
  BY <1>4, <1>6 DEF Still, Kept, Set, DataInv, TableInv, LocalsInv
<1>13. contents' \subseteq Pointers
  BY <1>4 DEF DataInv, CurrentExact
<1>14. /\ bkt'[t] = bkt[t] /\ Writing(v, pend'[t], P) /\ Wrote(m, b, v) /\ pc'[t] = "store"
       /\ UNCHANGED <<ht_map, map>> /\ MayWrite(t) /\ P = Part(contents', NB(m), b)
       /\ \A c \in Buckets(m) : c # b => Part(contents', NB(m), c) = Part(contents, NB(m), c)
  BY <1>3, <1>4, <1>7, <1>10, <1>11 DEF MayWrite
<1> QED
  BY <1>1, <1>12, <1>13, <1>14, WriterData

(* With no store left, the bucket is what it was to become. *)
LEMMA WrittenExact ==
    ASSUME NEW h, IsSeq(h.slots), NEW P, Writing(h, {}, P)
    PROVE  Exact(h.slots, Len(h.slots), P) /\ h.linked = Len(h.slots)
<1>1. PICK n \in Nat : n = Len(h.slots)
  BY SeqFacts
<1>2. PICK g : Exact(g, n, P) /\ Toward(h, {}, g)
  BY <1>1 DEF Writing
<1>3. /\ \A i \in 1 .. n : h.slots[i].h = g[i].h /\ h.slots[i].p = g[i].p
      /\ h.linked = n
  BY <1>1, <1>2 DEF Toward
<1>4. PICK k \in 0 .. n : Exactly(g, n, k, P)
  BY <1>2 DEF Exact
<1>5. \A i \in 1 .. k : i \in 1 .. n
  BY <1>4
<1>6. Exactly(h.slots, n, k, P)
  BY <1>3, <1>4, <1>5 DEF Exactly
<1> QED
  BY <1>1, <1>3, <1>6 DEF Exact

LEMMA WriteEndData ==
    ASSUME DataInv, NEW t \in Threads, WriteEnd(t) PROVE CurrentExact'
<1>1. PICK m, b : m = map[t] /\ b = bkt[t]
  OBVIOUS
<1>2. PICK h : h = HeadAt(m, b)
  OBVIOUS
<1>3. PICK P : P = Part(contents, NB(m), b)
  OBVIOUS
<1>4. /\ pc[t] = "store" /\ UNCHANGED <<ht_map, map>> /\ pend[t] = {} /\ pend' = pend
      /\ UNCHANGED <<op, pos, version, found, needs_resize>> /\ contents' = contents
      /\ Turns(map[t], bkt[t])
  BY DEF WriteEnd, Turns, histVars
<1>5. /\ m \in 1 .. Len(maps) /\ b \in Buckets(m) /\ WellFormedHead(h)
      /\ Writing(h, {}, P)
  <2>1. /\ m \in 1 .. Len(maps) /\ b \in Buckets(m) /\ WellFormedHead(h)
        /\ Writing(h, pend[t], P)
    <3>1. MayWrite(t) /\ pc[t] = "store"
      BY <1>4 DEF MayWrite
    <3> QED
      BY <1>1, <1>2, <1>3, <3>1, InHand
  <2> QED
    BY <1>4, <2>1
<1>6. PICK v : /\ Wrote(m, b, v) /\ v.sequence = h.sequence + 1
               /\ v.linked = h.linked /\ v.slots = h.slots
  <2>1. Turns(m, b)
    BY <1>1, <1>4
  <2> QED
    BY <1>2, <1>5, <2>1, SequenceWrote DEF DataInv
<1>7. Exact(h.slots, Len(h.slots), P) /\ h.linked = Len(h.slots)
  BY <1>5, WrittenExact DEF WellFormedHead
<1>8. v.sequence % 2 = 0
  BY <1>5, <1>6, EvenOdd DEF WellFormedHead, Writing
<1>9. Settled(v, P)
  BY <1>6, <1>7, <1>8 DEF Settled
<1>10. /\ \A u \in Threads : u # t => pc'[u] = pc[u] /\ bkt'[u] = bkt[u]
       /\ pc'[t] # "store"
  <2>1. DOMAIN pc = Threads /\ DOMAIN bkt = Threads
    BY DEF DataInv, TableInv, LocalsInv, BaseInv, TablesInv
  <2>2. (Goto(t, "unlock") \/ Goto(t, "reset")) /\ (bkt' = bkt \/ bkt' = Set(bkt, t, bkt[t] + 1))
    BY DEF WriteEnd
  <2> QED
    BY <2>1, <2>2 DEF Goto, Set
<1>11. \A u \in Threads : u # t => Still(u)
  BY <1>4, <1>10 DEF Still, Kept
<1>12. contents' \subseteq Pointers
  BY <1>4 DEF DataInv, CurrentExact
<1>13. /\ Settled(v, P) /\ Wrote(m, b, v) /\ pc'[t] # "store"
       /\ UNCHANGED <<ht_map, map>> /\ MayWrite(t) /\ P = Part(contents', NB(m), b)
       /\ \A c \in Buckets(m) : c # b => Part(contents', NB(m), c) = Part(contents, NB(m), c)
  BY <1>3, <1>4, <1>6, <1>9, <1>10 DEF MayWrite
<1> QED
  BY <1>1, <1>11, <1>12, <1>13, WriterData

-----------------------------------------------------------------------------
(* The resize. *)

LEMMA SeqAppended ==
    ASSUME NEW s, NEW v, NEW r, IsSeq(s), r = Append(s, v)
    PROVE  r[Len(s) + 1] = v /\ \A k \in 1 .. Len(s) : r[k] = s[k]
<1>1. PICK S : S = Values(s) \cup {v}
  OBVIOUS
<1>2. s \in [1 .. Len(s) -> S] /\ Len(s) \in Nat /\ v \in S
  BY <1>1 DEF IsSeq
<1>3. s \in Seq(S)
  BY <1>2, SeqFunction
<1> QED
  BY <1>2, <1>3

(* While one thread resizes, with ht->lock and all bucket locks, nobody    *)
(* else has the current map for writing.                                   *)
LEMMA ResizerAlone ==
    ASSUME TableInv, NEW t \in Threads, pc[t] = "copy", NEW u \in Threads, u # t
    PROVE  /\ pc[u] \notin {"slow_lock", "work", "store", "reset", "copy"}
           /\ ~ (pc[u] = "lock_all" /\ ht_lock = u)
<1>1. ht_lock = t /\ map[t] = ht_map /\ map[t] \in 1 .. Len(maps)
  BY MapInHand DEF TableInv, ThreadInv, HtLockHeld, MapIsCurrent, WithMap
<1>2. \A b \in Buckets(map[t]) : HeadAt(map[t], b).lock = t
  BY DEF TableInv, ThreadInv, LocksHeld, Holds, WithMap
<1>3. pc[u] \notin {"slow_lock", "copy"} /\ ~ (pc[u] = "lock_all" /\ ht_lock = u)
  BY <1>1 DEF TableInv, ThreadInv, HtLockHeld
<1>4. ASSUME pc[u] \in {"work", "store", "reset"} PROVE FALSE
  <2>1. map[u] = map[t]
    BY <1>1, <1>4 DEF TableInv, ThreadInv, MapIsCurrent
  <2>2. PICK b \in Buckets(map[u]) : Holds(u, b)
    <3>1. CASE pc[u] = "reset"
      <4>1. NB(map[u]) \in Nat \ {0}
        BY <1>1, <2>1, ShapeFacts DEF TableInv
      <4>2. 0 \in Buckets(map[u])
        BY <4>1 DEF Buckets
      <4> QED
        BY <3>1, <4>2 DEF Holds
    <3>2. CASE pc[u] # "reset"
      <4>1. bkt[u] \in Buckets(map[u])
        BY <1>4, <3>2, BucketInMap
      <4>2. Holds(u, bkt[u])
        BY <1>4, <3>2 DEF Holds, TableInv, BaseInv, KindInv
      <4> QED
        BY <4>1, <4>2
    <3> QED
      BY <3>1, <3>2
  <2>3. HeadAt(map[u], b).lock = u
    BY <1>4, <2>2 DEF TableInv, ThreadInv, LocksHeld, WithMap
  <2> QED
    BY <1>2, <2>1, <2>2, <2>3
<1> QED
  BY <1>3, <1>4

(* The map in hand, all of whose buckets are locked, holds the contents. *)
LEMMA LockedListing ==
    ASSUME DataInv, NEW t \in Threads, pc[t] \in {"copy", "visit"}, map[t] = ht_map
    PROVE  Listing(AllEntries(maps[map[t]]), contents)
<1>1. PICK m \in 1 .. Len(maps) : m = map[t]
  BY MapInHand DEF DataInv, TableInv, WithMap
<1>2. \A b \in Buckets(m) : HeadAt(m, b).lock = t
  BY <1>1 DEF DataInv, TableInv, ThreadInv, LocksHeld, Holds, WithMap
<1>3. ASSUME NEW b \in Buckets(m) PROVE Settled(HeadAt(m, b), Part(contents, NB(m), b))
  <2>1. PICK P : P = Part(contents, NB(m), b)
    OBVIOUS
  <2>2. DataAt(m, b, P)
    BY <1>1, <2>1 DEF DataInv, CurrentExact
  <2>3. ASSUME NEW u \in Threads, AtStore(u, m, b) PROVE FALSE
    <3>1. u = t
      BY <1>1, <1>2, <2>3, WriterAlone DEF DataInv
    <3> QED
      BY <2>3, <3>1 DEF AtStore
  <2> QED
    BY <2>1, <2>2, <2>3 DEF DataAt
<1>4. PICK w : w = maps[m]
  OBVIOUS
<1>5. WellFormedMap(w) /\ contents \subseteq Pointers
  BY <1>4 DEF DataInv, TableInv, ShapeInv, CurrentExact
<1>6. ASSUME NEW b \in 0 .. w.n_buckets - 1
      PROVE  Exact(w.heads[b].slots, Len(w.heads[b].slots), Part(contents, w.n_buckets, b))
  BY <1>3, <1>4 DEF Settled, HeadAt, NB, Buckets
<1>7. Listing(AllEntries(w), contents)
  BY <1>5, <1>6, AllEntriesListed
<1> QED
  BY <1>1, <1>4, <1>7

(* How many buckets qht_do_resize asks for. *)
LEMMA NewBucketsType ==
    ASSUME TableInv, NEW t \in Threads, pc[t] \in {"reset", "copy"}
    PROVE  NewBuckets(t) \in Nat \ {0}
<1>1. map[t] \in 1 .. Len(maps)
  BY MapInHand DEF TableInv, WithMap
<1>2. PICK n \in Nat \ {0} : n = NB(map[t])
  BY <1>1, ShapeFacts DEF TableInv
<1>3. op[t].n \in Nat
  BY OpPointer DEF TableInv
<1>4. qht_elems_to_buckets(op[t].n) \in Nat \ {0}
  BY <1>3, BucketsType
<1>5. 2 * n \in Nat \ {0}
  OBVIOUS
<1> QED
  BY <1>2, <1>4, <1>5 DEF NewBuckets, NB

(* A map more, and it is the current one. *)
Published(w) ==
    /\ IsSeq(maps') /\ Len(maps') = Len(maps) + 1 /\ ht_map' = Len(maps) + 1
    /\ maps'[Len(maps) + 1] = w /\ \A k \in 1 .. Len(maps) : maps'[k] = maps[k]

LEMMA CopyPublishes ==
    ASSUME DataInv, NEW t \in Threads, Copy(t)
    PROVE  \E w : /\ Published(w) /\ WellFormedMap(w)
                  /\ \A b \in 0 .. w.n_buckets - 1 :
                        Settled(w.heads[b], Part(contents, w.n_buckets, b))
<1>1. pc[t] = "copy" /\ map[t] = ht_map
  BY DEF Copy, DataInv, TableInv, ThreadInv, MapIsCurrent
<1>2. PICK n \in Nat \ {0} : n = NewBuckets(t)
  BY <1>1, NewBucketsType DEF DataInv
<1>3. PICK e : e = AllEntries(maps[map[t]])
  OBVIOUS
<1>4. Listing(e, contents)
  BY <1>1, <1>3, LockedListing
<1>5. PICK w : w = Filled(e, n)
  OBVIOUS
<1>6. /\ WellFormedMap(w) /\ w.n_buckets = n
      /\ \A b \in 0 .. n - 1 : Settled(w.heads[b], Part(contents, n, b))
  BY <1>4, <1>5, FilledExact
<1>7. maps' = Append(maps, w) /\ ht_map' = Len(maps) + 1
  BY <1>2, <1>3, <1>5 DEF Copy
<1>8. PICK r : r = maps'
  OBVIOUS
<1>9. IsSeq(maps) /\ r = Append(maps, w)
  BY <1>7, <1>8 DEF DataInv, TableInv, ShapeInv
<1>10. IsSeq(r) /\ Len(r) = Len(maps) + 1
  BY <1>9, SeqAppend
<1>11. r[Len(maps) + 1] = w /\ \A k \in 1 .. Len(maps) : r[k] = maps[k]
  BY <1>9, SeqAppended
<1>12. Published(w)
  BY <1>7, <1>8, <1>10, <1>11 DEF Published
<1> QED
  BY <1>6, <1>12

LEMMA CopyData ==
    ASSUME DataInv, BaseInv', NEW t \in Threads, Copy(t) PROVE DataInv'
<1>1. /\ pc[t] = "copy" /\ UNCHANGED <<ht_lock, op, map, bkt, pend, contents>> /\ Goto(t, "retire")
      /\ UNCHANGED <<pos, version, found, needs_resize, seen, result>>
  BY DEF Copy, localVars, histVars
<1>2. PICK w : /\ Published(w) /\ WellFormedMap(w)
               /\ \A b \in 0 .. w.n_buckets - 1 :
                     Settled(w.heads[b], Part(contents, w.n_buckets, b))
  BY CopyPublishes
<1>3. PICK l \in Nat \ {0} : l = Len(maps) + 1 /\ ht_map' = l /\ Len(maps') = l
  BY <1>2, SeqFacts DEF Published, DataInv, TableInv, ShapeInv
<1>4. maps'[l] = w /\ \A k \in 1 .. Len(maps) : maps'[k] = maps[k]
  BY <1>2, <1>3 DEF Published
<1>5. ShapeInv'
  <2>1. \A k \in 1 .. l : k = l \/ k \in 1 .. Len(maps)
    BY <1>3, SeqFacts DEF DataInv, TableInv, ShapeInv
  <2> QED
    BY <1>2, <1>3, <1>4, <2>1 DEF Published, DataInv, TableInv, ShapeInv
<1>6. LocalsInv'
  BY <1>1 DEF DataInv, TableInv, LocalsInv
<1>7. \A k \in 1 .. Len(maps) : /\ NB(k)' = NB(k) /\ Buckets(k)' = Buckets(k)
                                /\ \A b : HeadAt(k, b)' = HeadAt(k, b)
  BY <1>4 DEF NB, Buckets, HeadAt
<1>8. /\ pc'[t] = "retire"
      /\ \A u \in Threads : u # t => pc'[u] = pc[u]
  BY <1>1 DEF Goto, DataInv, TableInv, BaseInv, TablesInv
<1>9. \A u \in Threads : pc[u] \in WithMap => map[u] \in 1 .. Len(maps)
  BY MapInHand DEF DataInv, TableInv
<1>10. ASSUME NEW u \in Threads, u # t PROVE ThreadInv(u)'
  <2>1. /\ pc[u] \notin {"slow_lock", "work", "store", "reset", "copy"}
        /\ ~ (pc[u] = "lock_all" /\ ht_lock = u)
    BY <1>1, <1>10, ResizerAlone DEF DataInv
  <2>2. PICK m : m = map[u]
    OBVIOUS
  <2>3. /\ pc'[u] = pc[u] /\ op'[u] = op[u] /\ map'[u] = m /\ bkt'[u] = bkt[u]
        /\ pend'[u] = pend[u] /\ ht_lock' = ht_lock
    BY <1>1, <1>8, <1>10, <2>2
  <2>4. pc[u] \in WithMap => /\ NB(m)' = NB(m) /\ Buckets(m)' = Buckets(m)
                             /\ \A b : HeadAt(m, b)' = HeadAt(m, b)
    BY <1>7, <1>9, <2>2
  <2>5. /\ NB(map[u])' = NB(m)' /\ Buckets(map[u])' = Buckets(m)'
        /\ \A b : HeadAt(map[u], b)' = HeadAt(m, b)'
    BY <2>3 DEF NB, Buckets, HeadAt
  <2>6. \A b : Holds(u, b)' <=> Holds(u, b)
    BY <2>3 DEF Holds
  <2>7. ThreadInv(u)
    BY DEF DataInv, TableInv
  <2>8. LocksHeld(u)'
    BY <2>2, <2>3, <2>4, <2>5, <2>6, <2>7 DEF LocksHeld, ThreadInv
  <2>9. HtLockHeld(u)' /\ MapIsCurrent(u)'
    BY <2>1, <2>3, <2>7 DEF HtLockHeld, MapIsCurrent, ThreadInv
  <2>10. AtBucket(u)'
    BY <2>2, <2>3, <2>4, <2>5, <2>7 DEF AtBucket, ThreadInv, WithMap, Looking, Counting
  <2> QED
    BY <2>8, <2>9, <2>10 DEF ThreadInv
<1>11. ThreadInv(t)'
  <2>1. PICK m \in 1 .. Len(maps) : m = map[t]
    BY <1>1, <1>9 DEF WithMap
  <2>2. map'[t] = m /\ bkt'[t] = 0 /\ bkt[t] = 0
    BY <1>1, <2>1 DEF DataInv, TableInv, ThreadInv, AtBucket
  <2>3. \A b \in Buckets(m) : HeadAt(m, b).lock = t
    BY <1>1, <2>1 DEF DataInv, TableInv, ThreadInv, LocksHeld, Holds, WithMap
  <2>4. \A b \in Buckets(m)' : HeadAt(m, b)'.lock = t
    BY <1>7, <2>3
  <2>5. Buckets(map[t])' = Buckets(m)' /\ \A b : HeadAt(map[t], b)' = HeadAt(m, b)'
    BY <2>2 DEF NB, Buckets, HeadAt
  <2>6. LocksHeld(t)'
    BY <2>4, <2>5 DEF LocksHeld
  <2>7. HtLockHeld(t)' /\ MapIsCurrent(t)' /\ AtBucket(t)'
    BY <1>8, <2>2 DEF HtLockHeld, MapIsCurrent, AtBucket, Looking
  <2> QED
    BY <2>6, <2>7 DEF ThreadInv
<1>12. TableInv'
  BY <1>5, <1>6, <1>10, <1>11 DEF TableInv
<1>13. CurrentExact'
  <2>1. NB(ht_map)' = w.n_buckets /\ Buckets(ht_map)' = 0 .. w.n_buckets - 1
    BY <1>3, <1>4 DEF NB, Buckets
  <2>2. \A b : HeadAt(ht_map, b)' = w.heads[b]
    BY <1>3, <1>4 DEF HeadAt
  <2>3. ASSUME NEW u \in Threads, NEW b PROVE ~ AtStore(u, ht_map, b)'
    <3>1. CASE u = t
      BY <1>8, <3>1 DEF AtStore
    <3>2. CASE u # t
      <4>1. pc'[u] # "store"
        BY <1>1, <1>8, <3>2, ResizerAlone DEF DataInv
      <4> QED
        BY <4>1 DEF AtStore
    <3> QED
      BY <3>1, <3>2
  <2>4. ASSUME NEW b \in 0 .. w.n_buckets - 1, NEW P, P = Part(contents, w.n_buckets, b)
        PROVE  DataAt(ht_map, b, P)'
    <3>1. Settled(w.heads[b], P)
      BY <1>2, <2>4
    <3> QED
      BY <2>2, <2>3, <3>1 DEF DataAt
  <2>5. ASSUME NEW b \in Buckets(ht_map)' PROVE DataAt(ht_map, b, Part(contents, NB(ht_map), b))'
    <3>1. PICK P : P = Part(contents, w.n_buckets, b)
      OBVIOUS
    <3>2. Part(contents, NB(ht_map), b)' = P
      BY <1>1, <2>1, <3>1 DEF Part
    <3> QED
      BY <2>1, <2>4, <3>1, <3>2 DEF DataAt
  <2> QED
    BY <1>1, <2>5 DEF DataInv, CurrentExact
<1> QED
  BY <1>12, <1>13 DEF DataInv

-----------------------------------------------------------------------------
(* The steps that write to no bucket. *)

Frame(t) ==
    /\ ht_map' = ht_map /\ contents' = contents /\ pc[t] # "store" /\ pc'[t] # "store"
    /\ \A u \in Threads : u # t => Still(u)

LEMMA FrameQuiet ==
    ASSUME TableInv, NEW t \in Threads, Frame(t),
           \/ UNCHANGED maps
           \/ \E m \in 1 .. Len(maps) : \E b \in Buckets(m) : \E x : SetsLock(m, b, x)
    PROVE  Quiet(t)
<1>1. CASE UNCHANGED maps
  BY <1>1 DEF Frame, Quiet, NB, HeadAt, SameData
<1>2. ASSUME NEW m \in 1 .. Len(maps), NEW b \in Buckets(m), NEW x, SetsLock(m, b, x)
      PROVE  Quiet(t)
  <2>1. PICK h : h = HeadAt(m, b)
    OBVIOUS
  <2>2. PICK v : v = [h EXCEPT !.lock = x]
    OBVIOUS
  <2>3. Wrote(m, b, v)
    BY <1>2, <2>1, <2>2, WriteLock DEF TableInv, SetsLock
  <2>4. SameData(h, v)
    <3>1. DOMAIN h = {"lock", "sequence", "linked", "slots"}
      BY <2>1, ShapeFacts DEF TableInv, WellFormedHead
    <3> QED
      BY <2>2, <3>1 DEF SameData
  <2>5. ASSUME NEW k \in 1 .. Len(maps), NEW c \in Buckets(k)
        PROVE  SameData(HeadAt(k, c), HeadAt(k, c)')
    <3>1. CASE k = m /\ c = b
      BY <2>1, <2>3, <2>4, <3>1 DEF Wrote
    <3>2. CASE ~ (k = m /\ c = b)
      BY <2>3, <3>2 DEF Wrote, SameData
    <3> QED
      BY <3>1, <3>2
  <2>6. Len(maps') = Len(maps) /\ \A k \in 1 .. Len(maps) : NB(k)' = NB(k)
    BY <2>3 DEF Wrote
  <2> QED
    BY <2>5, <2>6 DEF Frame, Quiet
<1> QED
  BY <1>1, <1>2

LEMMA CallFrame ==
    ASSUME TableInv, NEW t \in Threads, Call(t) \/ ReadMap(t) PROVE Frame(t) /\ UNCHANGED maps
<1> USE DEF TableInv, BaseInv, TablesInv, LocalsInv
<1>1. CASE Call(t)
  BY <1>1 DEF Call, Goto, Set, Still, Kept, Frame, tableVars
<1>2. CASE ReadMap(t)
  <2>1. op[t].kind \in {"lookup", "stats", "insert", "remove", "reset", "iter"}
    BY <1>2, OpPointer DEF ReadMap, KindInv, Kinds
  <2>2. pc[t] # "store" /\ pc'[t] # "store"
    BY <1>2, <2>1 DEF ReadMap, Goto
  <2> QED
    BY <1>2, <2>2 DEF ReadMap, Goto, Set, Still, Kept, Frame, tableVars, histVars
<1> QED
  BY <1>1, <1>2

LEMMA ReturnFrame ==
    ASSUME TableInv, NEW t \in Threads, Return(t), ht_map' = ht_map, contents' = contents,
           pc[t] # "store"
    PROVE  Frame(t)
BY DEF TableInv, BaseInv, TablesInv, LocalsInv, Return, Goto, Set, Still, Kept, Frame

LEMMA LookupFrame ==
    ASSUME TableInv, NEW t \in Threads, Lookup(t) PROVE Frame(t) /\ UNCHANGED maps
<1>1. CASE LookupReturn(t)
  BY <1>1, ReturnFrame DEF LookupReturn
<1>2. CASE ~ LookupReturn(t)
  <2> USE DEF Lookup, LookupBegin, LookupHash, LookupPointer, LookupNext, LookupRetry, AfterSlot,
              tableVars, localVars, histVars
  <2>1. pc[t] # "store" /\ pc'[t] # "store"
    BY <1>2 DEF Goto, TableInv, BaseInv, TablesInv
  <2>2. UNCHANGED <<maps, ht_map, contents>>
    BY <1>2
  <2>3. \A u \in Threads : u # t => Still(u)
    BY <1>2 DEF Still, Kept, Set, Goto, TableInv, LocalsInv, BaseInv, TablesInv
  <2> QED
    BY <2>1, <2>2, <2>3 DEF Frame
<1> QED
  BY <1>1, <1>2

LEMMA StatsFrame ==
    ASSUME TableInv, NEW t \in Threads, Stats(t) PROVE Frame(t) /\ UNCHANGED maps
<1>1. UNCHANGED <<maps, ht_map, contents>> /\ pc[t] # "store"
  BY DEF Stats, StatsBegin, StatsPointer, StatsNext, StatsRetry, tableVars, histVars
<1>2. CASE Return(t)
  BY <1>1, <1>2, ReturnFrame
<1>3. CASE ~ Return(t)
  <2> USE DEF Stats, StatsBegin, StatsPointer, StatsNext, StatsRetry, AfterSlot,
              tableVars, localVars, histVars
  <2>1. pc'[t] # "store"
    BY <1>3 DEF Goto, TableInv, BaseInv, TablesInv
  <2>2. \A u \in Threads : u # t => Still(u)
    BY <1>3 DEF Still, Kept, Set, Goto, TableInv, LocalsInv, BaseInv, TablesInv
  <2> QED
    BY <1>1, <2>1, <2>2 DEF Frame
<1> QED
  BY <1>2, <1>3

LEMMA HtFrame ==
    ASSUME TableInv, NEW t \in Threads,
           SlowMap(t) \/ HtLock(t) \/ GrowMaybe(t) \/ GrowBusy(t) \/ HtUnlock(t)
    PROVE  Frame(t) /\ UNCHANGED maps
<1>1. UNCHANGED <<maps, ht_map, contents>> /\ pc[t] # "store"
  BY DEF SlowMap, HtLock, GrowMaybe, GrowBusy, HtUnlock, histVars
<1>2. CASE GrowBusy(t) \/ HtUnlock(t)
  BY <1>1, <1>2, ReturnFrame DEF GrowBusy, HtUnlock
<1>3. CASE SlowMap(t) \/ HtLock(t) \/ GrowMaybe(t)
  <2>1. pc'[t] # "store"
    BY <1>3 DEF SlowMap, HtLock, GrowMaybe, Goto, TableInv, BaseInv, TablesInv
  <2>2. \A u \in Threads : u # t => Still(u)
    BY <1>3 DEF SlowMap, HtLock, GrowMaybe, Still, Kept, Set, Goto, TableInv, LocalsInv, BaseInv,
                TablesInv
  <2> QED
    BY <1>1, <2>1, <2>2 DEF Frame
<1> QED
  BY <1>2, <1>3

LEMMA AllLocksFrame ==
    ASSUME TableInv, NEW t \in Threads,
           AllLocked(t) \/ ResetDone(t) \/ Visit(t) \/ Retire(t) \/ AllUnlocked(t)
    PROVE  Frame(t) /\ UNCHANGED maps
<1>1. UNCHANGED <<maps, ht_map, contents>> /\ pc[t] # "store"
  BY DEF AllLocked, ResetDone, Visit, Retire, AllUnlocked, histVars, tableVars
<1>2. CASE AllUnlocked(t) /\ Return(t)
  BY <1>1, <1>2, ReturnFrame
<1>3. CASE AllUnlocked(t) /\ ~ Return(t)
  BY <1>1, <1>3 DEF AllUnlocked, Frame, Still, Kept, Set, Goto, TableInv, LocalsInv, BaseInv,
     TablesInv
<1>4. CASE AllLocked(t)
  <2>1. op[t].kind \in {"iter", "reset_size", "resize", "insert", "reset"}
    BY <1>4 DEF AllLocked, TableInv, BaseInv, KindInv, GrowKinds, ResetKinds
  <2>2. Goto(t, "visit") \/ Goto(t, "reset") \/ Goto(t, "copy") \/ Goto(t, "unlock_stale")
    BY <1>4, <2>1 DEF AllLocked
  <2>3. /\ UNCHANGED <<op, map, pos, version, found>> /\ UNCHANGED <<needs_resize, pend>>
        /\ bkt' = Set(bkt, t, 0)
    BY <1>4 DEF AllLocked
  <2> QED
    BY <1>1, <2>2, <2>3 DEF Frame, Still, Kept, Set, Goto, TableInv, LocalsInv, BaseInv, TablesInv
<1>5. CASE ResetDone(t)
  BY <1>1, <1>5 DEF ResetDone, Frame, Still, Kept, Set, Goto, TableInv, LocalsInv, BaseInv,
     TablesInv
<1>6. CASE Visit(t) \/ Retire(t)
  BY <1>1, <1>6 DEF Visit, Retire, Frame, Still, Kept, Goto, TableInv, BaseInv, TablesInv, localVars
<1> QED
  BY <1>2, <1>3, <1>4, <1>5, <1>6

LEMMA LockFrame ==
    ASSUME TableInv, NEW t \in Threads,
           LockBucket(t) \/ SlowLock(t) \/ LockAll(t) \/ UnlockAll(t) \/ UnlockBucket(t)
    PROVE  /\ Frame(t)
           /\ UNCHANGED maps \/ \E x : SetsLock(map[t], bkt[t], x)
           /\ map[t] \in 1 .. Len(maps) /\ bkt[t] \in Buckets(map[t])
<1>1. UNCHANGED <<ht_map, contents>> /\ pc[t] # "store"
  BY DEF LockBucket, SlowLock, LockAll, UnlockAll, UnlockBucket, histVars
<1>2. UNCHANGED maps \/ \E x : SetsLock(map[t], bkt[t], x)
  BY DEF LockBucket, SlowLock, LockAll, UnlockAll, UnlockBucket, NextToLock, SetsLock
<1>3. map[t] \in 1 .. Len(maps) /\ bkt[t] \in Buckets(map[t])
  <2>1. CASE LockBucket(t) \/ SlowLock(t) \/ UnlockBucket(t)
    BY <2>1, BucketInMap DEF LockBucket, SlowLock, UnlockBucket
  <2>2. CASE LockAll(t) \/ UnlockAll(t)
    <3>1. pc[t] \in {"lock_all", "unlock_all", "unlock_stale"} /\ bkt[t] < NB(map[t])
      BY <2>2 DEF LockAll, UnlockAll, NB
    <3>2. map[t] \in 1 .. Len(maps)
      BY <3>1, MapInHand DEF TableInv, WithMap
    <3>3. NB(map[t]) \in Nat \ {0} /\ bkt[t] \in 0 .. NB(map[t])
      BY <3>1, <3>2, ShapeFacts DEF TableInv, ThreadInv, AtBucket
    <3> QED
      BY <3>1, <3>2, <3>3 DEF Buckets
  <2> QED
    BY <2>1, <2>2
<1>4. Frame(t)
  <2>1. CASE UnlockBucket(t)
    <3>1. CASE Return(t)
      BY <1>1, <3>1, ReturnFrame
    <3>2. CASE ~ Return(t)
      BY <1>1, <2>1, <3>2 DEF UnlockBucket, Frame, Still, Kept, Set, Goto, TableInv, LocalsInv,
                              BaseInv, TablesInv
    <3> QED
      BY <3>1, <3>2
  <2>2. CASE LockBucket(t)
    BY <1>1, <2>2 DEF LockBucket, Frame, Still, Kept, Set, Goto, TableInv, LocalsInv, BaseInv,
                      TablesInv, localVars
  <2>3. CASE SlowLock(t)
    BY <1>1, <2>3 DEF SlowLock, Frame, Still, Kept, Set, Goto, TableInv, LocalsInv, BaseInv,
                      TablesInv, localVars
  <2>4. CASE LockAll(t) \/ UnlockAll(t)
    BY <1>1, <2>4 DEF LockAll, UnlockAll, Frame, Still, Kept, Set, TableInv, LocalsInv
  <2> QED
    BY <2>1, <2>2, <2>3, <2>4
<1> QED
  BY <1>2, <1>3, <1>4

(* Nothing to insert, nothing to remove. *)
LEMMA NothingFrame ==
    ASSUME DataInv, NEW t \in Threads, InsertLocked(t) \/ RemoveLocked(t), pc'[t] # "store"
    PROVE  Frame(t) /\ UNCHANGED maps
<1>1. DOMAIN pc = Threads /\ pc[t] = "work"
  BY DEF InsertLocked, RemoveLocked, DataInv, TableInv, BaseInv, TablesInv
<1>2. /\ Goto(t, "unlock") /\ UNCHANGED <<maps, needs_resize, pend>> /\ contents' = contents
      /\ UNCHANGED <<ht_map, op, map, bkt, pos, version, found>>
  BY <1>1 DEF InsertLocked, RemoveLocked, Goto
<1> QED
  BY <1>1, <1>2 DEF Frame, Goto, Still, Kept

-----------------------------------------------------------------------------
(* The contents of the table. *)

(* The pointers that are inserted first. *)
IsPreset(e) ==
    e = [x \in {0} \X DOMAIN Preset |-> [h |-> Hash[Preset[x[2]]], p |-> Preset[x[2]]]]

LEMMA PresetListing ==
    ASSUME NEW e, IsPreset(e)
    PROVE  Listing(e, ToSet(Preset))
<1>1. PICK n \in Nat : n = Len(Preset) /\ DOMAIN Preset = 1 .. n
  BY QHTAssumption
<1>2. PICK D : D = {0} \X (1 .. n)
  OBVIOUS
<1>3. DOMAIN e = D /\ \A i \in 1 .. n : <<0, i>> \in D
  BY <1>1, <1>2 DEF IsPreset
<1>4. \A x \in D : \E i \in 1 .. n : x = <<0, i>>
  BY <1>2
<1>5. \A i \in 1 .. n : e[<<0, i>>] = [h |-> Hash[Preset[i]], p |-> Preset[i]]
  BY <1>1, <1>2, <1>3 DEF IsPreset
<1>6. D \subseteq Nat \X Nat
  BY <1>4
<1>7. IsFiniteSet(D)
  <2>1. IsFiniteSet({0})
    BY FS_Singleton
  <2>2. IsFiniteSet(1 .. n)
    BY FS_Interval
  <2> QED
    BY <1>2, <2>1, <2>2, FS_Product
<1>8. ToSet(Preset) = {Preset[i] : i \in 1 .. n}
  BY <1>1 DEF ToSet
<1>9. \A i, j \in 1 .. n : Preset[i] = Preset[j] => i = j
  BY <1>1, QHTAssumption DEF IsInjective
<1>10. ASSUME NEW x \in D
       PROVE  IsSlot(e[x]) /\ e[x].p \in ToSet(Preset) /\ e[x].h = Hash[e[x].p]
  <2>1. PICK i \in 1 .. n : x = <<0, i>>
    BY <1>4
  <2>2. e[x] = [h |-> Hash[Preset[i]], p |-> Preset[i]] /\ Preset[i] \in ToSet(Preset)
    BY <1>5, <1>8, <2>1
  <2> QED
    BY <2>2 DEF IsSlot
<1>11. ASSUME NEW x \in D, NEW y \in D, e[x].p = e[y].p PROVE x = y
  <2>1. PICK i \in 1 .. n, j \in 1 .. n : x = <<0, i>> /\ y = <<0, j>>
    BY <1>4
  <2>2. e[x] = [h |-> Hash[Preset[i]], p |-> Preset[i]]
    BY <1>5, <2>1
  <2>3. e[y] = [h |-> Hash[Preset[j]], p |-> Preset[j]]
    BY <1>5, <2>1
  <2> QED
    BY <1>9, <1>11, <2>1, <2>2, <2>3
<1>12. ASSUME NEW p \in ToSet(Preset) PROVE \E x \in D : e[x].p = p
  <2>1. PICK i \in 1 .. n : p = Preset[i]
    BY <1>8
  <2>2. <<0, i>> \in D /\ e[<<0, i>>] = [h |-> Hash[Preset[i]], p |-> Preset[i]]
    BY <1>3, <1>5
  <2>3. e[<<0, i>>].p = p
    BY <2>1, <2>2
  <2> QED
    BY <2>2, <2>3
<1>13. /\ DOMAIN e \subseteq Nat \X Nat /\ IsFiniteSet(DOMAIN e)
       /\ \A x, y \in DOMAIN e : e[x].p = e[y].p => x = y
  BY <1>3, <1>6, <1>7, <1>11
<1>14. /\ \A x \in DOMAIN e : IsSlot(e[x]) /\ e[x].p \in ToSet(Preset) /\ e[x].h = Hash[e[x].p]
       /\ \A p \in ToSet(Preset) : \E x \in DOMAIN e : e[x].p = p
  <2>1. \A x \in D : IsSlot(e[x]) /\ e[x].p \in ToSet(Preset) /\ e[x].h = Hash[e[x].p]
    BY <1>10
  <2>2. \A p \in ToSet(Preset) : \E x \in D : e[x].p = p
    BY <1>12
  <2>3. DOMAIN e = D
    BY <1>3
  <2> QED
    BY <2>1, <2>2, <2>3, Zenon
<1> QED
  BY <1>13, <1>14 DEF Listing

LEMMA DataInit == ASSUME Init PROVE DataInv
<1>1. PICK n \in Nat \ {0} : n = qht_elems_to_buckets(InitElems)
  BY BucketsType, QHTAssumption
<1>2. PICK e : e = [x \in {0} \X DOMAIN Preset |-> [h |-> Hash[Preset[x[2]]], p |-> Preset[x[2]]]]
  OBVIOUS
<1>3. PICK w : w = Filled(e, n)
  OBVIOUS
<1>4. /\ WellFormedMap(w) /\ w.n_buckets = n
      /\ \A b \in 0 .. n - 1 : Settled(w.heads[b], Part(ToSet(Preset), n, b))
  <2>1. Listing(e, ToSet(Preset))
    BY <1>2, PresetListing DEF IsPreset
  <2> QED
    BY <1>3, <2>1, FilledExact
<1>5. maps = <<w>> /\ ht_map = 1 /\ contents = ToSet(Preset)
  BY <1>1, <1>2, <1>3 DEF Init
<1>6. Len(maps) = 1 /\ maps[1] = w
  BY <1>5
<1>7. BaseInv
  BY MapInvInit DEF MapInv
<1>8. ShapeInv
  <2>1. \A m \in 1 .. 1 : m = 1
    OBVIOUS
  <2> QED
    BY <1>4, <1>6, <1>7, <2>1 DEF ShapeInv, BaseInv, TablesInv
<1>9. LocalsInv
  BY DEF Init, LocalsInv
<1>10. ASSUME NEW t \in Threads PROVE pc[t] = "idle" /\ ThreadInv(t)
  <2>1. pc[t] = "idle"
    BY DEF Init
  <2> QED
    BY <2>1 DEF ThreadInv, LocksHeld, HtLockHeld, MapIsCurrent, AtBucket, WithMap, Looking, Counting
<1>11. TableInv
  BY <1>7, <1>8, <1>9, <1>10 DEF TableInv
<1>12. contents \subseteq Pointers
  BY <1>5, QHTAssumption DEF ToSet
<1>13. ASSUME NEW b \in Buckets(ht_map) PROVE DataAt(ht_map, b, Part(contents, NB(ht_map), b))
  <2>1. b \in 0 .. n - 1 /\ NB(ht_map) = n /\ HeadAt(ht_map, b) = w.heads[b]
    BY <1>4, <1>5, <1>6 DEF Buckets, NB, HeadAt
  <2>2. Settled(HeadAt(ht_map, b), Part(contents, NB(ht_map), b))
    BY <1>4, <1>5, <2>1
  <2> QED
    BY <1>10, <2>2 DEF DataAt, AtStore
<1> QED
  BY <1>11, <1>12, <1>13 DEF DataInv, CurrentExact

(* The locks and the maps through a step of a thread. *)
LEMMA TableThread ==
    ASSUME TableInv, BaseInv', NEW t \in Threads, Call(t) \/ Step(t), ~ Copy(t) PROVE TableInv'
<1>1. CASE Call(t) \/ ReadMap(t) \/ Lookup(t) \/ Stats(t)
  BY <1>1, CallTable, ReadMapTable, LookupTable, StatsTable
<1>2. CASE LockBucket(t) \/ SlowMap(t) \/ SlowLock(t) \/ Write(t)
  BY <1>2, LockBucketTable, SlowMapTable, SlowLockTable, InsertTable, RemoveTable, DoStoreTable,
     WriteEndTable, UnlockBucketTable DEF Write
<1>3. CASE HtLock(t) \/ GrowMaybe(t) \/ GrowBusy(t) \/ HtUnlock(t)
  BY <1>3, HtLockTable, HtUnlockTable
<1>4. CASE WithAllLocks(t)
  BY <1>4, LockAllTable, AllLockedTable, ResetTable, WithAllTable, UnlockAllTable,
     AllUnlockedTable DEF WithAllLocks
<1> QED
  BY <1>1, <1>2, <1>3, <1>4 DEF Step

LEMMA QuietThread ==
    ASSUME DataInv, NEW t \in Threads, Call(t) \/ Step(t), ~ Copy(t), ~ ResetBucket(t),
           ~ DoStore(t), ~ WriteEnd(t), InsertLocked(t) \/ RemoveLocked(t) => pc'[t] # "store"
    PROVE  Quiet(t)
<1>1. TableInv
  BY DEF DataInv
<1>2. CASE LockBucket(t) \/ SlowLock(t) \/ LockAll(t) \/ UnlockAll(t) \/ UnlockBucket(t)
  BY <1>1, <1>2, LockFrame, FrameQuiet
<1>3. ASSUME ~ (LockBucket(t) \/ SlowLock(t) \/ LockAll(t) \/ UnlockAll(t) \/ UnlockBucket(t))
      PROVE  Frame(t) /\ UNCHANGED maps
  <2>1. CASE Call(t) \/ ReadMap(t) \/ Lookup(t) \/ Stats(t)
    BY <1>1, <2>1, CallFrame, LookupFrame, StatsFrame
  <2>2. CASE SlowMap(t) \/ HtLock(t) \/ GrowMaybe(t) \/ GrowBusy(t) \/ HtUnlock(t)
    BY <1>1, <2>2, HtFrame
  <2>3. CASE Write(t)
    BY <1>1, <1>3, <2>3, NothingFrame DEF Write
  <2>4. CASE WithAllLocks(t)
    BY <1>1, <1>3, <2>4, AllLocksFrame DEF WithAllLocks
  <2> QED
    BY <1>3, <2>1, <2>2, <2>3, <2>4 DEF Step
<1> QED
  BY <1>1, <1>2, <1>3, FrameQuiet

LEMMA DataThread ==
    ASSUME DataInv, BaseInv', NEW t \in Threads, Call(t) \/ Step(t) PROVE DataInv'
<1>1. CASE Copy(t)
  BY <1>1, CopyData
<1>2. CASE ~ Copy(t)
  <2>1. TableInv'
    BY <1>2, TableThread DEF DataInv
  <2>2. CASE ResetBucket(t) \/ DoStore(t) \/ WriteEnd(t)
    BY <2>1, <2>2, ResetData, DoStoreData, WriteEndData DEF DataInv
  <2>3. CASE (InsertLocked(t) \/ RemoveLocked(t)) /\ pc'[t] = "store"
    BY <2>1, <2>3, InsertData, RemoveData DEF DataInv
  <2>4. CASE /\ ~ (ResetBucket(t) \/ DoStore(t) \/ WriteEnd(t))
             /\ ~ ((InsertLocked(t) \/ RemoveLocked(t)) /\ pc'[t] = "store")
    BY <1>2, <2>1, <2>4, QuietThread, QuietData DEF DataInv
  <2> QED
    BY <2>2, <2>3, <2>4
<1> QED
  BY <1>1, <1>2

(* Reclaiming a map, and stuttering, change nothing of it. *)
LEMMA DataSame ==
    ASSUME DataInv, BaseInv', UNCHANGED <<maps, ht_map, ht_lock, pc, localVars, histVars>>
    PROVE  DataInv'
<1>1. /\ UNCHANGED <<maps, ht_map, ht_lock, pc, op, map, bkt, pend, contents>>
      /\ UNCHANGED <<pos, version, found, needs_resize, seen, result>>
  BY DEF localVars, histVars
<1>2. ShapeInv' /\ LocalsInv'
  BY <1>1 DEF DataInv, TableInv, ShapeInv, LocalsInv
<1>3. ASSUME NEW t \in Threads PROVE ThreadInv(t)'
  <2>1. Still(t)
    BY <1>1 DEF Still, Kept
  <2> QED
    BY <1>1, <2>1, OtherThread DEF DataInv, TableInv, NB, HeadAt
<1>4. CurrentExact'
  BY <1>1 DEF DataInv, CurrentExact, DataAt, Part, NB, Buckets, HeadAt, AtStore
<1> QED
  BY <1>2, <1>3, <1>4 DEF DataInv, TableInv

LEMMA DataStep == ASSUME DataInv, BaseInv', [Next]_vars PROVE DataInv'
<1>1. CASE UNCHANGED vars
  BY <1>1, DataSame DEF vars, tableVars
<1>2. ASSUME NEW t \in Threads, Call(t) \/ Step(t) PROVE DataInv'
  BY <1>2, DataThread
<1>3. ASSUME NEW m, Reclaim(m) PROVE DataInv'
  BY <1>3, DataSame DEF Reclaim
<1> QED
  BY <1>1, <1>2, <1>3 DEF Next

(* The chain of a bucket holds the pointers of P. *)
ExactChain(h, c, P) ==
    /\ h.linked = Len(h.slots)
    /\ \A i \in DOMAIN h.slots \ c : h.slots[i] = EmptySlot
    /\ \A i, j \in c : h.slots[i].p = h.slots[j].p => i = j
    /\ \A i \in c : h.slots[i].h = Hash[h.slots[i].p]
    /\ {h.slots[i].p : i \in c} = P

LEMMA SettledBucket ==
    ASSUME NEW h, WellFormedHead(h), NEW P, P \subseteq Pointers, Settled(h, P),
           NEW c, c = Chain(h.slots)
    PROVE  ExactChain(h, c, P)
<1>1. PICK n \in Nat : n = Len(h.slots) /\ DOMAIN h.slots = 1 .. n /\ IsSeq(h.slots)
  BY SeqFacts DEF WellFormedHead
<1>2. PICK k \in 0 .. n : Exactly(h.slots, n, k, P)
  BY <1>1 DEF Settled, Exact
<1>3. c = 1 .. k
  BY <1>1, <1>2, ChainIs
<1>4. ASSUME NEW i \in DOMAIN h.slots \ c PROVE h.slots[i] = EmptySlot
  <2>1. i \in 1 .. n /\ i > k
    BY <1>1, <1>2, <1>3
  <2>2. h.slots[i].p = NULL /\ h.slots[i].h = 0
    BY <1>2, <2>1 DEF Exactly
  <2>3. IsSlot(h.slots[i])
    BY <1>1, <2>1 DEF WellFormedHead
  <2> QED
    BY <2>2, <2>3 DEF EmptySlot, IsSlot
<1>5. {h.slots[i].p : i \in c} = P
  BY <1>2, <1>3 DEF Exactly
<1> QED
  BY <1>2, <1>3, <1>4, <1>5 DEF Exactly, Settled, ExactChain

LEMMA DataExact == ASSUME DataInv PROVE BucketsExact
<1>1. ht_map \in 1 .. Len(maps) /\ contents \subseteq Pointers
  BY DEF DataInv, TableInv, BaseInv, TablesInv, CurrentExact
<1>2. ASSUME NEW b \in Buckets(ht_map), NEW h, h = HeadAt(ht_map, b), h.sequence % 2 = 0,
             NEW c, c = Chain(h.slots), NEW W,
             W = {p \in contents : qht_map_to_bucket(maps[ht_map], Hash[p]) = b}
      PROVE  ExactChain(h, c, W)
  <2>1. PICK P : P = Part(contents, NB(ht_map), b)
    OBVIOUS
  <2>2. DataAt(ht_map, b, P)
    BY <2>1 DEF DataInv, CurrentExact
  <2>3. Settled(h, P)
    <3>1. \A t \in Threads : ~ AtStore(t, ht_map, b)
      BY <1>2, <2>2 DEF DataAt, Writing
    <3> QED
      BY <1>2, <2>2, <3>1 DEF DataAt
  <2>4. WellFormedHead(h)
    BY <1>1, <1>2, ShapeFacts DEF DataInv, TableInv
  <2>5. P \subseteq Pointers /\ P = W
    BY <1>1, <1>2, <2>1 DEF Part, NB, qht_map_to_bucket
  <2> QED
    BY <1>2, <2>3, <2>4, <2>5, SettledBucket
<1> QED
  <2>1. ASSUME NEW b \in Buckets(ht_map), HeadAt(ht_map, b).sequence % 2 = 0
        PROVE  ExactChain(HeadAt(ht_map, b), Chain(HeadAt(ht_map, b).slots),
                          {p \in contents : qht_map_to_bucket(maps[ht_map], Hash[p]) = b})
    BY <1>2, <2>1
  <2>2. ASSUME NEW b \in 0 .. maps[ht_map].n_buckets - 1, maps[ht_map].heads[b].sequence % 2 = 0
        PROVE  ExactChain(maps[ht_map].heads[b], Chain(maps[ht_map].heads[b].slots),
                          {p \in contents : qht_map_to_bucket(maps[ht_map], Hash[p]) = b})
    BY <2>1, <2>2 DEF Buckets, NB, HeadAt
  <2> QED
    BY <2>2 DEF BucketsExact, ExactChain

(* At every moment each bucket of the current map that nobody is writing   *)
(* to holds exactly the table's pointers that hash to it: whatever the     *)
(* number of threads, the sizes, the hashes, and however insertions,       *)
(* removals, resets, resizes and the stores of each follow one another.    *)
(* No assumption on RCU sections is needed.                                *)
THEOREM BucketsStayExact == Spec => []BucketsExact
<1> DEFINE DI == MapInv /\ DataInv
<1>1. Init => DI
  BY MapInvInit, DataInit
<1>2. DI /\ [Next]_vars => DI'
  <2>1. MapInv /\ [Next]_vars => MapInv'
    BY MapInvStep
  <2>2. MapInv' => BaseInv'
    BY DEF MapInv
  <2>3. DataInv /\ BaseInv' /\ [Next]_vars => DataInv'
    BY DataStep
  <2> QED
    BY <2>1, <2>2, <2>3
<1>3. DI => BucketsExact
  BY DataExact
<1> QED
  BY <1>1, <1>2, <1>3, PTL DEF Spec

-----------------------------------------------------------------------------
(* What a reader sees. *)

(* The operations that answer with the contents at an instant. *)
Reading(t) ==
    \/ pc[t] \in Looking \cup {"visit"}
    \/ pc[t] \in {"map", "lock_all"} /\ op[t].kind \in {"lookup", "iter"}

SeenFine(t) == (seen[t] # {} <=> Reading(t)) /\ (seen[t] # {} => contents \in seen[t])
SeenInv == seen \in [Threads -> SUBSET (SUBSET Pointers)] /\ \A t \in Threads : SeenFine(t)

(* A map that was replaced is left as it was: it has the contents of an    *)
(* instant that everybody who still reads it has seen.                     *)
Frozen(m, C) ==
    /\ \A b \in Buckets(m) : Settled(HeadAt(m, b), Part(C, NB(m), b))
    /\ \A t \in Threads : map[t] = m /\ seen[t] # {} => C \in seen[t]
StaleExact ==
    \A m \in 1 .. Len(maps) : m # ht_map => \E C \in SUBSET Pointers : Frozen(m, C)

(* While the sequence number is still the one that a lookup started from,  *)
(* the slots it has passed do not hold the pointer it looks for.           *)
Scanning == {"hash", "ptr", "next", "retry"}
Absent(h, n, p) == \A i \in 1 .. n : h.slots[i].p # p
Scanned(t, h) ==
    /\ version[t] \in Nat /\ version[t] % 2 = 0 /\ version[t] <= h.sequence
    /\ pc[t] # "retry" => found[t] = {}
    /\ h.sequence = version[t] =>
          /\ pos[t] \in 1 .. Len(h.slots)
          /\ pc[t] \in {"hash", "ptr"} => Absent(h, pos[t] - 1, op[t].p)
          /\ pc[t] = "next" => Absent(h, pos[t], op[t].p)
          /\ pc[t] = "retry" =>
                IF Absent(h, Len(h.slots), op[t].p) THEN found[t] = {} ELSE found[t] = {op[t].p}
ScanInv(t) == pc[t] \in Scanning => Scanned(t, HeadAt(map[t], bkt[t]))

ReadInv == DataInv /\ SeenInv /\ StaleExact /\ \A t \in Threads : ScanInv(t)

(* What a bucket may become in a step, while some read it. *)
Evolves(h, v) ==
    /\ v.sequence \in Nat /\ v.sequence >= h.sequence
    /\ v.sequence = h.sequence /\ h.sequence % 2 = 0 => v.slots = h.slots

LEMMA ScanStep ==
    ASSUME NEW t \in Threads, Still(t), ScanInv(t), NEW h, h = HeadAt(map[t], bkt[t]),
           h.sequence \in Nat, pc[t] \in Scanning => Evolves(h, HeadAt(map[t], bkt[t])')
    PROVE  ScanInv(t)'
<1>1. PICK v : v = HeadAt(map[t], bkt[t])'
  OBVIOUS
<1>2. /\ pc'[t] = pc[t] /\ op'[t] = op[t] /\ version'[t] = version[t] /\ found'[t] = found[t]
      /\ pos'[t] = pos[t]
  BY DEF Still, Kept
<1>3. ASSUME pc[t] \in Scanning PROVE Scanned(t, v)'
  <2>1. Scanned(t, h) /\ Evolves(h, v)
    BY <1>1, <1>3 DEF ScanInv
  <2>2. /\ version[t] \in Nat /\ version[t] % 2 = 0 /\ version[t] <= v.sequence
        /\ pc[t] # "retry" => found[t] = {}
    BY <2>1 DEF Scanned, Evolves
  <2>3. v.sequence = version[t] => h.sequence = version[t] /\ v.slots = h.slots
    BY <2>1 DEF Scanned, Evolves
  <2>4. v.sequence = version[t] =>
           /\ pos[t] \in 1 .. Len(v.slots)
           /\ pc[t] \in {"hash", "ptr"} => Absent(v, pos[t] - 1, op[t].p)
           /\ pc[t] = "next" => Absent(v, pos[t], op[t].p)
           /\ pc[t] = "retry" =>
                 IF Absent(v, Len(v.slots), op[t].p) THEN found[t] = {} ELSE found[t] = {op[t].p}
    BY <2>1, <2>3 DEF Scanned, Absent
  <2> QED
    BY <1>2, <2>2, <2>4 DEF Scanned
<1> QED
  BY <1>1, <1>2, <1>3 DEF ScanInv

(* Who reads sees what the contents become. *)
Sees(t) == seen'[t] = IF seen[t] = {} THEN {} ELSE seen[t] \cup {contents'}

LEMMA SeenStep ==
    ASSUME NEW t \in Threads, SeenFine(t), Sees(t), Reading(t)' <=> Reading(t)
    PROVE  SeenFine(t)'
BY DEF SeenFine, Sees

LEMMA StillReading == ASSUME NEW t, Still(t) PROVE Reading(t)' <=> Reading(t)
BY DEF Still, Kept, Reading

(* A replaced map through a step that publishes none. *)
Follows(t, m) ==
    map'[t] = m /\ seen'[t] # {} => map[t] = m /\ seen[t] # {} /\ seen[t] \subseteq seen'[t]

LEMMA StaleStep ==
    ASSUME StaleExact, ht_map' = ht_map, Len(maps') = Len(maps),
           NEW m \in 1 .. Len(maps), m # ht_map, NB(m)' = NB(m),
           \A b \in Buckets(m) : SameData(HeadAt(m, b), HeadAt(m, b)'),
           \A t \in Threads : Follows(t, m)
    PROVE  \E C \in SUBSET Pointers : Frozen(m, C)'
<1>1. PICK C \in SUBSET Pointers : Frozen(m, C)
  BY DEF StaleExact
<1>2. Buckets(m)' = Buckets(m)
  BY DEF Buckets
<1>3. ASSUME NEW b \in Buckets(m) PROVE Settled(HeadAt(m, b), Part(C, NB(m), b))'
  <2>1. PICK h, v : h = HeadAt(m, b) /\ v = HeadAt(m, b)'
    OBVIOUS
  <2>2. PICK P : P = Part(C, NB(m), b)
    OBVIOUS
  <2>3. Settled(h, P) /\ SameData(h, v)
    BY <1>1, <2>1, <2>2 DEF Frozen
  <2>4. Settled(v, P)
    BY <2>3, SameSettled
  <2>5. Part(C, NB(m), b)' = P
    BY <2>2 DEF Part
  <2> QED
    BY <2>1, <2>4, <2>5 DEF Settled
<1>4. \A t \in Threads : map'[t] = m /\ seen'[t] # {} => C \in seen'[t]
  BY <1>1 DEF Frozen, Follows
<1>5. Frozen(m, C)'
  BY <1>2, <1>3, <1>4 DEF Frozen
<1> QED
  BY <1>5

(* The buckets that a lookup may trust. *)
LEMMA EvenSettled ==
    ASSUME ReadInv, NEW m \in 1 .. Len(maps)
    PROVE  \E C \in SUBSET Pointers :
              /\ \A b \in Buckets(m) : HeadAt(m, b).sequence % 2 = 0 =>
                    Settled(HeadAt(m, b), Part(C, NB(m), b))
              /\ \A t \in Threads : map[t] = m /\ seen[t] # {} => C \in seen[t]
<1>1. CASE m # ht_map
  BY <1>1 DEF ReadInv, StaleExact, Frozen
<1>2. CASE m = ht_map
  <2>1. contents \in SUBSET Pointers
    BY DEF ReadInv, DataInv, CurrentExact
  <2>2. ASSUME NEW b \in Buckets(m), HeadAt(m, b).sequence % 2 = 0
        PROVE  Settled(HeadAt(m, b), Part(contents, NB(m), b))
    <3>1. PICK P : P = Part(contents, NB(m), b)
      OBVIOUS
    <3>2. DataAt(m, b, P)
      BY <1>2, <3>1 DEF ReadInv, DataInv, CurrentExact
    <3>3. \A t \in Threads : ~ AtStore(t, m, b)
      BY <2>2, <3>2 DEF DataAt, Writing
    <3> QED
      BY <3>1, <3>2, <3>3 DEF DataAt
  <2>3. \A t \in Threads : seen[t] # {} => contents \in seen[t]
    BY DEF ReadInv, SeenInv, SeenFine
  <2> QED
    BY <2>1, <2>2, <2>3
<1> QED
  BY <1>1, <1>2

-----------------------------------------------------------------------------
(* The maps that are in use, through a step that publishes none. *)

Evolving ==
    /\ Len(maps') = Len(maps) /\ ht_map' = ht_map
    /\ \A m \in 1 .. Len(maps) : NB(m)' = NB(m)
    /\ \A m \in 1 .. Len(maps) : \A b \in Buckets(m) : Evolves(HeadAt(m, b), HeadAt(m, b)')
    /\ \A m \in 1 .. Len(maps) : m # ht_map =>
          \A b \in Buckets(m) : SameData(HeadAt(m, b), HeadAt(m, b)')

LEMMA SameEvolves == ASSUME NEW h, WellFormedHead(h), NEW v, SameData(h, v) PROVE Evolves(h, v)
BY DEF WellFormedHead, SameData, Evolves

LEMMA QuietEvolving == ASSUME TableInv, NEW t \in Threads, Quiet(t) PROVE Evolving
<1>1. \A m \in 1 .. Len(maps) : \A b \in Buckets(m) : SameData(HeadAt(m, b), HeadAt(m, b)')
  BY DEF Quiet
<1>2. \A m \in 1 .. Len(maps) : \A b \in Buckets(m) : WellFormedHead(HeadAt(m, b))
  BY ShapeFacts DEF TableInv
<1>3. \A m \in 1 .. Len(maps) : \A b \in Buckets(m) : Evolves(HeadAt(m, b), HeadAt(m, b)')
  BY <1>1, <1>2, SameEvolves
<1> QED
  BY <1>1, <1>3 DEF Quiet, Evolving

LEMMA WroteEvolving ==
    ASSUME TableInv, NEW b, NEW v, Wrote(ht_map, b, v), Evolves(HeadAt(ht_map, b), v),
           ht_map' = ht_map
    PROVE  Evolving
<1>1. ASSUME NEW m \in 1 .. Len(maps), NEW c \in Buckets(m)
      PROVE  Evolves(HeadAt(m, c), HeadAt(m, c)')
  <2>1. CASE m = ht_map /\ c = b
    BY <2>1 DEF Wrote
  <2>2. CASE ~ (m = ht_map /\ c = b)
    <3>1. WellFormedHead(HeadAt(m, c))
      BY ShapeFacts DEF TableInv
    <3>2. SameData(HeadAt(m, c), HeadAt(m, c)')
      BY <2>2 DEF Wrote, SameData
    <3> QED
      BY <3>1, <3>2, SameEvolves
  <2> QED
    BY <2>1, <2>2
<1>2. ASSUME NEW m \in 1 .. Len(maps), m # ht_map, NEW c \in Buckets(m)
      PROVE  SameData(HeadAt(m, c), HeadAt(m, c)')
  BY <1>2 DEF Wrote, SameData
<1> QED
  BY <1>1, <1>2 DEF Evolving, Wrote

(* A writer that begins or ends its section turns the sequence number. *)
LEMMA TurnedEvolves ==
    ASSUME NEW h, WellFormedHead(h), NEW v, v.sequence = h.sequence + 1 PROVE Evolves(h, v)
BY DEF WellFormedHead, Evolves

(* A store is made while it is odd. *)
LEMMA StoredEvolves ==
    ASSUME NEW h, WellFormedHead(h), h.sequence % 2 # 0, NEW s, NEW v, Stored(h, s, v)
    PROVE  Evolves(h, v)
BY DEF WellFormedHead, Stored, Evolves

LEMMA OwnEvolves ==
    ASSUME DataInv, NEW t \in Threads, MayWrite(t), ht_map' = ht_map,
           NEW v, Wrote(map[t], bkt[t], v), Evolves(HeadAt(map[t], bkt[t]), v)
    PROVE  Evolving
<1>1. TableInv
  BY DEF DataInv
<1>2. map[t] = ht_map
  BY <1>1, WriterAt
<1> QED
  BY <1>1, <1>2, WroteEvolving

LEMMA OwnHead ==
    ASSUME DataInv, NEW t \in Threads, MayWrite(t)
    PROVE  /\ TableInv /\ map[t] \in 1 .. Len(maps) /\ bkt[t] \in Buckets(map[t])
           /\ WellFormedHead(HeadAt(map[t], bkt[t]))
<1>1. TableInv
  BY DEF DataInv
<1>2. map[t] \in 1 .. Len(maps) /\ bkt[t] \in Buckets(map[t])
  BY <1>1, WriterAt
<1> QED
  BY <1>1, <1>2, ShapeFacts DEF TableInv

LEMMA DoStoreEvolves == ASSUME DataInv, NEW t \in Threads, DoStore(t) PROVE Evolving
<1>1. PICK h, P : h = HeadAt(map[t], bkt[t]) /\ P = Part(contents, NB(map[t]), bkt[t])
  OBVIOUS
<1>2. MayWrite(t) /\ pc[t] = "store" /\ ht_map' = ht_map
  BY DEF DoStore, MayWrite
<1>3. TableInv /\ WellFormedHead(h)
  BY <1>1, <1>2, OwnHead
<1>4. h.sequence % 2 # 0
  <2>1. Writing(h, pend[t], P)
    BY <1>1, <1>2, InHand
  <2> QED
    BY <2>1 DEF Writing
<1>5. PICK s, v : Wrote(map[t], bkt[t], v) /\ Stored(h, s, v)
  BY <1>1, <1>3, DoStoreOwn
<1>6. Evolves(h, v)
  BY <1>3, <1>4, <1>5, StoredEvolves
<1> QED
  BY <1>1, <1>2, <1>5, <1>6, OwnEvolves

LEMMA TurnsEvolves ==
    ASSUME DataInv, NEW t \in Threads, MayWrite(t), ht_map' = ht_map, Turns(map[t], bkt[t])
    PROVE  Evolving
<1>1. TableInv /\ WellFormedHead(HeadAt(map[t], bkt[t]))
  BY OwnHead
<1>2. PICK v : Wrote(map[t], bkt[t], v) /\ v.sequence = HeadAt(map[t], bkt[t]).sequence + 1
  BY <1>1, OwnHead, TurnsOwn
<1> QED
  BY <1>1, <1>2, TurnedEvolves, OwnEvolves

LEMMA InsertEvolves ==
    ASSUME DataInv, NEW t \in Threads, InsertLocked(t), pc'[t] = "store" PROVE Evolving
<1>1. PICK m, b : m = map[t] /\ b = bkt[t]
  OBVIOUS
<1>2. PICK h : h = HeadAt(m, b)
  OBVIOUS
<1>3. MayWrite(t) /\ ht_map' = ht_map
  BY DEF InsertLocked, MayWrite
<1>4. TableInv /\ m \in 1 .. Len(maps) /\ b \in Buckets(m) /\ WellFormedHead(h)
  BY <1>1, <1>2, <1>3, OwnHead
<1>5. PICK v : /\ Wrote(m, b, v) /\ v.lock = h.lock /\ v.sequence = h.sequence + 1
               /\ v.linked = h.linked
               /\ v.slots = IF IsFull(h) THEN h.slots \o EmptyBucket ELSE h.slots
  BY <1>1, <1>2, <1>4, InsertWrote
<1>6. Evolves(h, v)
  BY <1>4, <1>5, TurnedEvolves
<1> QED
  BY <1>1, <1>2, <1>3, <1>5, <1>6, OwnEvolves

LEMMA WritersEvolve ==
    ASSUME DataInv, NEW t \in Threads,
           \/ DoStore(t) \/ WriteEnd(t) \/ ResetBucket(t)
           \/ (InsertLocked(t) \/ RemoveLocked(t)) /\ pc'[t] = "store"
    PROVE  Evolving
<1>1. CASE WriteEnd(t) \/ ResetBucket(t)
  BY <1>1, TurnsEvolves DEF WriteEnd, ResetBucket, MayWrite, Turns, NB
<1>2. CASE RemoveLocked(t) /\ pc'[t] = "store"
  <2>1. MayWrite(t) /\ ht_map' = ht_map
    BY <1>2 DEF RemoveLocked, MayWrite
  <2>2. Turns(map[t], bkt[t])
    BY <1>2, RemoveFacts DEF RemoveMisses, RemoveBegins
  <2> QED
    BY <2>1, <2>2, TurnsEvolves
<1> QED
  BY <1>1, <1>2, DoStoreEvolves, InsertEvolves

LEMMA ThreadEvolving ==
    ASSUME DataInv, NEW t \in Threads, Call(t) \/ Step(t), ~ Copy(t) PROVE Evolving
<1>1. CASE \/ DoStore(t) \/ WriteEnd(t) \/ ResetBucket(t)
           \/ (InsertLocked(t) \/ RemoveLocked(t)) /\ pc'[t] = "store"
  BY <1>1, WritersEvolve
<1>2. CASE ~ (\/ DoStore(t) \/ WriteEnd(t) \/ ResetBucket(t)
              \/ (InsertLocked(t) \/ RemoveLocked(t)) /\ pc'[t] = "store")
  BY <1>2, QuietThread, QuietEvolving DEF DataInv
<1> QED
  BY <1>1, <1>2

-----------------------------------------------------------------------------
(* What readers know, through a step of thread t that publishes no map. *)

SeenType == seen \in [Threads -> SUBSET (SUBSET Pointers)]

LEMMA ScanOthers ==
    ASSUME ReadInv, Evolving, NEW u \in Threads, Still(u) PROVE ScanInv(u)'
<1>1. PICK m, b : m = map[u] /\ b = bkt[u]
  OBVIOUS
<1>2. PICK h : h = HeadAt(m, b)
  OBVIOUS
<1>3. CASE pc[u] \in Scanning
  <2>1. m \in 1 .. Len(maps) /\ b \in Buckets(m)
    BY <1>1, <1>3, BucketInMap DEF ReadInv, DataInv, Scanning, Looking
  <2>2. WellFormedHead(h)
    BY <1>2, <2>1, ShapeFacts DEF ReadInv, DataInv, TableInv
  <2>3. Evolves(h, HeadAt(m, b)')
    BY <1>2, <2>1 DEF Evolving
  <2>4. map'[u] = m /\ bkt'[u] = b
    BY <1>1 DEF Still, Kept
  <2>5. HeadAt(map[u], bkt[u])' = HeadAt(m, b)'
    BY <2>4 DEF HeadAt
  <2> QED
    BY <1>1, <1>2, <2>2, <2>3, <2>5, ScanStep DEF ReadInv, WellFormedHead
<1>4. CASE pc[u] \notin Scanning
  BY <1>4 DEF Still, Kept, ScanInv
<1> QED
  BY <1>3, <1>4

LEMMA FollowsOthers ==
    ASSUME NEW u, Still(u), Sees(u), NEW m PROVE Follows(u, m)
BY DEF Still, Kept, Sees, Follows

LEMMA ReadThread ==
    ASSUME ReadInv, DataInv', NEW t \in Threads, Evolving,
           \A u \in Threads : u # t => Still(u) /\ Sees(u),
           SeenType', SeenFine(t)', ScanInv(t)',
           \A m \in 1 .. Len(maps) : m # ht_map => Follows(t, m)
    PROVE  ReadInv'
<1>1. SeenInv'
  <2>1. ASSUME NEW u \in Threads, u # t PROVE SeenFine(u)'
    BY <2>1, SeenStep, StillReading DEF ReadInv, SeenInv
  <2> QED
    BY <2>1 DEF SeenInv, SeenType
<1>2. StaleExact'
  <2>1. ASSUME NEW m \in 1 .. Len(maps), m # ht_map PROVE \E C \in SUBSET Pointers : Frozen(m, C)'
    <3>1. \A u \in Threads : Follows(u, m)
      BY <2>1, FollowsOthers
    <3> QED
      BY <2>1, <3>1, StaleStep DEF Evolving, ReadInv
  <2> QED
    BY <2>1 DEF StaleExact, Evolving
<1>3. \A u \in Threads : ScanInv(u)'
  BY ScanOthers
<1> QED
  BY <1>1, <1>2, <1>3 DEF ReadInv

LEMMA SeesSame ==
    ASSUME SeenInv, seen' = seen, contents' = contents
    PROVE  \A u \in Threads : Sees(u)
BY DEF SeenInv, SeenFine, Sees

LEMMA SeesBecome ==
    ASSUME SeenInv, NEW s \in SUBSET Pointers, Become(s)
    PROVE  SeenType' /\ \A u \in Threads : Sees(u)
<1>1. contents' = s /\ seen' = [u \in Threads |-> IF seen[u] = {} THEN {} ELSE seen[u] \cup {s}]
  BY DEF Become
<1>2. \A u \in Threads : Sees(u)
  BY <1>1 DEF Sees
<1>3. \A u \in Threads :
         (IF seen[u] = {} THEN {} ELSE seen[u] \cup {s}) \in SUBSET (SUBSET Pointers)
  BY DEF SeenInv
<1> QED
  BY <1>1, <1>2, <1>3 DEF SeenType

(* A step of a thread that neither was reading nor begins to. *)
LEMMA ReadNot ==
    ASSUME ReadInv, DataInv', NEW t \in Threads, Evolving,
           \A u \in Threads : u # t => Still(u), SeenType', \A u \in Threads : Sees(u),
           ~ Reading(t), ~ Reading(t)'
    PROVE  ReadInv'
<1>1. seen[t] = {}
  BY DEF ReadInv, SeenInv, SeenFine
<1>2. seen'[t] = {}
  BY <1>1 DEF Sees
<1>3. SeenFine(t)'
  BY <1>2 DEF SeenFine
<1>4. ScanInv(t)'
  BY DEF Reading, ScanInv, Looking, Scanning
<1>5. \A m : Follows(t, m)
  BY <1>2 DEF Follows
<1> QED
  BY <1>3, <1>4, <1>5, ReadThread

(* A step of a reader on its way, with the same map or with the current one. *)
LEMMA ReadOn ==
    ASSUME ReadInv, DataInv', NEW t \in Threads, Evolving,
           \A u \in Threads : u # t => Still(u), seen' = seen, contents' = contents,
           Reading(t) <=> Reading(t)', ScanInv(t)', map'[t] \in {map[t], ht_map}
    PROVE  ReadInv'
<1>1. \A u \in Threads : Sees(u)
  BY SeesSame DEF ReadInv
<1>2. SeenType' /\ SeenFine(t)'
  BY <1>1, SeenStep DEF ReadInv, SeenInv, SeenType
<1>3. \A m \in 1 .. Len(maps) : m # ht_map => Follows(t, m)
  BY DEF Follows
<1> QED
  BY <1>1, <1>2, <1>3, ReadThread

-----------------------------------------------------------------------------
(* The steps of threads that read nothing. *)

LEMMA Elsewhere ==
    ASSUME NEW t, pc[t] \notin Looking \cup {"visit", "map", "lock_all"} PROVE ~ Reading(t)
BY DEF Reading

LEMMA StatsElsewhere ==
    ASSUME TableInv, NEW t \in Threads, Stats(t) PROVE ~ Reading(t) /\ ~ Reading(t)'
<1> USE DEF TableInv, BaseInv, TablesInv
<1>1. pc[t] \in Counting
  BY DEF Stats, StatsBegin, StatsPointer, StatsNext, StatsRetry, Counting
<1>2. pc'[t] \in Counting \cup {"idle"}
  BY DEF Stats, StatsBegin, StatsPointer, StatsNext, StatsRetry, AfterSlot, Goto, Return, Counting
<1> QED
  BY <1>1, <1>2 DEF Reading, Counting, Looking

LEMMA LockElsewhere ==
    ASSUME TableInv, NEW t \in Threads,
           LockBucket(t) \/ SlowLock(t) \/ UnlockBucket(t) \/ UnlockAll(t) \/ AllUnlocked(t)
    PROVE  ~ Reading(t) /\ ~ Reading(t)'
<1> USE DEF TableInv, BaseInv, TablesInv
<1>1. pc[t] \in {"lock", "slow_lock", "unlock", "unlock_all", "unlock_stale"}
  BY DEF LockBucket, SlowLock, UnlockBucket, UnlockAll, AllUnlocked
<1>2. pc'[t] \in {"slow", "work", "grow", "idle", "unlock_all", "unlock_stale", "ht_unlock"}
  BY DEF LockBucket, SlowLock, UnlockBucket, UnlockAll, AllUnlocked, Goto, Return
<1> QED
  BY <1>1, <1>2 DEF Reading, Looking

LEMMA HtElsewhere ==
    ASSUME TableInv, NEW t \in Threads,
           SlowMap(t) \/ HtLock(t) \/ GrowMaybe(t) \/ GrowBusy(t) \/ HtUnlock(t)
    PROVE  ~ Reading(t) /\ ~ Reading(t)'
<1> USE DEF TableInv, BaseInv, TablesInv
<1>1. pc[t] \in {"slow", "ht_lock", "grow", "ht_unlock"}
  BY DEF SlowMap, HtLock, GrowMaybe, GrowBusy, HtUnlock
<1>2. CASE GrowBusy(t) \/ HtUnlock(t)
  <2>1. pc'[t] = "idle"
    BY <1>2 DEF GrowBusy, HtUnlock, Return, Goto
  <2> QED
    BY <1>1, <2>1 DEF Reading, Looking
<1>3. CASE SlowMap(t) \/ HtLock(t) \/ GrowMaybe(t)
  <2>1. op' = op /\ op[t].kind \notin {"lookup", "iter"}
    BY <1>3 DEF SlowMap, HtLock, GrowMaybe, KindInv
  <2>2. pc'[t] \in {"lock_all", "slow_lock", "ht_unlock"}
    BY <1>3 DEF SlowMap, HtLock, GrowMaybe, Goto
  <2> QED
    BY <1>1, <2>1, <2>2 DEF Reading, Looking
<1> QED
  BY <1>2, <1>3

LEMMA WriteElsewhere ==
    ASSUME TableInv, NEW t \in Threads,
           \/ InsertLocked(t) \/ RemoveLocked(t) \/ DoStore(t) \/ WriteEnd(t) \/ ResetBucket(t)
           \/ ResetDone(t) \/ Retire(t)
    PROVE  ~ Reading(t) /\ ~ Reading(t)'
<1> USE DEF TableInv, BaseInv, TablesInv
<1>1. pc[t] \in {"work", "store", "reset", "retire"}
  BY DEF InsertLocked, RemoveLocked, DoStore, WriteEnd, ResetBucket, ResetDone, Retire
<1>2. pc'[t] \in {"store", "unlock", "reset", "copy", "unlock_all"}
  BY DEF InsertLocked, RemoveLocked, DoStore, WriteEnd, ResetBucket, ResetDone, Retire, Goto
<1> QED
  BY <1>1, <1>2 DEF Reading, Looking

(* Who writes leaves the locals of the others alone. *)
LEMMA WritersFrame ==
    ASSUME TableInv, NEW t \in Threads,
           \/ DoStore(t) \/ WriteEnd(t) \/ ResetBucket(t) \/ InsertLocked(t) \/ RemoveLocked(t)
    PROVE  \A u \in Threads : u # t => Still(u)
<1>1. UNCHANGED <<op, map, pos, version, found>>
  BY DEF DoStore, WriteEnd, ResetBucket, InsertLocked, RemoveLocked
<1>2. pc' = pc \/ \E l : Goto(t, l)
  BY DEF DoStore, WriteEnd, ResetBucket, InsertLocked, RemoveLocked
<1>3. bkt' = bkt \/ \E b : bkt' = Set(bkt, t, b)
  BY DEF DoStore, WriteEnd, ResetBucket, InsertLocked, RemoveLocked
<1>4. pend' = pend \/ \E S : pend' = Set(pend, t, S)
  BY DEF DoStore, WriteEnd, ResetBucket, InsertLocked, RemoveLocked
<1>5. needs_resize' = needs_resize \/ \E x : needs_resize' = Set(needs_resize, t, x)
  BY DEF DoStore, WriteEnd, ResetBucket, InsertLocked, RemoveLocked
<1> QED
  BY <1>1, <1>2, <1>3, <1>4, <1>5 DEF Goto, Set, Still, Kept, TableInv, BaseInv, TablesInv,
     LocalsInv

(* What the contents become. *)
LEMMA WritersSee ==
    ASSUME ReadInv, NEW t \in Threads,
           \/ DoStore(t) \/ WriteEnd(t) \/ ResetBucket(t) \/ InsertLocked(t) \/ RemoveLocked(t)
    PROVE  (seen' = seen /\ contents' = contents) \/ \E s \in SUBSET Pointers : Become(s)
<1>1. contents \subseteq Pointers
  BY DEF ReadInv, DataInv, CurrentExact
<1>2. CASE DoStore(t) \/ WriteEnd(t)
  BY <1>2 DEF DoStore, WriteEnd, histVars
<1>3. CASE ResetBucket(t)
  <2>1. \E s : Become(contents \ s)
    BY <1>3 DEF ResetBucket
  <2>2. \A s : contents \ s \in SUBSET Pointers
    BY <1>1
  <2> QED
    BY <2>1, <2>2
<1>4. CASE RemoveLocked(t)
  <2>1. Become(contents \ {op[t].p}) \/ (seen' = seen /\ contents' = contents)
    BY <1>4 DEF RemoveLocked
  <2>2. contents \ {op[t].p} \in SUBSET Pointers
    BY <1>1
  <2> QED
    BY <2>1, <2>2
<1>5. CASE InsertLocked(t)
  <2>1. Become(contents \cup {op[t].p}) \/ (seen' = seen /\ contents' = contents)
    BY <1>5 DEF InsertLocked
  <2>2. op[t].p \in Pointers
    BY <1>5, OpPointer DEF InsertLocked, ReadInv, DataInv, TableInv
  <2>3. contents \cup {op[t].p} \in SUBSET Pointers
    BY <1>1, <2>2
  <2> QED
    BY <2>1, <2>3
<1> QED
  BY <1>2, <1>3, <1>4, <1>5

-----------------------------------------------------------------------------
(* The steps of a lookup. *)

(* The bucket that a lookup is at. *)
LEMMA LookingAt ==
    ASSUME ReadInv, NEW t \in Threads, pc[t] \in Looking,
           NEW h, h = HeadAt(map[t], bkt[t]), NEW p, p = op[t].p
    PROVE  /\ HeadOf(t) = h /\ WellFormedHead(h) /\ p \in Pointers
           /\ map[t] \in 1 .. Len(maps) /\ bkt[t] \in Buckets(map[t])
           /\ Hash[p] % NB(map[t]) = bkt[t]
<1>1. TableInv
  BY DEF ReadInv, DataInv
<1>2. map[t] \in 1 .. Len(maps) /\ bkt[t] \in Buckets(map[t])
  BY <1>1, BucketInMap
<1>3. WellFormedHead(h)
  BY <1>1, <1>2, ShapeFacts DEF TableInv
<1>4. HeadOf(t) = h
  BY DEF HeadOf, HeadAt
<1>5. p \in Pointers /\ Hash[p] % NB(map[t]) = bkt[t]
  BY <1>1 DEF TableInv, ThreadInv, AtBucket
<1> QED
  BY <1>2, <1>3, <1>4, <1>5

(* What it may conclude if the sequence number is even. *)
LEMMA LookingEven ==
    ASSUME ReadInv, NEW t \in Threads, pc[t] \in Looking,
           NEW h, h = HeadAt(map[t], bkt[t]), NEW p, p = op[t].p, h.sequence % 2 = 0
    PROVE  /\ h.linked = Len(h.slots)
           /\ \A i \in 1 .. Len(h.slots) : h.slots[i].p = p => h.slots[i].h = Hash[p]
           /\ \E C \in seen[t] : C \subseteq Pointers /\ (p \in C <=> ~ Absent(h, Len(h.slots), p))
<1>1. PICK m, b : m = map[t] /\ b = bkt[t]
  OBVIOUS
<1>2. /\ WellFormedHead(h) /\ p \in Pointers /\ m \in 1 .. Len(maps) /\ b \in Buckets(m)
      /\ Hash[p] % NB(m) = b
  BY <1>1, LookingAt
<1>3. PICK C \in SUBSET Pointers :
         /\ \A c \in Buckets(m) : HeadAt(m, c).sequence % 2 = 0 =>
               Settled(HeadAt(m, c), Part(C, NB(m), c))
         /\ \A u \in Threads : map[u] = m /\ seen[u] # {} => C \in seen[u]
  BY <1>2, EvenSettled
<1>4. C \in seen[t]
  <2>1. seen[t] # {}
    BY DEF ReadInv, SeenInv, SeenFine, Reading
  <2> QED
    BY <1>1, <1>3, <2>1
<1>5. PICK P : P = Part(C, NB(m), b)
  OBVIOUS
<1>6. Settled(h, P)
  BY <1>1, <1>2, <1>3, <1>5
<1>7. PICK n \in Nat : n = Len(h.slots)
  BY <1>2, SeqFacts DEF WellFormedHead
<1>8. PICK k \in 0 .. n : Exactly(h.slots, n, k, P)
  BY <1>6, <1>7 DEF Settled, Exact
<1>9. p \in C <=> p \in P
  BY <1>2, <1>5 DEF Part
<1>10. ASSUME NEW i \in 1 .. n, h.slots[i].p = p
       PROVE  h.slots[i].h = Hash[p] /\ p \in P
  <2>1. p # NULL
    BY <1>2, QHTAssumption
  <2>2. i \in 1 .. k
    BY <1>8, <1>10, <2>1 DEF Exactly
  <2> QED
    BY <1>8, <1>10, <2>2 DEF Exactly
<1>11. p \in P => \E i \in 1 .. n : h.slots[i].p = p
  BY <1>8 DEF Exactly
<1>12. p \in C <=> ~ Absent(h, n, p)
  BY <1>9, <1>10, <1>11 DEF Absent
<1> QED
  BY <1>3, <1>4, <1>6, <1>7, <1>10, <1>12 DEF Settled

(* The next slot of the same bucket is there. *)
LEMMA SlotAfter ==
    ASSUME NEW h, WellFormedHead(h), NEW i \in 1 .. Len(h.slots), i % QHT_BUCKET_ENTRIES # 0
    PROVE  i + 1 \in 1 .. Len(h.slots)
<1>1. Len(h.slots) \in Nat /\ Len(h.slots) % QHT_BUCKET_ENTRIES = 0
  BY SeqFacts DEF WellFormedHead
<1>2. i # Len(h.slots)
  BY <1>1
<1> QED
  BY <1>1, <1>2

LEMMA AbsentMore ==
    ASSUME NEW h, NEW p, NEW i \in Nat \ {0}, Absent(h, i - 1, p), h.slots[i].p # p
    PROVE  Absent(h, i, p)
<1>1. ASSUME NEW j \in 1 .. i PROVE h.slots[j].p # p
  <2>1. CASE j = i
    BY <2>1
  <2>2. CASE j # i
    <3>1. j \in 1 .. i - 1
      BY <2>2
    <3> QED
      BY <3>1 DEF Absent
  <2> QED
    BY <2>1, <2>2
<1> QED
  BY <1>1 DEF Absent

(* Thread t is at slot i of bucket h afterwards. *)
Arrives(t, h, l, i) ==
    /\ HeadAt(map[t], bkt[t])' = h /\ pc'[t] = l /\ pos'[t] = i /\ op'[t] = op[t]

LEMMA ScanGoesOn ==
    ASSUME NEW t, NEW h, Scanned(t, h), NEW l, NEW i, Arrives(t, h, l, i),
           l \in {"hash", "ptr", "next"}, pc[t] # "retry", version'[t] = version[t],
           found'[t] = found[t],
           h.sequence = version[t] =>
              /\ i \in 1 .. Len(h.slots)
              /\ l \in {"hash", "ptr"} => Absent(h, i - 1, op[t].p)
              /\ l = "next" => Absent(h, i, op[t].p)
    PROVE  ScanInv(t)'
BY DEF Scanned, ScanInv, Arrives, Absent

(* The lookup goes past a slot that does not hold what it looks for. *)
LEMMA PassSlot ==
    ASSUME ReadInv, NEW t \in Threads, pc[t] \in {"hash", "ptr"}, AfterSlot(t, "next", "hash"),
           UNCHANGED <<maps, map, bkt, op>>, UNCHANGED <<version, found>>,
           NEW h, h = HeadAt(map[t], bkt[t]),
           h.sequence = version[t] => h.slots[pos[t]].p # op[t].p
    PROVE  ScanInv(t)'
<1>1. Scanned(t, h) /\ pc[t] # "retry"
  BY DEF ReadInv, ScanInv, Scanning
<1>2. HeadAt(map[t], bkt[t])' = h
  BY DEF HeadAt
<1>3. WellFormedHead(h)
  BY LookingAt DEF Looking
<1>4. DOMAIN pc = Threads /\ DOMAIN pos = Threads
  BY DEF ReadInv, DataInv, TableInv, LocalsInv, BaseInv, TablesInv
<1>5. h.sequence = version[t] => pos[t] \in 1 .. Len(h.slots) /\ Absent(h, pos[t], op[t].p)
  <2>1. ASSUME h.sequence = version[t]
        PROVE  /\ pos[t] \in Nat \ {0} /\ pos[t] \in 1 .. Len(h.slots)
               /\ Absent(h, pos[t] - 1, op[t].p)
    BY <1>1, <2>1 DEF Scanned
  <2> QED
    BY <2>1, AbsentMore
<1>6. CASE pos[t] % QHT_BUCKET_ENTRIES = 0
  <2>1. Arrives(t, h, "next", pos[t])
    BY <1>2, <1>4, <1>6 DEF AfterSlot, Arrives, Goto
  <2> QED
    BY <1>1, <1>5, <2>1, ScanGoesOn
<1>7. CASE pos[t] % QHT_BUCKET_ENTRIES # 0
  <2>0. PICK i : i = pos[t] + 1
    OBVIOUS
  <2>1. Arrives(t, h, "hash", i)
    BY <1>2, <1>4, <1>7, <2>0 DEF AfterSlot, Arrives, Goto, Set
  <2>2. ASSUME h.sequence = version[t]
        PROVE  i \in 1 .. Len(h.slots) /\ Absent(h, i - 1, op[t].p)
    <3>1. i \in 1 .. Len(h.slots)
      BY <1>3, <1>5, <1>7, <2>0, <2>2, SlotAfter
    <3>2. i - 1 = pos[t]
      BY <1>5, <2>0, <2>2
    <3> QED
      BY <1>5, <2>2, <3>1, <3>2
  <2> QED
    BY <1>1, <2>1, <2>2, ScanGoesOn
<1> QED
  BY <1>6, <1>7

LEMMA BeginScan == ASSUME ReadInv, NEW t \in Threads, LookupBegin(t) PROVE ScanInv(t)'
<1>1. PICK h : h = HeadAt(map[t], bkt[t])
  OBVIOUS
<1>2. HeadOf(t) = h /\ WellFormedHead(h)
  BY <1>1, LookingAt DEF LookupBegin, Looking
<1>3. PICK s \in Nat : s = h.sequence
  BY <1>2 DEF WellFormedHead
<1>4. ReadBegin(s) \in Nat /\ ReadBegin(s) % 2 = 0 /\ ReadBegin(s) <= s
  <2>1. s % 2 = 0 \/ s % 2 = 1
    OBVIOUS
  <2>2. s % 2 = 1 => s # 0 /\ (s - 1) % 2 = 0
    OBVIOUS
  <2> QED
    BY <2>1, <2>2 DEF ReadBegin
<1>5. HeadAt(map[t], bkt[t])' = h
  BY <1>1 DEF LookupBegin, HeadAt, tableVars
<1>6. /\ DOMAIN pc = Threads /\ DOMAIN pos = Threads /\ DOMAIN version = Threads
      /\ DOMAIN found = Threads
  BY DEF ReadInv, DataInv, TableInv, LocalsInv, BaseInv, TablesInv
<1>7. pc'[t] = "hash" /\ pos'[t] = 1 /\ version'[t] = ReadBegin(s) /\ found'[t] = {}
  BY <1>2, <1>3, <1>6 DEF LookupBegin, Goto, Set
<1>8. 1 \in 1 .. Len(h.slots)
  BY <1>2, SeqFacts DEF WellFormedHead
<1>9. Absent(h, 1 - 1, op'[t].p)
  BY DEF Absent
<1> QED
  BY <1>3, <1>4, <1>5, <1>7, <1>8, <1>9 DEF ScanInv, Scanned

LEMMA HashScan == ASSUME ReadInv, NEW t \in Threads, LookupHash(t) PROVE ScanInv(t)'
<1>1. PICK h : h = HeadAt(map[t], bkt[t])
  OBVIOUS
<1>2. pc[t] = "hash" /\ UNCHANGED <<maps, map, bkt, op>> /\ UNCHANGED <<version, found>>
  BY DEF LookupHash, tableVars
<1>3. HeadOf(t) = h /\ Scanned(t, h)
  BY <1>1, <1>2, LookingAt DEF Looking, ReadInv, ScanInv, Scanning
<1>4. CASE h.slots[pos[t]].h = Hash[op[t].p]
  <2>1. Arrives(t, h, "ptr", pos[t])
    <3>1. HeadAt(map[t], bkt[t])' = h
      BY <1>1, <1>2 DEF HeadAt
    <3>2. Goto(t, "ptr") /\ pos' = pos
      BY <1>3, <1>4 DEF LookupHash
    <3> QED
      BY <1>2, <3>1, <3>2 DEF Arrives, Goto, ReadInv, DataInv, TableInv, BaseInv, TablesInv
  <2> QED
    BY <1>2, <1>3, <2>1, ScanGoesOn DEF Scanned
<1>5. CASE h.slots[pos[t]].h # Hash[op[t].p]
  <2>1. AfterSlot(t, "next", "hash")
    BY <1>3, <1>5 DEF LookupHash
  <2>2. ASSUME h.sequence = version[t] PROVE h.slots[pos[t]].p # op[t].p
    <3>1. pos[t] \in 1 .. Len(h.slots) /\ h.sequence % 2 = 0
      BY <1>3, <2>2 DEF Scanned
    <3>2. PICK p : p = op[t].p
      OBVIOUS
    <3>3. \A i \in 1 .. Len(h.slots) : h.slots[i].p = p => h.slots[i].h = Hash[p]
      <4>1. pc[t] \in Looking
        BY <1>2 DEF Looking
      <4> QED
        BY <1>1, <3>1, <3>2, <4>1, LookingEven
    <3> QED
      BY <1>5, <3>1, <3>2, <3>3
  <2> QED
    BY <1>1, <1>2, <2>1, <2>2, PassSlot
<1> QED
  BY <1>4, <1>5

LEMMA PointerScan == ASSUME ReadInv, NEW t \in Threads, LookupPointer(t) PROVE ScanInv(t)'
<1>1. PICK h : h = HeadAt(map[t], bkt[t])
  OBVIOUS
<1>2. pc[t] = "ptr" /\ UNCHANGED <<maps, map, bkt, op>> /\ version' = version
  BY DEF LookupPointer, tableVars
<1>3. HeadOf(t) = h /\ Scanned(t, h)
  BY <1>1, <1>2, LookingAt DEF Looking, ReadInv, ScanInv, Scanning
<1>4. CASE h.slots[pos[t]].p = op[t].p
  <2>1. HeadAt(map[t], bkt[t])' = h
    BY <1>1, <1>2 DEF HeadAt
  <2>2. DOMAIN pc = Threads /\ DOMAIN found = Threads
    BY DEF ReadInv, DataInv, TableInv, BaseInv, TablesInv, LocalsInv
  <2>3. pc'[t] = "retry" /\ pos' = pos /\ found'[t] = {op[t].p}
    BY <1>3, <1>4, <2>2 DEF LookupPointer, Goto, Set
  <2>4. h.sequence = version[t] => pos[t] \in 1 .. Len(h.slots)
           /\ ~ Absent(h, Len(h.slots), op[t].p)
    BY <1>3, <1>4 DEF Scanned, Absent
  <2> QED
    BY <1>2, <1>3, <2>1, <2>3, <2>4 DEF ScanInv, Scanned
<1>5. CASE h.slots[pos[t]].p # op[t].p
  <2>1. AfterSlot(t, "next", "hash") /\ found' = found
    BY <1>3, <1>5 DEF LookupPointer
  <2> QED
    BY <1>1, <1>2, <1>5, <2>1, PassSlot
<1> QED
  BY <1>4, <1>5

LEMMA NextScan == ASSUME ReadInv, NEW t \in Threads, LookupNext(t) PROVE ScanInv(t)'
<1>1. PICK h : h = HeadAt(map[t], bkt[t])
  OBVIOUS
<1>2. pc[t] = "next" /\ UNCHANGED <<maps, map, bkt, op>> /\ UNCHANGED <<version, found>>
  BY DEF LookupNext, tableVars
<1>3. HeadOf(t) = h /\ Scanned(t, h)
  BY <1>1, <1>2, LookingAt DEF Looking, ReadInv, ScanInv, Scanning
<1>4. HeadAt(map[t], bkt[t])' = h
  BY <1>1, <1>2 DEF HeadAt
<1>5. DOMAIN pc = Threads /\ DOMAIN pos = Threads
  BY DEF ReadInv, DataInv, TableInv, BaseInv, TablesInv, LocalsInv
<1>6. ASSUME h.sequence = version[t]
      PROVE  /\ pos[t] \in 1 .. Len(h.slots) /\ h.linked = Len(h.slots) /\ Len(h.slots) \in Nat
             /\ Absent(h, pos[t], op[t].p)
  <2>1. pos[t] \in 1 .. Len(h.slots) /\ h.sequence % 2 = 0 /\ Absent(h, pos[t], op[t].p)
    BY <1>2, <1>3, <1>6 DEF Scanned
  <2>2. h.linked = Len(h.slots)
    BY <1>1, <1>2, <2>1, LookingEven DEF Looking
  <2>3. WellFormedHead(h)
    BY <1>1, <1>2, LookingAt DEF Looking
  <2> QED
    BY <2>1, <2>2, <2>3, SeqFacts DEF WellFormedHead
<1>7. CASE pos[t] < h.linked
  <2>0. PICK i : i = pos[t] + 1
    OBVIOUS
  <2>1. Arrives(t, h, "hash", i)
    BY <1>2, <1>3, <1>4, <1>5, <1>7, <2>0 DEF LookupNext, Arrives, Goto, Set
  <2>2. ASSUME h.sequence = version[t]
        PROVE  i \in 1 .. Len(h.slots) /\ Absent(h, i - 1, op[t].p)
    <3>1. i \in 1 .. Len(h.slots) /\ i - 1 = pos[t]
      BY <1>6, <1>7, <2>0, <2>2
    <3> QED
      BY <1>6, <2>2, <3>1
  <2> QED
    BY <1>2, <1>3, <2>1, <2>2, ScanGoesOn
<1>8. CASE ~ (pos[t] < h.linked)
  <2>1. pc'[t] = "retry" /\ pos' = pos
    BY <1>3, <1>5, <1>8 DEF LookupNext, Goto
  <2>2. h.sequence = version[t] => pos[t] \in 1 .. Len(h.slots) /\ Absent(h, Len(h.slots), op[t].p)
    <3>1. h.sequence = version[t] => pos[t] = Len(h.slots)
      BY <1>6, <1>8
    <3> QED
      BY <1>6, <3>1
  <2> QED
    BY <1>2, <1>3, <1>4, <2>1, <2>2 DEF ScanInv, Scanned
<1> QED
  BY <1>7, <1>8

-----------------------------------------------------------------------------
(* Readers and replaced maps, step by step. *)

LEMMA CallRead == ASSUME ReadInv, DataInv', NEW t \in Threads, Call(t) PROVE ReadInv'
<1>1. TableInv /\ SeenInv
  BY DEF ReadInv, DataInv
<1>2. Evolving /\ Frame(t)
  BY <1>1, ThreadEvolving, CallFrame DEF ReadInv, Call, Copy
<1>3. PICK o \in Ops :
         /\ op' = Set(op, t, o)
         /\ Goto(t, IF o.kind \in {"resize", "reset_size"} THEN "ht_lock" ELSE "map")
         /\ seen' = Set(seen, t, IF o.kind \in {"lookup", "iter"} THEN {contents} ELSE {})
  BY DEF Call
<1>4. contents' = contents /\ map' = map /\ contents \in SUBSET Pointers
  BY DEF Call, ReadInv, DataInv, CurrentExact
<1>5. /\ op'[t] = o /\ pc'[t] = IF o.kind \in {"resize", "reset_size"} THEN "ht_lock" ELSE "map"
      /\ seen'[t] = IF o.kind \in {"lookup", "iter"} THEN {contents} ELSE {}
  BY <1>1, <1>3 DEF Set, Goto, TableInv, BaseInv, TablesInv, LocalsInv
<1>6. SeenFine(t)'
  BY <1>4, <1>5 DEF SeenFine, Reading, Looking
<1>7. SeenType'
  BY <1>1, <1>3, <1>4 DEF SeenInv, SeenType, Set
<1>8. \A u \in Threads : u # t => Still(u) /\ Sees(u)
  <2>1. ASSUME NEW u \in Threads, u # t PROVE Sees(u)
    <3>1. seen'[u] = seen[u]
      BY <1>3, <2>1 DEF Set
    <3> QED
      BY <1>1, <1>4, <3>1 DEF SeenInv, SeenFine, Sees
  <2> QED
    BY <1>2, <2>1 DEF Frame
<1>9. ScanInv(t)'
  BY <1>5 DEF ScanInv, Scanning
<1>10. \A m \in 1 .. Len(maps) : Follows(t, m)
  <2>1. map[t] = 0
    BY <1>1 DEF Call, TableInv, BaseInv, HasMapInv
  <2> QED
    BY <1>4, <2>1 DEF Follows
<1> QED
  BY <1>2, <1>6, <1>7, <1>8, <1>9, <1>10, ReadThread

(* A reader ends. *)
LEMMA EndRead ==
    ASSUME ReadInv, DataInv', NEW t \in Threads, LookupReturn(t) \/ Visit(t) PROVE ReadInv'
<1>1. TableInv /\ SeenInv
  BY DEF ReadInv, DataInv
<1>2. Frame(t)
  BY <1>1, LookupFrame, AllLocksFrame DEF Lookup
<1>3. Evolving
  <2>1. Step(t) /\ ~ Copy(t)
    BY DEF Step, Lookup, WithAllLocks, LookupReturn, Visit, Copy
  <2> QED
    BY <2>1, ThreadEvolving DEF ReadInv
<1>4. seen' = Set(seen, t, {}) /\ contents' = contents
  BY DEF LookupReturn, Visit
<1>5. pc'[t] \in {"idle", "unlock_all"}
  BY <1>1 DEF LookupReturn, Visit, Return, Goto, TableInv, BaseInv, TablesInv
<1>6. seen'[t] = {} /\ SeenType'
  BY <1>1, <1>4 DEF Set, SeenInv, SeenType
<1>7. SeenFine(t)'
  BY <1>5, <1>6 DEF SeenFine, Reading, Looking
<1>8. \A u \in Threads : u # t => Still(u) /\ Sees(u)
  <2>1. ASSUME NEW u \in Threads, u # t PROVE Sees(u)
    <3>1. seen'[u] = seen[u]
      BY <1>4, <2>1 DEF Set
    <3> QED
      BY <1>1, <1>4, <3>1 DEF SeenInv, SeenFine, Sees
  <2> QED
    BY <1>2, <2>1 DEF Frame
<1>9. ScanInv(t)'
  BY <1>5 DEF ScanInv, Scanning
<1>10. \A m \in 1 .. Len(maps) : Follows(t, m)
  BY <1>6 DEF Follows
<1> QED
  BY <1>3, <1>6, <1>7, <1>8, <1>9, <1>10, ReadThread

(* It goes on. *)
LEMMA LookupRead ==
    ASSUME ReadInv, DataInv', NEW t \in Threads, Lookup(t), ~ LookupReturn(t) PROVE ReadInv'
<1>1. TableInv
  BY DEF ReadInv, DataInv
<1>2. Frame(t)
  BY <1>1, LookupFrame
<1>3. pc[t] \in Looking /\ pc'[t] \in Looking /\ map' = map /\ seen' = seen /\ contents' = contents
  <2> USE DEF Lookup, LookupBegin, LookupHash, LookupPointer, LookupNext, LookupRetry, AfterSlot,
              tableVars, localVars, histVars
  <2>1. pc[t] \in Looking /\ pc'[t] \in Looking
    BY <1>1 DEF Goto, Looking, TableInv, BaseInv, TablesInv
  <2>2. map' = map /\ seen' = seen /\ contents' = contents
    OBVIOUS
  <2> QED
    BY <2>1, <2>2
<1>4. Evolving
  <2>1. Step(t) /\ ~ Copy(t)
    BY <1>3 DEF Step, Copy, Looking
  <2> QED
    BY <2>1, ThreadEvolving DEF ReadInv
<1>5. ScanInv(t)'
  <2>1. CASE LookupRetry(t)
    <3>1. pc'[t] = "begin"
      BY <1>1, <2>1 DEF LookupRetry, Goto, TableInv, BaseInv, TablesInv
    <3> QED
      BY <3>1 DEF ScanInv, Scanning
  <2> QED
    BY <2>1, BeginScan, HashScan, PointerScan, NextScan DEF Lookup
<1>6. Reading(t) /\ Reading(t)'
  BY <1>3 DEF Reading
<1> QED
  BY <1>2, <1>3, <1>4, <1>5, <1>6, ReadOn DEF Frame

LEMMA ReadMapRead == ASSUME ReadInv, DataInv', NEW t \in Threads, ReadMap(t) PROVE ReadInv'
<1>1. TableInv
  BY DEF ReadInv, DataInv
<1>2. Frame(t)
  BY <1>1, CallFrame
<1>3. Evolving
  <2>1. Step(t) /\ ~ Copy(t)
    BY DEF Step, ReadMap, Copy
  <2> QED
    BY <2>1, ThreadEvolving DEF ReadInv
<1>4. op[t].kind \in {"lookup", "stats", "insert", "remove", "reset", "iter"} /\ pc[t] = "map"
  BY <1>1, OpPointer DEF ReadMap, TableInv, BaseInv, KindInv, Kinds
<1>5. /\ op' = op /\ map'[t] = ht_map /\ seen' = seen /\ contents' = contents
      /\ pc'[t] = CASE op[t].kind = "lookup"             -> "begin"
                    [] op[t].kind = "stats"              -> "s_begin"
                    [] op[t].kind \in {"insert", "remove"} -> "lock"
                    [] op[t].kind \in {"reset", "iter"}   -> "lock_all"
  BY <1>1 DEF ReadMap, Goto, Set, histVars, TableInv, BaseInv, TablesInv
<1>6. Reading(t) <=> Reading(t)'
  BY <1>4, <1>5 DEF Reading, Looking
<1>7. ScanInv(t)'
  BY <1>4, <1>5 DEF ScanInv, Scanning
<1> QED
  BY <1>2, <1>3, <1>5, <1>6, <1>7, ReadOn DEF Frame

(* An iteration locks all buckets. *)
LEMMA LockAllRead ==
    ASSUME ReadInv, DataInv', NEW t \in Threads, LockAll(t) \/ AllLocked(t) PROVE ReadInv'
<1>1. TableInv
  BY DEF ReadInv, DataInv
<1>2. Frame(t)
  BY <1>1, LockFrame, AllLocksFrame
<1>3. Evolving
  <2>1. Step(t) /\ ~ Copy(t)
    BY DEF Step, WithAllLocks, LockAll, AllLocked, Copy
  <2> QED
    BY <2>1, ThreadEvolving DEF ReadInv
<1>4. pc[t] = "lock_all" /\ op[t].kind \in {"iter", "reset", "insert", "resize", "reset_size"}
  BY <1>1 DEF LockAll, AllLocked, TableInv, BaseInv, KindInv, GrowKinds
<1>5. op' = op /\ map' = map /\ seen' = seen /\ contents' = contents
  BY DEF LockAll, AllLocked, histVars
<1>6. IF op[t].kind = "iter" THEN pc'[t] \in {"lock_all", "visit"}
      ELSE pc'[t] \in {"lock_all", "reset", "copy", "unlock_stale"}
  <2>1. DOMAIN pc = Threads
    BY <1>1 DEF TableInv, BaseInv, TablesInv
  <2>2. CASE LockAll(t)
    BY <1>4, <2>2 DEF LockAll
  <2>3. CASE AllLocked(t) /\ op[t].kind = "iter"
    <3>1. Goto(t, "visit")
      BY <2>3 DEF AllLocked
    <3> QED
      BY <2>1, <2>3, <3>1 DEF Goto
  <2>4. CASE AllLocked(t) /\ op[t].kind # "iter"
    <3>1. Goto(t, "reset") \/ Goto(t, "copy") \/ Goto(t, "unlock_stale")
      BY <1>4, <2>4 DEF AllLocked
    <3> QED
      BY <2>1, <2>4, <3>1 DEF Goto
  <2> QED
    BY <2>2, <2>3, <2>4
<1>7. Reading(t) <=> Reading(t)'
  BY <1>4, <1>5, <1>6 DEF Reading, Looking
<1>8. ScanInv(t)'
  BY <1>6 DEF ScanInv, Scanning
<1> QED
  BY <1>2, <1>3, <1>5, <1>7, <1>8, ReadOn DEF Frame

LEMMA OutsideRead ==
    ASSUME ReadInv, DataInv', NEW t \in Threads, Step(t), ~ Copy(t), Frame(t),
           seen' = seen, ~ Reading(t), ~ Reading(t)'
    PROVE  ReadInv'
<1>1. Evolving
  BY ThreadEvolving DEF ReadInv
<1>2. contents' = contents /\ \A u \in Threads : u # t => Still(u)
  BY DEF Frame
<1>3. SeenType' /\ \A u \in Threads : Sees(u)
  BY <1>2, SeesSame DEF ReadInv, SeenInv, SeenType
<1> QED
  BY <1>1, <1>2, <1>3, ReadNot

LEMMA StatsRead == ASSUME ReadInv, DataInv', NEW t \in Threads, Stats(t) PROVE ReadInv'
<1>1. TableInv
  BY DEF ReadInv, DataInv
<1>2. Step(t) /\ ~ Copy(t) /\ seen' = seen
  BY DEF Step, Stats, StatsBegin, StatsPointer, StatsNext, StatsRetry, Copy, histVars
<1> QED
  BY <1>1, <1>2, StatsFrame, StatsElsewhere, OutsideRead

LEMMA LocksRead ==
    ASSUME ReadInv, DataInv', NEW t \in Threads,
           LockBucket(t) \/ SlowLock(t) \/ UnlockBucket(t) \/ UnlockAll(t) \/ AllUnlocked(t)
    PROVE  ReadInv'
<1>1. TableInv
  BY DEF ReadInv, DataInv
<1>2. Step(t)
  BY DEF Step, Write, WithAllLocks
<1>3. ~ Copy(t) /\ seen' = seen
  BY DEF LockBucket, SlowLock, UnlockBucket, UnlockAll, AllUnlocked, Copy, histVars
<1>4. Frame(t)
  BY <1>1, LockFrame, AllLocksFrame
<1>5. ~ Reading(t) /\ ~ Reading(t)'
  BY <1>1, LockElsewhere
<1> QED
  BY <1>2, <1>3, <1>4, <1>5, OutsideRead

LEMMA HtRead ==
    ASSUME ReadInv, DataInv', NEW t \in Threads,
           SlowMap(t) \/ HtLock(t) \/ GrowMaybe(t) \/ GrowBusy(t) \/ HtUnlock(t)
    PROVE  ReadInv'
<1>1. TableInv
  BY DEF ReadInv, DataInv
<1>2. Step(t)
  BY DEF Step
<1>3. ~ Copy(t) /\ seen' = seen
  BY DEF SlowMap, HtLock, GrowMaybe, GrowBusy, HtUnlock, Copy, histVars
<1> QED
  BY <1>1, <1>2, <1>3, HtFrame, HtElsewhere, OutsideRead

LEMMA ResetRetireRead ==
    ASSUME ReadInv, DataInv', NEW t \in Threads, ResetDone(t) \/ Retire(t) PROVE ReadInv'
<1>1. TableInv
  BY DEF ReadInv, DataInv
<1>2. Step(t) /\ ~ Copy(t) /\ seen' = seen
  BY DEF Step, WithAllLocks, ResetDone, Retire, Copy, histVars
<1>3. Frame(t)
  BY <1>1, AllLocksFrame
<1>4. ~ Reading(t) /\ ~ Reading(t)'
  BY <1>1, WriteElsewhere
<1> QED
  BY <1>2, <1>3, <1>4, OutsideRead

LEMMA WritersRead ==
    ASSUME ReadInv, DataInv', NEW t \in Threads,
           \/ DoStore(t) \/ WriteEnd(t) \/ ResetBucket(t) \/ InsertLocked(t) \/ RemoveLocked(t)
    PROVE  ReadInv'
<1>1. TableInv /\ SeenInv
  BY DEF ReadInv, DataInv
<1>2. Step(t) /\ ~ Copy(t)
  BY DEF Step, Write, WithAllLocks, DoStore, WriteEnd, ResetBucket, InsertLocked, RemoveLocked, Copy
<1>3. Evolving
  BY <1>2, ThreadEvolving DEF ReadInv
<1>4. \A u \in Threads : u # t => Still(u)
  BY <1>1, WritersFrame
<1>5. ~ Reading(t) /\ ~ Reading(t)'
  BY <1>1, WriteElsewhere
<1>6. SeenType' /\ \A u \in Threads : Sees(u)
  <2>1. CASE seen' = seen /\ contents' = contents
    BY <1>1, <2>1, SeesSame DEF SeenInv, SeenType
  <2>2. CASE \E s \in SUBSET Pointers : Become(s)
    BY <1>1, <2>2, SeesBecome
  <2> QED
    BY <2>1, <2>2, WritersSee
<1> QED
  BY <1>3, <1>4, <1>5, <1>6, ReadNot

-----------------------------------------------------------------------------
(* A resize: the map it replaces is left with the contents of the moment. *)

LEMMA CopyFrame ==
    ASSUME TableInv, NEW t \in Threads, Copy(t)
    PROVE  /\ \A u \in Threads : u # t => Still(u)
           /\ pc[t] = "copy" /\ pc'[t] = "retire" /\ map' = map
           /\ seen' = seen /\ contents' = contents
BY DEF Copy, localVars, histVars, Goto, Still, Kept, TableInv, BaseInv, TablesInv

LEMMA OldSettled ==
    ASSUME DataInv, NEW t \in Threads, pc[t] = "copy", NEW b \in Buckets(ht_map)
    PROVE  Settled(HeadAt(ht_map, b), Part(contents, NB(ht_map), b))
<1>1. \A u \in Threads : ~ AtStore(u, ht_map, b)
  BY ResizerAlone DEF DataInv, AtStore
<1>2. PICK P : P = Part(contents, NB(ht_map), b)
  OBVIOUS
<1>3. DataAt(ht_map, b, P)
  BY <1>2 DEF DataInv, CurrentExact
<1> QED
  BY <1>1, <1>2, <1>3 DEF DataAt

LEMMA CopyRead == ASSUME ReadInv, DataInv', NEW t \in Threads, Copy(t) PROVE ReadInv'
<1>1. TableInv /\ SeenInv /\ DataInv
  BY DEF ReadInv, DataInv
<1>2. /\ \A u \in Threads : u # t => Still(u)
      /\ pc[t] = "copy" /\ pc'[t] = "retire" /\ map' = map /\ seen' = seen /\ contents' = contents
  BY <1>1, CopyFrame
<1>3. PICK w : Published(w)
  BY <1>1, CopyPublishes
<1>4. PICK n \in Nat : n = Len(maps) /\ ht_map \in 1 .. n
  BY <1>1 DEF TableInv, BaseInv, TablesInv, IsSeq
<1>5. /\ Len(maps') = n + 1 /\ ht_map' = n + 1
      /\ \A k \in 1 .. n : NB(k)' = NB(k) /\ \A b : HeadAt(k, b)' = HeadAt(k, b)
  BY <1>3, <1>4 DEF Published, NB, HeadAt
<1>6. SeenInv'
  <2>1. ~ Reading(t) /\ ~ Reading(t)'
    BY <1>2 DEF Reading, Looking
  <2>2. ASSUME NEW u \in Threads PROVE SeenFine(u)'
    <3>1. Reading(u)' <=> Reading(u)
      BY <1>2, <2>1, StillReading
    <3> QED
      BY <1>1, <1>2, <3>1 DEF SeenInv, SeenFine
  <2> QED
    BY <1>1, <1>2, <2>2 DEF SeenInv
<1>7. StaleExact'
  <2>1. ASSUME NEW m \in 1 .. n PROVE \E C \in SUBSET Pointers : Frozen(m, C)
    <3>1. CASE m # ht_map
      BY <1>4, <3>1 DEF ReadInv, StaleExact
    <3>2. CASE m = ht_map
      <4>1. contents \in SUBSET Pointers
        BY <1>1 DEF DataInv, CurrentExact
      <4>2. \A b \in Buckets(m) : Settled(HeadAt(m, b), Part(contents, NB(m), b))
        BY <1>1, <1>2, <3>2, OldSettled
      <4>3. \A u \in Threads : seen[u] # {} => contents \in seen[u]
        BY <1>1 DEF SeenInv, SeenFine
      <4> QED
        BY <4>1, <4>2, <4>3 DEF Frozen
    <3> QED
      BY <3>1, <3>2
  <2>2. ASSUME NEW m \in 1 .. n, NEW C, Frozen(m, C) PROVE Frozen(m, C)'
    <3>1. Buckets(m)' = Buckets(m) /\ NB(m)' = NB(m) /\ \A b : HeadAt(m, b)' = HeadAt(m, b)
      BY <1>5 DEF Buckets
    <3>2. \A b \in Buckets(m) : Settled(HeadAt(m, b), Part(C, NB(m), b))'
      BY <2>2, <3>1 DEF Frozen, Settled, Part
    <3> QED
      BY <1>2, <2>2, <3>1, <3>2 DEF Frozen
  <2> QED
    BY <1>4, <1>5, <2>1, <2>2 DEF StaleExact
<1>8. ASSUME NEW u \in Threads PROVE ScanInv(u)'
  <2>1. CASE u = t
    BY <1>2, <2>1 DEF ScanInv, Scanning
  <2>2. CASE u # t /\ pc[u] \notin Scanning
    BY <1>2, <2>2 DEF Still, Kept, ScanInv
  <2>3. CASE u # t /\ pc[u] \in Scanning
    <3>1. PICK m, b : m = map[u] /\ b = bkt[u]
      OBVIOUS
    <3>2. PICK h : h = HeadAt(m, b)
      OBVIOUS
    <3>3. m \in 1 .. n /\ b \in Buckets(m)
      BY <1>1, <1>4, <2>3, <3>1, BucketInMap DEF Scanning, Looking
    <3>4. WellFormedHead(h)
      BY <1>1, <1>4, <3>2, <3>3, ShapeFacts DEF TableInv
    <3>5. map'[u] = m /\ bkt'[u] = b
      BY <1>2, <2>3, <3>1 DEF Still, Kept
    <3>6. HeadAt(map[u], bkt[u])' = h
      <4>1. HeadAt(m, b)' = h
        BY <1>5, <3>2, <3>3
      <4> QED
        BY <3>5, <4>1 DEF HeadAt
    <3>7. Evolves(h, h)
      BY <3>4, SameEvolves DEF SameData
    <3> QED
      BY <1>2, <2>3, <3>1, <3>2, <3>4, <3>6, <3>7, ScanStep DEF ReadInv, WellFormedHead
  <2> QED
    BY <2>1, <2>2, <2>3
<1> QED
  BY <1>6, <1>7, <1>8 DEF ReadInv

-----------------------------------------------------------------------------

LEMMA ReadSame ==
    ASSUME ReadInv, DataInv', UNCHANGED <<maps, ht_map, ht_lock, pc, localVars, histVars>>
    PROVE  ReadInv'
<1>1. /\ UNCHANGED <<maps, ht_map, pc, op, map, bkt>> /\ UNCHANGED <<pos, version, found>>
      /\ UNCHANGED <<seen, contents>>
  BY DEF localVars, histVars
<1>2. SeenInv'
  BY <1>1 DEF ReadInv, SeenInv, SeenFine, Reading
<1>3. StaleExact'
  <2>1. ASSUME NEW m, NEW C, Frozen(m, C) PROVE Frozen(m, C)'
    <3>1. Buckets(m)' = Buckets(m) /\ NB(m)' = NB(m) /\ \A b : HeadAt(m, b)' = HeadAt(m, b)
      BY <1>1 DEF Buckets, NB, HeadAt
    <3>2. \A b \in Buckets(m) : Settled(HeadAt(m, b), Part(C, NB(m), b))'
      BY <2>1, <3>1 DEF Frozen, Settled, Part
    <3> QED
      BY <1>1, <2>1, <3>1, <3>2 DEF Frozen
  <2> QED
    BY <1>1, <2>1 DEF ReadInv, StaleExact
<1>4. ASSUME NEW t \in Threads PROVE ScanInv(t)'
  <2>1. PICK h : h = HeadAt(map[t], bkt[t])
    OBVIOUS
  <2>2. HeadAt(map[t], bkt[t])' = h
    BY <1>1, <2>1 DEF HeadAt
  <2>3. pc[t] \in Scanning => Scanned(t, h)'
    <3>1. pc[t] \in Scanning => Scanned(t, h)
      BY <2>1 DEF ReadInv, ScanInv
    <3>2. Scanned(t, h) => Scanned(t, h)'
      BY <1>1 DEF Scanned
    <3> QED
      BY <3>1, <3>2
  <2> QED
    BY <1>1, <2>2, <2>3 DEF ScanInv
<1> QED
  BY <1>2, <1>3, <1>4 DEF ReadInv

LEMMA ReadInit == ASSUME Init PROVE ReadInv
<1>1. DataInv
  BY DataInit
<1>2. \A t \in Threads : pc[t] = "idle" /\ seen[t] = {}
  BY DEF Init
<1>3. SeenInv
  <2>1. seen \in [Threads -> SUBSET (SUBSET Pointers)]
    BY DEF Init
  <2> QED
    BY <1>2, <2>1 DEF SeenInv, SeenFine, Reading, Looking
<1>4. StaleExact
  <2>1. Len(maps) = 1 /\ ht_map = 1
    BY DEF Init
  <2> QED
    BY <2>1 DEF StaleExact
<1>5. \A t \in Threads : ScanInv(t)
  BY <1>2 DEF ScanInv, Scanning
<1> QED
  BY <1>1, <1>3, <1>4, <1>5 DEF ReadInv

LEMMA ReadStep == ASSUME ReadInv, DataInv', [Next]_vars PROVE ReadInv'
<1>1. CASE UNCHANGED vars
  BY <1>1, ReadSame DEF vars, tableVars
<1>2. ASSUME NEW t \in Threads, Call(t) \/ Step(t) PROVE ReadInv'
  <2>1. CASE Call(t) \/ ReadMap(t) \/ Lookup(t) \/ Stats(t)
    BY <2>1, CallRead, ReadMapRead, LookupRead, EndRead, StatsRead
  <2>2. CASE LockBucket(t) \/ SlowMap(t) \/ SlowLock(t) \/ Write(t)
    BY <2>2, LocksRead, HtRead, WritersRead DEF Write
  <2>3. CASE HtLock(t) \/ GrowMaybe(t) \/ GrowBusy(t) \/ HtUnlock(t)
    BY <2>3, HtRead
  <2>4. CASE WithAllLocks(t)
    BY <2>4, LockAllRead, LocksRead, WritersRead, ResetRetireRead, EndRead,
       CopyRead DEF WithAllLocks
  <2> QED
    BY <1>2, <2>1, <2>2, <2>3, <2>4 DEF Step
<1>3. ASSUME NEW m, Reclaim(m) PROVE ReadInv'
  BY <1>3, ReadSame DEF Reclaim
<1> QED
  BY <1>1, <1>2, <1>3 DEF Next

-----------------------------------------------------------------------------
(* The table is a set. *)

Asked(t) == IF seen[t] = {} THEN NULL ELSE IF op[t].kind = "iter" THEN Pointers ELSE {op[t].p}
Asking == [t \in Threads |-> Asked(t)]

(* A reader asks about its pointer, an iteration about all of them. *)
LEMMA AskedWhat ==
    ASSUME ReadInv, NEW t \in Threads
    PROVE  /\ Asking[t] = Asked(t) /\ (Asked(t) = NULL <=> seen[t] = {})
           /\ seen[t] # {} => op[t].kind \in {"lookup", "iter"}
                 /\ (op[t].kind = "lookup" => op[t].p \in Pointers)
<1>1. Asking[t] = Asked(t)
  BY DEF Asking
<1>2. BaseInv
  BY DEF ReadInv, DataInv, TableInv
<1>3. ASSUME seen[t] # {}
      PROVE  op[t].kind \in {"lookup", "iter"} /\ (op[t].kind = "lookup" => op[t].p \in Pointers)
  <2>1. Reading(t)
    BY <1>3 DEF ReadInv, SeenInv, SeenFine
  <2>2. op[t].kind \in {"lookup", "iter"} /\ pc[t] # "idle"
    BY <1>2, <2>1 DEF Reading, BaseInv, KindInv, Looking
  <2> QED
    BY <1>2, <2>2, OpPointer
<1>4. seen[t] # {} => Asked(t) # NULL
  <2>1. \A p \in Pointers : {p} # NULL
    <3>1. \A p \in Pointers : {p} \in SUBSET Pointers
      OBVIOUS
    <3> QED
      BY <3>1, QHTAssumption
  <2>2. Pointers # NULL
    BY QHTAssumption
  <2> QED
    BY <1>3, <2>1, <2>2 DEF Asked
<1> QED
  BY <1>1, <1>3, <1>4 DEF Asked

(* The readers are the same ones. *)
LEMMA SameAsking ==
    ASSUME \A u \in Threads : /\ seen'[u] = {} <=> seen[u] = {}
                              /\ seen[u] # {} => op'[u] = op[u]
    PROVE  Asking' = Asking
<1>1. \A u \in Threads : Asked(u)' = Asked(u)
  BY DEF Asked
<1> QED
  BY <1>1 DEF Asking

LEMMA SetStutters ==
    ASSUME UNCHANGED histVars, \A u \in Threads : seen[u] # {} => op'[u] = op[u]
    PROVE  UNCHANGED Q!setVars
<1>1. contents' = contents /\ seen' = seen /\ result' = result
  BY DEF histVars
<1>2. Asking' = Asking
  BY <1>1, SameAsking
<1> QED
  BY <1>1, <1>2 DEF Asking, Asked, Q!setVars

LEMMA SetBecomes ==
    ASSUME ReadInv, NEW s, Become(s), \A u \in Threads : seen[u] # {} => op'[u] = op[u]
    PROVE  Q!Become(s)
<1>1. contents' = s /\ seen' = [u \in Threads |-> IF seen[u] = {} THEN {} ELSE seen[u] \cup {s}]
  BY DEF Become
<1>2. Asking' = Asking
  BY <1>1, SameAsking
<1>3. \A u \in Threads : Asking[u] = NULL <=> seen[u] = {}
  BY AskedWhat
<1>4. [u \in Threads |-> IF seen[u] = {} THEN {} ELSE seen[u] \cup {s}]
         = [u \in Threads |-> IF Asking[u] = NULL THEN {} ELSE seen[u] \cup {s}]
  BY <1>3
<1> QED
  BY <1>1, <1>2, <1>4 DEF Asking, Asked, Q!Become

(* It stays what it was. *)
LEMMA SetSame ==
    ASSUME ReadInv, contents' = contents, seen' = seen,
           \A u \in Threads : seen[u] # {} => op'[u] = op[u]
    PROVE  Q!Become(contents)
<1>1. Become(contents)
  <2>1. \A u \in Threads : seen[u] = IF seen[u] = {} THEN {} ELSE seen[u] \cup {contents}
    BY DEF ReadInv, SeenInv, SeenFine
  <2>2. seen = [u \in Threads |-> seen[u]]
    BY DEF ReadInv, SeenInv
  <2>3. seen = [u \in Threads |-> IF seen[u] = {} THEN {} ELSE seen[u] \cup {contents}]
    BY <2>1, <2>2
  <2> QED
    BY <2>3 DEF Become
<1> QED
  BY <1>1, SetBecomes

(* The steps that are steps of the set. *)

LEMMA CallSet == ASSUME ReadInv, NEW t \in Threads, Call(t) PROVE Q!SetNext
<1>1. PICK o \in Ops :
         /\ op' = Set(op, t, o)
         /\ Goto(t, IF o.kind \in {"resize", "reset_size"} THEN "ht_lock" ELSE "map")
         /\ seen' = Set(seen, t, IF o.kind \in {"lookup", "iter"} THEN {contents} ELSE {})
  BY DEF Call
<1>2. contents' = contents /\ result' = [result EXCEPT ![t] = NULL]
  BY DEF Call, Set
<1>3. SeenInv /\ TableInv
  BY DEF ReadInv, DataInv
<1>4. seen[t] = {}
  BY <1>3 DEF Call, SeenInv, SeenFine, Reading, Looking
<1>5. DOMAIN op = Threads /\ seen \in [Threads -> SUBSET (SUBSET Pointers)]
  BY <1>3 DEF SeenInv, TableInv, BaseInv, TablesInv
<1>6. op'[t] = o /\ \A u \in Threads : u # t => op'[u] = op[u] /\ seen'[u] = seen[u]
  BY <1>1, <1>5 DEF Set
<1>7. CASE o.kind \in {"lookup", "iter"}
  <2>1. PICK what : what = IF o.kind = "iter" THEN Pointers ELSE {o.p}
    OBVIOUS
  <2>2. what \in {{p} : p \in Pointers} \cup {Pointers}
    BY <1>7, <2>1, QHTAssumption
  <2>3. seen' = [seen EXCEPT ![t] = {contents}] /\ seen'[t] # {}
    BY <1>1, <1>5, <1>7 DEF Set
  <2>4. Asking[t] = NULL
    BY <1>4, AskedWhat
  <2>5. Asking' = [Asking EXCEPT ![t] = what]
    <3>1. Asked(t)' = what
      BY <1>6, <2>1, <2>3 DEF Asked
    <3>2. \A u \in Threads : u # t => Asked(u)' = Asked(u)
      BY <1>6 DEF Asked
    <3> QED
      BY <3>1, <3>2 DEF Asking
  <2>6. Q!ReadBegin(t, what)
    BY <1>2, <2>3, <2>4, <2>5 DEF Asking, Asked, Q!ReadBegin
  <2> QED
    BY <2>2, <2>6 DEF Q!SetNext
<1>8. CASE o.kind \notin {"lookup", "iter"}
  <2>1. seen' = seen
    BY <1>1, <1>4, <1>5, <1>8 DEF Set
  <2>2. Asking' = Asking
    BY <1>4, <1>6, <2>1, SameAsking
  <2>3. Q!Forget(t)
    BY <1>2, <2>1, <2>2 DEF Asking, Asked, Q!Forget
  <2> QED
    BY <2>3 DEF Q!SetNext
<1> QED
  BY <1>7, <1>8

LEMMA EndSet ==
    ASSUME ReadInv, NEW t \in Threads, Asked(t) # NULL,
           NEW C \in seen[t], NEW r, r = C \cap Asked(t), result' = [result EXCEPT ![t] = r],
           seen' = [seen EXCEPT ![t] = {}], contents' = contents,
           \A u \in Threads : u # t => op'[u] = op[u]
    PROVE  Q!SetNext
<1>1. Asking[t] = Asked(t)
  BY DEF Asking
<1>2. seen \in [Threads -> SUBSET (SUBSET Pointers)]
  BY DEF ReadInv, SeenInv
<1>3. Asking' = [Asking EXCEPT ![t] = NULL]
  <2>1. Asked(t)' = NULL
    BY <1>2 DEF Asked
  <2>2. \A u \in Threads : u # t => Asked(u)' = Asked(u)
    BY <1>2 DEF Asked
  <2> QED
    BY <2>1, <2>2 DEF Asking
<1>4. Q!ReadEnd(t)
  BY <1>1, <1>3 DEF Asking, Asked, Q!ReadEnd
<1> QED
  BY <1>4 DEF Q!SetNext

LEMMA LookupReturnSet == ASSUME ReadInv, NEW t \in Threads, LookupReturn(t) PROVE Q!SetNext
<1>1. PICK h, p : h = HeadAt(map[t], bkt[t]) /\ p = op[t].p
  OBVIOUS
<1>2. pc[t] = "retry" /\ pc[t] \in Looking /\ pc[t] \in Scanning
  BY DEF LookupReturn, Looking, Scanning
<1>3. HeadOf(t) = h /\ Scanned(t, h)
  BY <1>1, <1>2, LookingAt DEF ReadInv, ScanInv
<1>4. h.sequence = version[t]
  BY <1>3 DEF LookupReturn, ReadRetry
<1>5. /\ h.sequence % 2 = 0
      /\ IF Absent(h, Len(h.slots), p) THEN found[t] = {} ELSE found[t] = {p}
  BY <1>1, <1>2, <1>3, <1>4 DEF Scanned
<1>6. PICK C \in seen[t] : p \in C <=> ~ Absent(h, Len(h.slots), p)
  BY <1>1, <1>2, <1>5, LookingEven
<1>7. Asked(t) = {p} /\ Asked(t) # NULL
  <2>1. op[t].kind = "lookup"
    BY <1>2 DEF ReadInv, DataInv, TableInv, BaseInv, KindInv
  <2> QED
    BY <1>1, <1>6, <2>1, AskedWhat DEF Asked
<1>8. found[t] = C \cap Asked(t)
  BY <1>5, <1>6, <1>7
<1>9. /\ result' = [result EXCEPT ![t] = found[t]] /\ seen' = [seen EXCEPT ![t] = {}]
      /\ contents' = contents
  BY DEF LookupReturn, Set
<1>10. \A u \in Threads : u # t => op'[u] = op[u]
  <2>1. DOMAIN op = Threads
    BY DEF ReadInv, DataInv, TableInv, BaseInv, TablesInv
  <2> QED
    BY <2>1 DEF LookupReturn, Return, Set
<1> QED
  BY <1>7, <1>8, <1>9, <1>10, EndSet

(* What an iteration finds in the map that it has locked. *)
LEMMA VisitListing ==
    ASSUME ReadInv, NEW t \in Threads, pc[t] = "visit"
    PROVE  \E C \in seen[t] : C \subseteq Pointers /\ Listing(AllEntries(maps[map[t]]), C)
<1>1. TableInv /\ DataInv /\ SeenInv
  BY DEF ReadInv, DataInv
<1>2. seen[t] # {}
  BY <1>1 DEF SeenInv, SeenFine, Reading
<1>3. PICK m \in 1 .. Len(maps) : m = map[t]
  BY <1>1, MapInHand DEF TableInv, WithMap
<1>4. CASE m = ht_map
  <2>1. Listing(AllEntries(maps[map[t]]), contents)
    BY <1>1, <1>3, <1>4, LockedListing
  <2> QED
    BY <1>1, <1>2, <2>1 DEF SeenInv, SeenFine, DataInv, CurrentExact
<1>5. CASE m # ht_map
  <2>1. PICK C \in SUBSET Pointers : Frozen(m, C)
    BY <1>5 DEF ReadInv, StaleExact
  <2>2. C \in seen[t]
    BY <1>2, <1>3, <2>1 DEF Frozen
  <2>3. WellFormedMap(maps[m])
    BY <1>1 DEF TableInv, ShapeInv
  <2>4. \A b \in 0 .. maps[m].n_buckets - 1 :
           Exact(maps[m].heads[b].slots, Len(maps[m].heads[b].slots), Part(C, maps[m].n_buckets, b))
    BY <2>1 DEF Frozen, Settled, Buckets, NB, HeadAt
  <2>5. Listing(AllEntries(maps[m]), C)
    BY <2>3, <2>4, AllEntriesListed
  <2> QED
    BY <1>3, <2>2, <2>5
<1> QED
  BY <1>4, <1>5

LEMMA ListedPointers ==
    ASSUME NEW e, NEW C, Listing(e, C) PROVE {x.p : x \in Range(e)} = C
<1>1. Range(e) = {e[x] : x \in DOMAIN e}
  BY DEF Range
<1> QED
  BY <1>1 DEF Listing

LEMMA VisitSet == ASSUME ReadInv, NEW t \in Threads, Visit(t) PROVE Q!SetNext
<1>1. pc[t] = "visit"
  BY DEF Visit
<1>2. PICK C \in seen[t] : C \subseteq Pointers /\ Listing(AllEntries(maps[map[t]]), C)
  BY <1>1, VisitListing
<1>3. PICK r : r = {e.p : e \in Range(AllEntries(maps[map[t]]))}
  OBVIOUS
<1>4. Asked(t) = Pointers /\ Asked(t) # NULL
  <2>1. op[t].kind = "iter"
    BY <1>1 DEF ReadInv, DataInv, TableInv, BaseInv, KindInv
  <2> QED
    BY <1>2, <2>1, AskedWhat DEF Asked
<1>5. r = C \cap Asked(t)
  BY <1>2, <1>3, <1>4, ListedPointers
<1>6. /\ result' = [result EXCEPT ![t] = r] /\ seen' = [seen EXCEPT ![t] = {}]
      /\ contents' = contents /\ op' = op
  BY <1>3 DEF Visit, Set, localVars
<1> QED
  BY <1>4, <1>5, <1>6, EndSet

LEMMA InsertSet == ASSUME ReadInv, NEW t \in Threads, InsertLocked(t) PROVE Q!SetNext
<1>1. PICK m, b : m = map[t] /\ b = bkt[t]
  OBVIOUS
<1>2. PICK h : h = HeadAt(m, b)
  OBVIOUS
<1>3. PICK P : P = Part(contents, NB(m), b)
  OBVIOUS
<1>4. PICK p : p = op[t].p
  OBVIOUS
<1>5. p \in Pointers /\ GoesTo(p, NB(m), b) /\ (InsertFinds(t, P, p) \/ InsertBegins(t, h, P, p))
  BY <1>1, <1>2, <1>3, <1>4, InsertFacts DEF ReadInv, GoesTo
<1>6. p \in contents <=> p \in P
  BY <1>3, <1>5 DEF Part, GoesTo
<1>7. op' = op
  BY DEF InsertLocked
<1>8. CASE InsertFinds(t, P, p)
  <2>1. Q!Become(contents)
    BY <1>7, <1>8, SetSame DEF InsertFinds
  <2>2. contents \cup {p} = contents /\ {p} \ contents = {}
    BY <1>6, <1>8 DEF InsertFinds
  <2>3. result' = [result EXCEPT ![t] = {p} \ contents]
    BY <1>8, <2>2 DEF InsertFinds, Set
  <2> QED
    BY <1>5, <2>1, <2>2, <2>3 DEF Q!SetNext, Q!Insert
<1>9. CASE InsertBegins(t, h, P, p)
  <2>1. Q!Become(contents \cup {p})
    BY <1>7, <1>9, SetBecomes DEF InsertBegins
  <2>2. {p} \ contents = {p}
    BY <1>6, <1>9 DEF InsertBegins
  <2>3. result' = [result EXCEPT ![t] = {p} \ contents]
    BY <1>9, <2>2 DEF InsertBegins, Set
  <2> QED
    BY <1>5, <2>1, <2>3 DEF Q!SetNext, Q!Insert
<1> QED
  BY <1>5, <1>8, <1>9

LEMMA RemoveSet == ASSUME ReadInv, NEW t \in Threads, RemoveLocked(t) PROVE Q!SetNext
<1>1. PICK m, b : m = map[t] /\ b = bkt[t]
  OBVIOUS
<1>2. PICK h : h = HeadAt(m, b)
  OBVIOUS
<1>3. PICK P : P = Part(contents, NB(m), b)
  OBVIOUS
<1>4. PICK p : p = op[t].p
  OBVIOUS
<1>5. p \in Pointers /\ GoesTo(p, NB(m), b) /\ (RemoveMisses(t, P, p) \/ RemoveBegins(t, h, P, p))
  BY <1>1, <1>2, <1>3, <1>4, RemoveFacts DEF ReadInv, GoesTo
<1>6. p \in contents <=> p \in P
  BY <1>3, <1>5 DEF Part, GoesTo
<1>7. op' = op
  BY DEF RemoveLocked
<1>8. CASE RemoveMisses(t, P, p)
  <2>1. Q!Become(contents)
    BY <1>7, <1>8, SetSame DEF RemoveMisses
  <2>2. contents \ {p} = contents /\ {p} \cap contents = {}
    BY <1>6, <1>8 DEF RemoveMisses
  <2>3. result' = [result EXCEPT ![t] = {p} \cap contents]
    BY <1>8, <2>2 DEF RemoveMisses, Set
  <2> QED
    BY <1>5, <2>1, <2>2, <2>3 DEF Q!SetNext, Q!Remove
<1>9. CASE RemoveBegins(t, h, P, p)
  <2>1. Q!Become(contents \ {p})
    BY <1>7, <1>9, SetBecomes DEF RemoveBegins
  <2>2. {p} \cap contents = {p}
    BY <1>6, <1>9 DEF RemoveBegins
  <2>3. result' = [result EXCEPT ![t] = {p} \cap contents]
    BY <1>9, <2>2 DEF RemoveBegins, Set
  <2> QED
    BY <1>5, <2>1, <2>3 DEF Q!SetNext, Q!Remove
<1> QED
  BY <1>5, <1>8, <1>9

LEMMA ResetSet == ASSUME ReadInv, NEW t \in Threads, ResetBucket(t) PROVE Q!SetNext
<1>1. op' = op /\ result' = result
  BY DEF ResetBucket
<1>2. PICK s : s \in SUBSET contents /\ Become(s)
  BY DEF ResetBucket
<1>3. Q!Become(s)
  BY <1>1, <1>2, SetBecomes
<1> QED
  BY <1>1, <1>2, <1>3 DEF Q!SetNext, Q!ResetSome

(* The other steps change nothing that a caller could tell. *)
Hidden(t) ==
    \/ ReadMap(t) \/ Stats(t) \/ LockBucket(t) \/ SlowMap(t) \/ SlowLock(t)
    \/ DoStore(t) \/ WriteEnd(t) \/ UnlockBucket(t)
    \/ HtLock(t) \/ GrowMaybe(t) \/ GrowBusy(t) \/ HtUnlock(t)
    \/ LockAll(t) \/ AllLocked(t) \/ ResetDone(t) \/ Copy(t) \/ Retire(t)
    \/ UnlockAll(t) \/ AllUnlocked(t)
    \/ (Lookup(t) /\ ~ LookupReturn(t))

LEMMA StaysHidden ==
    ASSUME ReadInv, NEW t \in Threads, Hidden(t) PROVE UNCHANGED Q!setVars
<1>1. TableInv /\ SeenInv
  BY DEF ReadInv, DataInv
<1>2. UNCHANGED histVars
  BY DEF Hidden, ReadMap, Stats, StatsBegin, StatsPointer, StatsNext, StatsRetry, LockBucket,
         SlowMap, SlowLock, DoStore, WriteEnd, UnlockBucket, HtLock, GrowMaybe, GrowBusy, HtUnlock,
         LockAll, AllLocked, ResetDone, Copy, Retire, UnlockAll, AllUnlocked, Lookup, LookupBegin,
         LookupHash, LookupPointer, LookupNext, LookupRetry
<1>3. op' = op \/ Stats(t) \/ UnlockBucket(t) \/ AllUnlocked(t) \/ GrowBusy(t) \/ HtUnlock(t)
  BY DEF Hidden, ReadMap, LockBucket, SlowMap, SlowLock, DoStore, WriteEnd, HtLock, GrowMaybe,
         LockAll, AllLocked, ResetDone, Copy, Retire, UnlockAll, Lookup, LookupBegin, LookupHash,
         LookupPointer, LookupNext, LookupRetry, localVars
<1>4. op' = op \/ (Return(t) /\ seen[t] = {})
  <2>1. ASSUME Stats(t) \/ UnlockBucket(t) \/ AllUnlocked(t) \/ GrowBusy(t) \/ HtUnlock(t)
        PROVE  seen[t] = {}
    BY <1>1, <2>1, StatsElsewhere, LockElsewhere, HtElsewhere DEF SeenInv, SeenFine
  <2>2. ASSUME Stats(t) \/ UnlockBucket(t) \/ AllUnlocked(t) \/ GrowBusy(t) \/ HtUnlock(t)
        PROVE  op' = op \/ Return(t)
    BY <2>2 DEF Stats, StatsBegin, StatsPointer, StatsNext, StatsRetry, UnlockBucket, AllUnlocked,
                GrowBusy, HtUnlock, localVars
  <2> QED
    BY <1>3, <2>1, <2>2
<1>5. \A u \in Threads : seen[u] # {} => op'[u] = op[u]
  <2>1. DOMAIN op = Threads
    BY <1>1 DEF TableInv, BaseInv, TablesInv
  <2> QED
    BY <1>4, <2>1 DEF Return, Set
<1> QED
  BY <1>2, <1>5, SetStutters

LEMMA SetStep == ASSUME ReadInv, [Next]_vars PROVE [Q!SetNext]_(Q!setVars)
<1>1. CASE UNCHANGED <<histVars, op>>
  BY <1>1, SetStutters
<1>2. ASSUME NEW t \in Threads, Call(t) \/ Step(t) PROVE [Q!SetNext]_(Q!setVars)
  <2>1. \/ Call(t) \/ LookupReturn(t) \/ Visit(t) \/ InsertLocked(t) \/ RemoveLocked(t)
        \/ ResetBucket(t) \/ Hidden(t)
    BY <1>2 DEF Step, Lookup, Write, WithAllLocks, Hidden
  <2> QED
    BY <2>1, CallSet, LookupReturnSet, VisitSet, InsertSet, RemoveSet, ResetSet, StaysHidden
<1>3. CASE UNCHANGED vars \/ \E m \in DOMAIN grace : Reclaim(m)
  <2>1. UNCHANGED <<histVars, op>>
    BY <1>3 DEF vars, Reclaim, localVars
  <2> QED
    BY <1>1, <2>1
<1> QED
  BY <1>2, <1>3 DEF Next

LEMMA SetStarts == Init => Q!SetInit
<1> SUFFICES ASSUME Init PROVE Q!SetInit
  OBVIOUS
<1>1. contents \in SUBSET Pointers
  BY DataInit DEF DataInv, CurrentExact
<1>2. seen = [t \in Threads |-> {}] /\ result = [t \in Threads |-> NULL]
  BY DEF Init
<1>3. Asking = [t \in Threads |-> NULL]
  BY <1>2 DEF Asking, Asked
<1> QED
  BY <1>1, <1>2, <1>3 DEF Asking, Asked, Q!SetInit

(* The table implements the set of QhtSet: insertions and removals take    *)
(* effect at one instant, and a lookup that retries until the sequence     *)
(* number is what it was, or an iteration over a map that a resize has     *)
(* replaced, answers with the contents of an instant while it ran.  For    *)
(* every number of threads, pointers, buckets and resizes, and every order *)
(* of the stores in a write section.  A map is not changed any more once   *)
(* it was replaced; that it is not freed under a reader either is          *)
(* MapsOutliveUsers.                                                       *)
THEOREM SetImplemented == Spec => ImplementsQhtSet
<1> DEFINE RI == MapInv /\ ReadInv
<1>1. Init => RI
  BY MapInvInit, ReadInit
<1>2. RI /\ [Next]_vars => RI'
  <2>1. MapInv /\ [Next]_vars => MapInv'
    BY MapInvStep
  <2>2. MapInv' => BaseInv'
    BY DEF MapInv
  <2>3. ReadInv /\ BaseInv' /\ [Next]_vars => DataInv'
    BY DataStep DEF ReadInv
  <2>4. ReadInv /\ DataInv' /\ [Next]_vars => ReadInv'
    BY ReadStep
  <2> QED
    BY <2>1, <2>2, <2>3, <2>4
<1>3. RI /\ [Next]_vars => [Q!SetNext]_(Q!setVars)
  BY SetStep
<1> QED
  BY <1>1, <1>2, <1>3, SetStarts, PTL DEF Spec, ImplementsQhtSet, Q!SetSpec
=============================================================================
