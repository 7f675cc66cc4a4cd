---------------------------- MODULE CpuExecProofs ----------------------------
(***************************************************************************)
(* Proofs about CpuExec, for every number of threads, CPUs and entries of  *)
(* tbs[], every guest program and every number of calls.                   *)
(***************************************************************************)
EXTENDS CpuExec, TBCacheProofs

-----------------------------------------------------------------------------
(* The locks.  LockInv is inductive by itself: it says which labels a      *)
(* thread can be at while it holds each lock.                              *)

TbHeld   == {"guess_cs", "find_cs", "slow_cs", "link", "cache_cs"}
MmapHeld == {"relock", "slow_cs"}

LockTypeOK ==
    /\ pc \in [Threads -> PCs]
    /\ cpuid \in [Threads -> Cpus]
    /\ local_cpu_lock \in [Cpus -> Threads \cup {NULL}]
    /\ tb_mutex \in Threads \cup {NULL}
    /\ mmap_mutex \in Threads \cup {NULL}
    /\ have_tb_lock = IF tb_mutex = NULL THEN 0 ELSE 1

LockInv ==
    /\ LockTypeOK
    /\ \A t \in Threads : InExec(t) => local_cpu_lock[cpuid[t]] = t
    /\ \A t \in Threads : pc[t] \in TbHeld <=> tb_mutex = t
    /\ \A t \in Threads : pc[t] \in MmapHeld <=> mmap_mutex = t

LEMMA NextCpu == \A c \in Cpus : (c + 1) % N_CPUS \in Cpus
BY ThreadAssumption

LEMMA LockInvInit == Init => LockInv
BY ThreadAssumption DEF Init, LockInv, LockTypeOK, PCs, InExec, TbHeld, MmapHeld

LEMMA LockInvStep == LockInv /\ [Next]_vars => LockInv'
<1> SUFFICES ASSUME LockInv, [Next]_vars PROVE LockInv'
  OBVIOUS
<1> USE ThreadAssumption DEF LockInv, LockTypeOK, PCs, InExec, TbHeld, MmapHeld, Goto
<1>1. ASSUME NEW t \in Threads, NEW k \in Keys, Call(t, k) PROVE LockInv'
  BY <1>1 DEF Call, lockVars
<1>2. ASSUME NEW t \in Threads, TryLock(t) PROVE LockInv'
  <2>0. /\ pc[t] = "trylock"
        /\ UNCHANGED <<tb_mutex, have_tb_lock, mmap_mutex>>
    BY <1>2 DEF TryLock
  <2>1. ASSUME local_cpu_lock[cpuid[t]] = NULL,
               local_cpu_lock' = [local_cpu_lock EXCEPT ![cpuid[t]] = t],
               pc' = [pc EXCEPT ![t] = "load"], cpuid' = cpuid
        PROVE  LockInv'
    BY <2>0, <2>1
  <2>2. ASSUME cpuid' = [cpuid EXCEPT ![t] = (@ + 1) % N_CPUS],
               local_cpu_lock' = local_cpu_lock, pc' = pc
        PROVE  LockInv'
    <3>1. (cpuid[t] + 1) % N_CPUS \in Cpus
      BY NextCpu
    <3> QED
      BY <2>0, <2>2, <3>1
  <2> QED
    BY <1>2, <2>1, <2>2 DEF TryLock, CpuFree
<1>3. ASSUME NEW t \in Threads, Load(t) PROVE LockInv'
  BY <1>3 DEF Load, lockVars, localVars
<1>4. ASSUME NEW t \in Threads, Lock(t) PROVE LockInv'
  BY <1>4 DEF Lock, TbLock, localVars
<1>5. ASSUME NEW t \in Threads, GuessIcount(t) PROVE LockInv'
  BY <1>5 DEF GuessIcount, TbUnlock
<1>6. ASSUME NEW t \in Threads, FindInJmpCache(t) PROVE LockInv'
  BY <1>6 DEF FindInJmpCache, Found, lockVars
<1>7. ASSUME NEW t \in Threads, FindInHtable(t) PROVE LockInv'
  BY <1>7 DEF FindInHtable, Found
<1>8. ASSUME NEW t \in Threads, FindMiss(t) PROVE LockInv'
  BY <1>8 DEF FindMiss, DropTbLock, TbUnlock, localVars
<1>9. ASSUME NEW t \in Threads, MmapLock(t) PROVE LockInv'
  BY <1>9 DEF MmapLock, localVars
<1>10. ASSUME NEW t \in Threads, GenFlush(t) PROVE LockInv'
  BY <1>10 DEF GenFlush, lockVars, localVars
<1>11. ASSUME NEW t \in Threads, GenCode(t) PROVE LockInv'
  BY <1>11 DEF GenCode, Found
<1>12. ASSUME NEW t \in Threads, Link(t) PROVE LockInv'
  <2>1. /\ pc[t] = "link" /\ pc' = [pc EXCEPT ![t] = "run"]
        /\ tb_mutex' = NULL /\ have_tb_lock' = have_tb_lock - 1
        /\ UNCHANGED <<local_cpu_lock, mmap_mutex, cpuid>>
    BY <1>12 DEF Link, TbUnlock
  <2> QED
    BY <2>1
<1>13. ASSUME NEW t \in Threads, RunTB(t) PROVE LockInv'
  <2>1. /\ pc[t] = "run" /\ (pc' = pc \/ pc' = [pc EXCEPT ![t] = "cache"])
        /\ UNCHANGED <<local_cpu_lock, tb_mutex, have_tb_lock, mmap_mutex, cpuid>>
    BY <1>13 DEF RunTB, runFrame, lockVars
  <2> QED
    BY <2>1
<1>14. ASSUME NEW t \in Threads, RunUndefined(t) PROVE LockInv'
  <2>1. /\ pc[t] = "run" /\ pc' = [pc EXCEPT ![t] = "cache"]
        /\ UNCHANGED <<local_cpu_lock, tb_mutex, have_tb_lock, mmap_mutex, cpuid>>
    BY <1>14 DEF RunUndefined, runFrame, lockVars
  <2> QED
    BY <2>1
<1>15. ASSUME NEW t \in Threads, FromCache(t) PROVE LockInv'
  <2>1. /\ pc[t] = "cache_cs"
        /\ pc' = [pc EXCEPT ![t] = "guess"] \/ pc' = [pc EXCEPT ![t] = "return"]
        /\ tb_mutex' = NULL /\ have_tb_lock' = have_tb_lock - 1
        /\ UNCHANGED <<local_cpu_lock, mmap_mutex, cpuid>>
    BY <1>15 DEF FromCache, TbUnlock
  <2>2. CASE pc' = [pc EXCEPT ![t] = "guess"]
    BY <2>1, <2>2
  <2>3. CASE pc' = [pc EXCEPT ![t] = "return"]
    BY <2>1, <2>3
  <2> QED
    BY <2>1, <2>2, <2>3
<1>16. ASSUME NEW t \in Threads, Return(t) PROVE LockInv'
  BY <1>16 DEF Return, ReleaseCpu
<1>17. CASE UNCHANGED vars
  BY <1>17 DEF vars, lockVars, localVars
<1> QED
  BY <1>1, <1>2, <1>3, <1>4, <1>5, <1>6, <1>7, <1>8, <1>9, <1>10, <1>11, <1>12, <1>13,
     <1>14, <1>15, <1>16, <1>17 DEF Next, Step, Finished

LEMMA LockInvHolds == Spec => []LockInv
BY LockInvInit, LockInvStep, PTL DEF Spec

(* Two threads inside exec() never share a CPU: acquire_cpu gives a CPU to *)

(* one thread at a time, until release_cpu.                                *)
THEOREM CpuExclusion == Spec => []CpuExclusive
<1>1. LockInv => CpuExclusive
  BY DEF LockInv, CpuExclusive
<1> QED
  BY <1>1, LockInvHolds, PTL

(* Only the thread that holds tb_lock changes the cache, and TBs are added *)
(* and dropped under mmap_lock too, although tb_find_slow lets go of       *)
(* tb_lock half-way.                                                       *)
THEOREM CacheLocked == Spec => CacheChangesLocked
<1> DEFINE Cached == <<htable, tbs, jmp, target, first_tb, tb_jmp_cache>>
           Held   == \E t \in Threads : tb_mutex = t /\ Step(t)
           Both   == \E t \in Threads : tb_mutex = t /\ mmap_mutex = t /\ Step(t)
<1>1. LockInv /\ [Next]_vars => [/\ Cached' # Cached => Held
                                 /\ <<htable, tbs>>' # <<htable, tbs>> => Both]_vars
  <2> SUFFICES ASSUME LockInv, Next
               PROVE  /\ Cached' # Cached => Held
                      /\ <<htable, tbs>>' # <<htable, tbs>> => Both
    OBVIOUS
  <2>1. ASSUME NEW t \in Threads, Step(t), pc[t] = "slow_cs" PROVE Held /\ Both
    BY <2>1 DEF LockInv, TbHeld, MmapHeld
  <2>2. ASSUME NEW t \in Threads, Step(t), pc[t] \in TbHeld, UNCHANGED <<htable, tbs>>
        PROVE  Held /\ UNCHANGED <<htable, tbs>>
    BY <2>2 DEF LockInv
  <2>3. ASSUME NEW t \in Threads, Step(t)
        PROVE  \/ pc[t] = "slow_cs"
               \/ pc[t] \in TbHeld /\ UNCHANGED <<htable, tbs>>
               \/ UNCHANGED Cached
    <3> USE DEF TbHeld
    <3>1. ASSUME TryLock(t) PROVE UNCHANGED Cached
      BY <3>1 DEF TryLock, cacheVars, jmpVars, pageVars
    <3>2. ASSUME Load(t) PROVE UNCHANGED Cached
      BY <3>2 DEF Load, jmpVars, pageVars
    <3>3. ASSUME Lock(t) PROVE UNCHANGED Cached
      BY <3>3 DEF Lock, TbLock, cacheVars, jmpVars, pageVars
    <3>4. ASSUME GuessIcount(t) \/ FindMiss(t) \/ MmapLock(t) PROVE UNCHANGED Cached
      BY <3>4 DEF GuessIcount, FindMiss, MmapLock, cacheVars, jmpVars, pageVars
    <3>5. ASSUME FindInJmpCache(t) \/ FromCache(t) \/ Return(t) PROVE UNCHANGED Cached
      BY <3>5 DEF FindInJmpCache, FromCache, Return, cacheVars, jmpVars, pageVars
    <3>6. ASSUME RunTB(t) \/ RunUndefined(t) PROVE UNCHANGED Cached
      BY <3>6 DEF RunTB, RunUndefined, runFrame, cacheVars, jmpVars, pageVars
    <3>7. ASSUME GenFlush(t) \/ GenCode(t) PROVE pc[t] = "slow_cs"
      BY <3>7 DEF GenFlush, GenCode
    <3>8. ASSUME FindInHtable(t) \/ Link(t) PROVE pc[t] \in TbHeld /\ UNCHANGED <<htable, tbs>>
      BY <3>8 DEF FindInHtable, Link
    <3> QED
      BY <2>3, <3>1, <3>2, <3>3, <3>4, <3>5, <3>6, <3>7, <3>8 DEF Step
  <2>4. ASSUME NEW t \in Threads, NEW k \in Keys, Call(t, k) PROVE UNCHANGED Cached
    BY <2>4 DEF Call, cacheVars, jmpVars, pageVars
  <2>5. ASSUME Finished PROVE UNCHANGED Cached
    BY <2>5 DEF Finished, vars, cacheVars, jmpVars, pageVars
  <2> HIDE DEF Held, Both
  <2> QED
    BY <2>1, <2>2, <2>3, <2>4, <2>5 DEF Next
<1> QED
  BY <1>1, LockInvHolds, PTL DEF CacheChangesLocked, Spec

-----------------------------------------------------------------------------
(* Types.  A TB pointer is followed at many places: the types alone are    *)
(* not inductive, since they allow pointers to entries of tbs[] that were  *)
(* never written, and lookups of a state that is not in the program.       *)

ThreadTypeOK ==
    /\ calls \in [Threads -> 0 .. MaxCalls]
    /\ env \in [Cpus -> GuestStates \cup {NULL}]
    /\ arg \in [Threads -> Keys \cup {NULL}]
    /\ icount \in [Threads -> 1 .. MaxInsns]
    /\ tb \in [Threads -> TBs \cup {NULL}]
    /\ last_tb \in [Threads -> TBs \cup {NULL}]
    /\ tb_exit \in [Threads -> Slots]
    /\ cur \in [Threads -> TBs \cup {NULL}]
    /\ stale_tb \in SUBSET Threads
    /\ stale_last \in SUBSET Threads

Searching == {"guess", "guess_cs", "find", "find_cs", "mmap", "relock", "slow_cs"}

ThreadInv(t) ==
    /\ tb[t] # NULL => Written(tb[t])
    /\ last_tb[t] # NULL => Written(last_tb[t])
    /\ cur[t] # NULL => Written(cur[t])
    /\ pc[t] \in {"trylock", "load"} => arg[t] \in Keys
    /\ pc[t] \in Searching => State(t) \in Keys
    /\ pc[t] \in {"cache", "cache_cs"} => State(t) \in GuestStates
    /\ pc[t] = "link" => tb[t] # NULL
    /\ pc[t] \in {"link", "run"} => cur[t] # NULL

TypeInv ==
    /\ LockInv
    /\ CacheInv
    /\ ThreadTypeOK
    /\ \A t \in Threads : ThreadInv(t)

(* A TB leads to guest states of the program, or just past them. *)
LEMMA StatesAfterType ==
    ASSUME NEW b, WellFormed(b), NEW exit \in b.exits, NEW k \in StatesAfter(b, exit)
    PROVE  k \in GuestStates
<1> DEFINE last == After(b.key, b.insns - 1)
<1>0. b.key \in Keys /\ b.insns \in 1 .. MaxInsns /\ b.exits = ExitsOf(InsnAt(last))
  BY DEF WellFormed, TBRecord
<1>1. After(b.key, b.insns) \in GuestStates
  BY <1>0 DEF GuestStates
<1>2. exit = 0 => BranchDest[last] \in Keys
  <2>1. exit = 0 => InsnAt(last) = "bcond"
    BY <1>0 DEF ExitsOf, NoSlot
  <2>2. exit = 0 => last \in Keys /\ Kind[last] = "bcond"
    BY <2>1 DEF InsnAt
  <2> HIDE DEF last
  <2> QED
    BY <2>2, GuestAssumption
<1> QED
  BY <1>1, <1>2 DEF StatesAfter, GuestStates

LEMMA TypeInvInit == Init => TypeInv
<1> SUFFICES ASSUME Init PROVE TypeInv
  OBVIOUS
<1>1. LockInv
  BY LockInvInit
<1>2. CacheInv
  BY CacheInvInit DEF Init
<1>3. ThreadTypeOK
  BY ThreadAssumption, MaxInsnsType DEF Init, ThreadTypeOK, Slots
<1>4. \A t \in Threads : ThreadInv(t)
  BY DEF Init, ThreadInv, Searching
<1> QED
  BY <1>1, <1>2, <1>3, <1>4 DEF TypeInv

(* The state of another thread's CPU. *)
LEMMA OtherCpu ==
    ASSUME LockInv, NEW t \in Threads, NEW u \in Threads, u # t, InExec(t),
           NEW v, env' = [env EXCEPT ![cpuid[t]] = v]
    PROVE  InExec(u) => env'[cpuid[u]] = env[cpuid[u]]
<1>1. InExec(u) => cpuid[u] # cpuid[t]
  BY DEF LockInv
<1> QED
  BY <1>1

(* Steps that leave the cache alone. *)
LEMMA CacheUnchanged == CacheInv /\ UNCHANGED cacheVars => CacheInv' /\ \A x : Written(x) <=> Written(x)'
<1> SUFFICES ASSUME CacheInv, UNCHANGED cacheVars
             PROVE  CacheInv' /\ \A x : Written(x) <=> Written(x)'
  OBVIOUS
<1>1. \A x : Written(x) <=> Written(x)'
  BY DEF cacheVars, Written
<1>2. CacheInv'
  BY DEF cacheVars, CacheInv, CacheTypeOK, PointersInv, Written, WellFormed, jmpVars, pageVars
<1> QED
  BY <1>1, <1>2

(* A lookup finds a TB only for states of the program. *)
LEMMA FoundStateInKeys ==
    ASSUME CacheInv, NEW c \in Cpus, NEW k \in GuestStates,
           tb_find_physical(k) # {} \/ JmpCacheLookup(c, k) # NULL
    PROVE  k \in Keys
<1>1. \A x \in htable : tbs[x].key \in Keys
  BY DEF CacheInv, PointersInv, Written, WellFormed, TBRecord
<1>2. CASE tb_find_physical(k) # {}
  BY <1>1, <1>2 DEF tb_find_physical
<1>3. CASE JmpCacheLookup(c, k) # NULL
  <2>1. k.pc \in Nat
    BY GuestAssumption, MaxInsnsType DEF GuestStates, After, InsnSize
  <2>2. Hash(k) \in 0 .. JmpCacheSize - 1
    BY <2>1, CacheAssumption DEF Hash
  <2>3. /\ tb_jmp_cache[c][Hash(k)] # NULL
        /\ tbs[tb_jmp_cache[c][Hash(k)]].key = k
    BY <1>3 DEF JmpCacheLookup
  <2> QED
    BY <1>1, <2>2, <2>3 DEF CacheInv, PointersInv
<1> QED
  BY <1>2, <1>3

LEMMA TypeInvStep == TypeInv /\ [Next]_vars => TypeInv'
<1> SUFFICES ASSUME TypeInv, [Next]_vars PROVE TypeInv'
  OBVIOUS
<1> USE DEF TypeInv
<1>0. LockInv /\ LockTypeOK /\ LockInv'
  BY LockInvStep DEF LockInv
<1>00. MaxInsns \in Nat /\ MaxInsns >= 1
  BY MaxInsnsType
<1>1. ASSUME NEW t \in Threads, NEW k \in Keys, Call(t, k) PROVE TypeInv'
  <2>1. CacheInv' /\ \A x : Written(x) <=> Written(x)'
    BY <1>1, CacheUnchanged DEF Call
  <2>2. ThreadTypeOK'
    BY <1>1, ThreadAssumption DEF Call, ThreadTypeOK
  <2>3. ASSUME NEW u \in Threads PROVE ThreadInv(u)'
    BY <1>0, <1>1, <2>1 DEF Call, ThreadTypeOK, LockTypeOK, ThreadInv, State, Goto, Searching
  <2> QED
    BY <1>0, <2>1, <2>2, <2>3
<1>2. ASSUME NEW t \in Threads, TryLock(t) PROVE TypeInv'
  <2>1. CacheInv' /\ \A x : Written(x) <=> Written(x)'
    BY <1>2, CacheUnchanged DEF TryLock
  <2>2. ThreadTypeOK'
    BY <1>2 DEF TryLock, ThreadTypeOK
  <2>3. ASSUME NEW u \in Threads PROVE ThreadInv(u)'
    <3>1. /\ pc[t] = "trylock"
          /\ \/ pc' = [pc EXCEPT ![t] = "load"] /\ cpuid' = cpuid
             \/ pc' = pc /\ cpuid' = [cpuid EXCEPT ![t] = (@ + 1) % N_CPUS]
          /\ UNCHANGED <<env, arg, tb, last_tb, cur>>
      BY <1>2 DEF TryLock, Goto
    <3>2. CASE pc' = [pc EXCEPT ![t] = "load"] /\ cpuid' = cpuid
      BY <1>0, <2>1, <3>1, <3>2 DEF LockTypeOK, ThreadInv, State, Searching
    <3>3. CASE pc' = pc /\ cpuid' = [cpuid EXCEPT ![t] = (@ + 1) % N_CPUS]
      BY <1>0, <2>1, <3>1, <3>3 DEF LockTypeOK, ThreadInv, State, Searching
    <3> QED
      BY <3>1, <3>2, <3>3
  <2> QED
    BY <1>0, <2>1, <2>2, <2>3
<1>3. ASSUME NEW t \in Threads, Load(t) PROVE TypeInv'
  <2>0. cpuid[t] \in Cpus /\ arg[t] \in Keys
    BY <1>0, <1>3 DEF LockTypeOK, Load, ThreadInv
  <2>1. CacheInv'
    BY <1>3, <2>0, FlushedFlagInv DEF Load
  <2>2. \A x : Written(x) <=> Written(x)'
    BY <1>3 DEF Load, Written
  <2>3. ThreadTypeOK'
    BY <1>3, <2>0 DEF Load, ThreadTypeOK, GuestStates, localVars
  <2>4. ASSUME NEW u \in Threads PROVE ThreadInv(u)'
    <3>1. /\ pc[t] = "load" /\ pc' = [pc EXCEPT ![t] = "guess"]
          /\ env' = [env EXCEPT ![cpuid[t]] = arg[t]]
          /\ UNCHANGED <<arg, cpuid, tb, last_tb, cur>>
      BY <1>3 DEF Load, Goto, localVars
    <3>2. u # t /\ pc[u] \in Searching \cup {"cache", "cache_cs"} => env'[cpuid[u]] = env[cpuid[u]]
      BY <1>0, <3>1, OtherCpu DEF InExec, Searching
    <3> QED
      BY <1>0, <2>0, <2>2, <3>1, <3>2 DEF LockTypeOK, ThreadTypeOK, ThreadInv, State, Searching
  <2> QED
    BY <1>0, <2>1, <2>3, <2>4
<1>4. ASSUME NEW t \in Threads, Lock(t) PROVE TypeInv'
  <2>0. /\ UNCHANGED <<cacheVars, calls, env, localVars, stale_tb, stale_last>>
        /\ \E l \in PCs, m \in PCs :
              /\ pc[t] = l /\ pc' = [pc EXCEPT ![t] = m]
              /\ m \in Searching => l \in Searching
              /\ m \in {"cache", "cache_cs"} => l \in {"cache", "cache_cs"}
              /\ m \notin {"trylock", "load", "link", "run"}
    BY <1>4 DEF Lock, TbLock, Goto, PCs, Searching
  <2>1. CacheInv' /\ \A x : Written(x) <=> Written(x)'
    BY <2>0, CacheUnchanged
  <2>2. ThreadTypeOK'
    BY <2>0 DEF ThreadTypeOK, localVars
  <2>3. ASSUME NEW u \in Threads PROVE ThreadInv(u)'
    BY <1>0, <2>0, <2>1 DEF LockTypeOK, ThreadInv, State, localVars
  <2> QED
    BY <1>0, <2>1, <2>2, <2>3
<1>5. ASSUME NEW t \in Threads, GuessIcount(t) PROVE TypeInv'
  <2>0. State(t) \in Keys
    BY <1>5 DEF GuessIcount, ThreadInv, Searching
  <2>1. CacheInv' /\ \A x : Written(x) <=> Written(x)'
    BY <1>5, CacheUnchanged DEF GuessIcount
  <2>2. ThreadTypeOK'
    <3>1. neon_icount(State(t)) \in 1 .. MaxInsns
      BY <2>0, NeonIcountType
    <3> QED
      BY <1>00, <1>5, <3>1 DEF GuessIcount, ThreadTypeOK
  <2>3. ASSUME NEW u \in Threads PROVE ThreadInv(u)'
    BY <1>0, <1>5, <2>1 DEF GuessIcount, Goto, LockTypeOK, ThreadInv, State, Searching
  <2> QED
    BY <1>0, <2>1, <2>2, <2>3
<1>6. ASSUME NEW t \in Threads, FindInJmpCache(t) PROVE TypeInv'
  <2> DEFINE x == JmpCacheLookup(cpuid[t], State(t))
  <2>0. State(t) \in Keys /\ cpuid[t] \in Cpus /\ x # NULL
    BY <1>0, <1>6 DEF FindInJmpCache, ThreadInv, Searching, LockTypeOK
  <2>00. Written(x) /\ x \in TBs
    BY <2>0, JmpCacheHit DEF CacheInv, PointersInv, Written
  <2>000. Found(t, x)
    BY <1>6 DEF FindInJmpCache
  <2> HIDE DEF x
  <2>1. CacheInv' /\ \A y : Written(y) <=> Written(y)'
    BY <1>6, CacheUnchanged DEF FindInJmpCache
  <2>2. ThreadTypeOK'
    BY <1>00, <1>6, <2>00, <2>000 DEF FindInJmpCache, Found, ThreadTypeOK
  <2>3. ASSUME NEW u \in Threads PROVE ThreadInv(u)'
    BY <1>0, <1>6, <2>0, <2>00, <2>000, <2>1
       DEF FindInJmpCache, Found, Goto, LockTypeOK, ThreadTypeOK, ThreadInv, State, Searching
  <2> QED
    BY <1>0, <2>1, <2>2, <2>3
<1>7. ASSUME NEW t \in Threads, FindInHtable(t) PROVE TypeInv'
  <2>0. State(t) \in Keys /\ cpuid[t] \in Cpus
    BY <1>0, <1>7 DEF FindInHtable, ThreadInv, Searching, LockTypeOK
  <2>00. PICK x \in htable : /\ tb_jmp_cache' = JmpCacheEnter(cpuid[t], State(t), x)
                             /\ Found(t, x)
    BY <1>7 DEF FindInHtable, tb_find_physical
  <2>000. Written(x) /\ x \in TBs /\ x # NULL
    BY CacheAssumption DEF CacheInv, PointersInv, Written
  <2>1. CacheInv'
    BY <1>7, <2>0, <2>00, JmpCacheEnterInv DEF FindInHtable
  <2>2. \A y : Written(y) <=> Written(y)'
    BY <1>7 DEF FindInHtable, Written
  <2>3. ThreadTypeOK'
    BY <1>00, <1>7, <2>00, <2>000 DEF FindInHtable, Found, ThreadTypeOK
  <2>4. ASSUME NEW u \in Threads PROVE ThreadInv(u)'
    <3>1. UNCHANGED <<env, arg, cpuid, last_tb>>
      BY <1>7 DEF FindInHtable
    <3> QED
      BY <1>0, <3>1, <2>00, <2>000, <2>2
         DEF Found, Goto, LockTypeOK, ThreadTypeOK, ThreadInv, State, Searching
  <2> QED
    BY <1>0, <2>1, <2>3, <2>4
<1>8. ASSUME NEW t \in Threads, FindMiss(t) PROVE TypeInv'
  <2>1. CacheInv' /\ \A x : Written(x) <=> Written(x)'
    BY <1>8, CacheUnchanged DEF FindMiss
  <2>2. ThreadTypeOK'
    BY <1>8 DEF FindMiss, ThreadTypeOK, localVars
  <2>3. ASSUME NEW u \in Threads PROVE ThreadInv(u)'
    BY <1>0, <1>8, <2>1 DEF FindMiss, Goto, LockTypeOK, ThreadInv, State, Searching, localVars
  <2> QED
    BY <1>0, <2>1, <2>2, <2>3
<1>9. ASSUME NEW t \in Threads, MmapLock(t) PROVE TypeInv'
  <2>1. CacheInv' /\ \A x : Written(x) <=> Written(x)'
    BY <1>9, CacheUnchanged DEF MmapLock
  <2>2. ThreadTypeOK'
    BY <1>9 DEF MmapLock, ThreadTypeOK, localVars
  <2>3. ASSUME NEW u \in Threads PROVE ThreadInv(u)'
    BY <1>0, <1>9, <2>1 DEF MmapLock, Goto, LockTypeOK, ThreadInv, State, Searching, localVars
  <2> QED
    BY <1>0, <2>1, <2>2, <2>3
<1>10. ASSUME NEW t \in Threads, GenFlush(t) PROVE TypeInv'
  <2>1. CacheInv'
    BY <1>10, TbFlushInv DEF GenFlush
  <2>2. \A x : Written(x) <=> Written(x)'
    BY <1>10 DEF GenFlush, TbFlush, Written
  <2>3. ThreadTypeOK'
    BY <1>10 DEF GenFlush, ThreadTypeOK, localVars
  <2>4. ASSUME NEW u \in Threads PROVE ThreadInv(u)'
    BY <1>10, <2>2 DEF GenFlush, ThreadInv, State, localVars
  <2> QED
    BY <1>0, <2>1, <2>3, <2>4
<1>11. ASSUME NEW t \in Threads, GenCode(t) PROVE TypeInv'
  <2>0. State(t) \in Keys /\ cpuid[t] \in Cpus /\ icount[t] \in 1 .. MaxInsns
    BY <1>0, <1>11 DEF GenCode, ThreadInv, Searching, LockTypeOK, ThreadTypeOK
  <2>00. /\ TbGenCode(State(t), icount[t]) /\ Found(t, nb_tbs)
         /\ tb_jmp_cache' = JmpCacheEnter(cpuid[t], State(t), nb_tbs)
         /\ UNCHANGED <<tb_flushed, env, arg, cpuid, last_tb>>
    BY <1>11 DEF GenCode
  <2>000. nb_tbs \in TBs /\ nb_tbs # NULL /\ WellFormed(tbs'[nb_tbs])
    BY <2>0, <2>00, TbGenCodeEntry, CacheAssumption
  <2>1. CacheInv' /\ \A x : Written(x) => Written(x)'
    BY <2>0, <2>00, TbGenCodeInv
  <2>2. ThreadTypeOK'
    BY <1>00, <1>11, <2>00, <2>000 DEF GenCode, Found, ThreadTypeOK
  <2>3. ASSUME NEW u \in Threads PROVE ThreadInv(u)'
    <3>1. ASSUME NEW x \in TBs, x = nb_tbs PROVE Written(x)'
      BY <2>000, <3>1 DEF Written
    <3>2. /\ pc' = [pc EXCEPT ![t] = "link"] /\ tb' = [tb EXCEPT ![t] = nb_tbs]
          /\ cur' = [cur EXCEPT ![t] = nb_tbs]
      BY <2>00 DEF Found, Goto
    <3>3. /\ tb'[u] = IF u = t THEN nb_tbs ELSE tb[u]
          /\ cur'[u] = IF u = t THEN nb_tbs ELSE cur[u]
          /\ pc'[u] = IF u = t THEN "link" ELSE pc[u]
      BY <1>0, <3>2 DEF LockTypeOK, ThreadTypeOK
    <3>4. (tb'[u] # NULL => Written(tb[u])') /\ (cur'[u] # NULL => Written(cur[u])')
      BY <2>000, <2>1, <3>1, <3>3 DEF ThreadInv, ThreadTypeOK
    <3>5. last_tb'[u] # NULL => Written(last_tb[u])'
      <4>1. last_tb'[u] = last_tb[u] /\ (last_tb[u] # NULL => Written(last_tb[u]))
        BY <2>00 DEF ThreadInv
      <4> QED
        BY <2>1, <4>1
    <3> QED
      BY <2>00, <2>000, <3>3, <3>4, <3>5 DEF ThreadInv, State, Searching
  <2> QED
    BY <1>0, <2>1, <2>2, <2>3
<1>12. ASSUME NEW t \in Threads, Link(t) PROVE TypeInv'
  <2>0. /\ pc[t] = "link" /\ pc' = [pc EXCEPT ![t] = "run"]
        /\ tb_flushed' = [tb_flushed EXCEPT ![cpuid[t]] = FALSE]
        /\ last_tb' = [last_tb EXCEPT ![t] = NULL]
        /\ stale_last' = stale_last \ {t}
        /\ UNCHANGED <<nb_tbs, code_gen_ptr, tbs, htable, tb_jmp_cache, pageVars, calls, env,
                       arg, cpuid, icount, tb, tb_exit, cur, stale_tb>>
    BY <1>12 DEF Link, Goto
  <2>1. cpuid[t] \in Cpus /\ tb_exit[t] \in Slots /\ Written(tb[t]) /\ cur[t] # NULL
    BY <1>0, <2>0 DEF LockTypeOK, ThreadTypeOK, ThreadInv
  <2>2. \A x : Written(x) <=> Written(x)'
    BY <2>0 DEF Written
  <2>3. CacheInv'
    <3>1. CASE MayChain(t)
      <4>1. TbAddJump(last_tb[t], tb_exit[t], tb[t]) /\ Written(last_tb[t])
        BY <1>12, <3>1 DEF Link, MayChain, ThreadInv
      <4>2. /\ jmp' \in [JmpFields -> JmpFields \cup {NULL}]
            /\ target' \in [JmpSlots -> TBs \cup {NULL}]
            /\ stray' \in SUBSET TBs
            /\ \A f \in JmpSlots : target'[f] \in {target[f], tb[t]}
        BY <2>1, <4>1, TbAddJumpInv
      <4>3. CacheTypeOK'
        BY <2>0, <2>1, <4>2 DEF CacheInv, CacheTypeOK, pageVars
      <4>4. \A f \in JmpSlots : target'[f] # NULL => Written(target[f])'
        BY <2>0, <2>1, <4>2 DEF CacheInv, PointersInv, Written, WellFormed
      <4> QED
        BY <2>0, <2>2, <4>3, <4>4 DEF CacheInv, PointersInv
    <3>2. CASE ~ MayChain(t)
      <4>1. UNCHANGED jmpVars
        BY <1>12, <3>2 DEF Link
      <4> QED
        BY <2>0, <2>1, <4>1, FlushedFlagInv
    <3> QED
      BY <3>1, <3>2
  <2>4. ThreadTypeOK'
    BY <2>0 DEF ThreadTypeOK
  <2>5. ASSUME NEW u \in Threads PROVE ThreadInv(u)'
    BY <1>0, <2>0, <2>1, <2>2 DEF LockTypeOK, ThreadTypeOK, ThreadInv, State, Searching
  <2> QED
    BY <1>0, <2>3, <2>4, <2>5
<1>13. ASSUME NEW t \in Threads, RunTB(t) PROVE TypeInv'
  <2>0. /\ pc[t] = "run" /\ InExec(t) /\ cpuid[t] \in Cpus
        /\ cur[t] # NULL /\ Written(cur[t])
        /\ UNCHANGED <<cacheVars, calls, arg, cpuid, icount, tb, last_tb, stale_tb, stale_last>>
    BY <1>0, <1>13 DEF RunTB, runFrame, ThreadInv, LockTypeOK, InExec
  <2>1. CacheInv' /\ \A x : Written(x) <=> Written(x)'
    BY <2>0, CacheUnchanged
  <2>2. PICK exit \in tbs[cur[t]].exits :
          /\ \E k \in StatesAfter(tbs[cur[t]], exit) : env' = [env EXCEPT ![cpuid[t]] = k]
          /\ LET next == IF exit = NoSlot THEN NULL ELSE target[<<cur[t], exit>>]
             IN  IF next # NULL
                 THEN /\ cur' = [cur EXCEPT ![t] = next]
                      /\ UNCHANGED <<pc, tb_exit>>
                 ELSE /\ cur' = [cur EXCEPT ![t] = NULL]
                      /\ tb_exit' = [tb_exit EXCEPT ![t] = IF exit = NoSlot THEN 0 ELSE exit]
                      /\ Goto(t, "cache")
    BY <1>13 DEF RunTB
  <2>3. PICK k \in GuestStates : env' = [env EXCEPT ![cpuid[t]] = k]
    BY <2>0, <2>2, StatesAfterType DEF Written
  <2>4. exit \in {NoSlot, 0, 1} /\ cur[t] \in TBs
    BY <2>0 DEF Written, WellFormed, TBRecord
  <2> DEFINE next == IF exit = NoSlot THEN NULL ELSE target[<<cur[t], exit>>]
  <2>5. next # NULL => Written(next)
    BY <2>4 DEF CacheInv, PointersInv, JmpSlots, Slots
  <2>6. \/ next # NULL /\ cur' = [cur EXCEPT ![t] = next] /\ UNCHANGED <<pc, tb_exit>>
        \/ /\ cur' = [cur EXCEPT ![t] = NULL] /\ pc' = [pc EXCEPT ![t] = "cache"]
           /\ \E n \in Slots : tb_exit' = [tb_exit EXCEPT ![t] = n]
    BY <2>2, <2>4 DEF Goto, Slots
  <2> HIDE DEF next
  <2>7. ThreadTypeOK'
    <3>1. env' \in [Cpus -> GuestStates \cup {NULL}]
      BY <2>3 DEF ThreadTypeOK
    <3>2. cur' \in [Threads -> TBs \cup {NULL}] /\ tb_exit' \in [Threads -> Slots]
      BY <2>5, <2>6 DEF ThreadTypeOK, Written
    <3> QED
      BY <2>0, <3>1, <3>2 DEF ThreadTypeOK
  <2>8. ASSUME NEW u \in Threads PROVE ThreadInv(u)'
    <3>1. u # t /\ pc[u] \in Searching \cup {"cache", "cache_cs"} => env'[cpuid[u]] = env[cpuid[u]]
      BY <1>0, <2>0, <2>3, OtherCpu DEF InExec, Searching
    <3>2. CASE next # NULL /\ cur' = [cur EXCEPT ![t] = next] /\ UNCHANGED <<pc, tb_exit>>
      BY <2>0, <2>1, <2>5, <3>1, <3>2 DEF ThreadTypeOK, ThreadInv, State, Searching
    <3>3. CASE cur' = [cur EXCEPT ![t] = NULL] /\ pc' = [pc EXCEPT ![t] = "cache"]
      BY <1>0, <2>0, <2>1, <2>3, <3>1, <3>3 DEF LockTypeOK, ThreadTypeOK, ThreadInv, State, Searching
    <3> QED
      BY <2>6, <3>2, <3>3
  <2> QED
    BY <1>0, <2>1, <2>7, <2>8
<1>14. ASSUME NEW t \in Threads, RunUndefined(t) PROVE TypeInv'
  <2>0. /\ pc[t] = "run" /\ pc' = [pc EXCEPT ![t] = "cache"] /\ InExec(t) /\ cpuid[t] \in Cpus
        /\ cur' = [cur EXCEPT ![t] = NULL]
        /\ UNCHANGED <<cacheVars, calls, arg, cpuid, icount, tb, last_tb, stale_tb, stale_last>>
    BY <1>0, <1>14 DEF RunUndefined, runFrame, Goto, LockTypeOK, InExec
  <2>1. CacheInv' /\ \A x : Written(x) <=> Written(x)'
    BY <2>0, CacheUnchanged
  <2>2. PICK k \in GuestStates : env' = [env EXCEPT ![cpuid[t]] = k]
    BY <1>14 DEF RunUndefined
  <2>3. PICK n \in Slots : tb_exit' = [tb_exit EXCEPT ![t] = n]
    BY <1>14 DEF RunUndefined
  <2>4. ThreadTypeOK'
    BY <2>0, <2>2, <2>3 DEF ThreadTypeOK
  <2>5. ASSUME NEW u \in Threads PROVE ThreadInv(u)'
    <3>1. u # t /\ pc[u] \in Searching \cup {"cache", "cache_cs"} => env'[cpuid[u]] = env[cpuid[u]]
      BY <1>0, <2>0, <2>2, OtherCpu DEF InExec, Searching
    <3> QED
      BY <1>0, <2>0, <2>1, <2>2, <3>1 DEF LockTypeOK, ThreadTypeOK, ThreadInv, State, Searching
  <2> QED
    BY <1>0, <2>1, <2>4, <2>5
<1>15. ASSUME NEW t \in Threads, FromCache(t) PROVE TypeInv'
  <2>0. /\ pc[t] = "cache_cs"
        /\ UNCHANGED <<cacheVars, calls, env, arg, cpuid, icount, tb, tb_exit, cur, stale_tb>>
    BY <1>15 DEF FromCache
  <2>1. CacheInv' /\ \A x : Written(x) <=> Written(x)'
    BY <2>0, CacheUnchanged
  <2>2. \/ /\ tb_find_physical(State(t)) # {} \/ JmpCacheLookup(cpuid[t], State(t)) # NULL
           /\ last_tb' = [last_tb EXCEPT ![t] = tb[t]]
           /\ stale_last' = IF t \in stale_tb THEN stale_last \cup {t} ELSE stale_last
           /\ pc' = [pc EXCEPT ![t] = "guess"]
        \/ UNCHANGED <<last_tb, stale_last>> /\ pc' = [pc EXCEPT ![t] = "return"]
    BY <1>15 DEF FromCache, Goto
  <2>3. ThreadTypeOK'
    BY <2>0, <2>2 DEF ThreadTypeOK
  <2>4. ASSUME NEW u \in Threads PROVE ThreadInv(u)'
    <3>1. CASE /\ tb_find_physical(State(t)) # {} \/ JmpCacheLookup(cpuid[t], State(t)) # NULL
               /\ last_tb' = [last_tb EXCEPT ![t] = tb[t]]
               /\ pc' = [pc EXCEPT ![t] = "guess"]
      <4>1. State(t) \in Keys
        BY <1>0, <2>0, <3>1, FoundStateInKeys DEF LockTypeOK, ThreadInv
      <4> QED
        BY <1>0, <2>0, <2>1, <3>1, <4>1 DEF LockTypeOK, ThreadTypeOK, ThreadInv, State, Searching
    <3>2. CASE UNCHANGED last_tb /\ pc' = [pc EXCEPT ![t] = "return"]
      BY <1>0, <2>0, <2>1, <3>2 DEF LockTypeOK, ThreadTypeOK, ThreadInv, State, Searching
    <3> QED
      BY <2>2, <3>1, <3>2
  <2> QED
    BY <1>0, <2>1, <2>3, <2>4
<1>16. ASSUME NEW t \in Threads, Return(t) PROVE TypeInv'
  <2>1. CacheInv' /\ \A x : Written(x) <=> Written(x)'
    BY <1>16, CacheUnchanged DEF Return
  <2>2. ThreadTypeOK'
    BY <1>16 DEF Return, ThreadTypeOK, Slots
  <2>3. ASSUME NEW u \in Threads PROVE ThreadInv(u)'
    BY <1>0, <1>16, <2>1
       DEF Return, Goto, LockTypeOK, ThreadTypeOK, ThreadInv, State, Searching
  <2> QED
    BY <1>0, <2>1, <2>2, <2>3
<1>17. CASE UNCHANGED vars
  <2>1. CacheInv' /\ \A x : Written(x) <=> Written(x)'
    BY <1>17, CacheUnchanged DEF vars
  <2>2. ThreadTypeOK'
    BY <1>17 DEF vars, ThreadTypeOK, localVars
  <2>3. ASSUME NEW u \in Threads PROVE ThreadInv(u)'
    BY <1>17, <2>1 DEF vars, ThreadInv, State, localVars
  <2> QED
    BY <1>0, <2>1, <2>2, <2>3
<1> QED
  BY <1>1, <1>2, <1>3, <1>4, <1>5, <1>6, <1>7, <1>8, <1>9, <1>10, <1>11, <1>12, <1>13,
     <1>14, <1>15, <1>16, <1>17 DEF Next, Step, Finished

(* TypeOK holds of every reachable state: in particular no thread ever     *)

(* follows a TB pointer to an entry of tbs[] that was not written, and the *)
(* counters of the cache stay within its limits.                           *)
THEOREM TypeCorrect == Spec => []TypeOK
<1>1. TypeInv => TypeOK
  BY DEF TypeInv, TypeOK, LockInv, LockTypeOK, CacheInv, ThreadTypeOK
<1>2. Spec => []TypeInv
  BY TypeInvInit, TypeInvStep, PTL DEF Spec
<1> QED
  BY <1>1, <1>2, PTL

-----------------------------------------------------------------------------
(* What survives a flush of the cache by another thread: a thread never    *)
(* chains a TB that it found before the flush, the hash table and the jump *)
(* caches agree, and code that can be looked up never jumps to code that   *)
(* cannot.                                                                 *)

(* The cache: entries of the hash table were handed out since the last     *)
(* flush, one for each guest state, and point to each other only.          *)
HtableBelow == \A x \in htable : x < nb_tbs
ChainsLive == \A x \in htable, n \in Slots : target[<<x, n>>] \in htable \cup {NULL}

CacheLive == HtableBelow /\ OneTBPerKey /\ JmpCacheCoherent /\ ChainsLive

(* A thread's TB pointers: stale ones are marked by tb_flushed of its CPU  *)
(* until they are dropped, the others are in the hash table.               *)
PointersLive(t) ==
    /\ pc[t] \in {"idle", "trylock", "load"} => tb[t] = NULL
    /\ pc[t] \in {"idle", "trylock", "load", "run", "cache", "cache_cs", "return"}
            => last_tb[t] = NULL
    /\ pc[t] = "link" => t \notin stale_tb
    /\ t \in stale_tb => tb[t] # NULL
    /\ t \in stale_last => last_tb[t] # NULL
    /\ t \in stale_tb \cup stale_last => tb_flushed[cpuid[t]]
    /\ tb[t] # NULL /\ t \notin stale_tb => tb[t] \in htable
    /\ last_tb[t] # NULL /\ t \notin stale_last => last_tb[t] \in htable

LiveInv == CacheLive /\ \A t \in Threads : PointersLive(t)

LEMMA LiveInvInit == Init => LiveInv
<1> SUFFICES ASSUME Init PROVE LiveInv
  OBVIOUS
<1>1. CacheLive
  BY DEF Init, CacheInit, CacheLive, HtableBelow, OneTBPerKey, JmpCacheCoherent, ChainsLive,
         EmptyJmpCache
<1>2. \A t \in Threads : PointersLive(t)
  BY DEF Init, PointersLive
<1> QED
  BY <1>1, <1>2 DEF LiveInv

(* Steps that change neither the TBs nor who points to them. *)
LEMMA CacheLiveUnchanged ==
    CacheLive /\ UNCHANGED <<nb_tbs, tbs, htable, tb_jmp_cache, target>> => CacheLive'
BY DEF CacheLive, HtableBelow, OneTBPerKey, JmpCacheCoherent, ChainsLive

LEMMA CacheLiveEnter ==
    ASSUME TypeInv, CacheLive, NEW c \in Cpus, NEW k \in Keys, NEW x \in htable, tbs[x].key = k,
           tb_jmp_cache' = JmpCacheEnter(c, k, x),
           UNCHANGED <<nb_tbs, tbs, htable, target>>
    PROVE  CacheLive'
<1>1. tb_jmp_cache \in [Cpus -> [0 .. JmpCacheSize - 1 -> TBs \cup {NULL}]]
  BY DEF TypeInv, CacheInv, CacheTypeOK
<1>2. \A d \in Cpus, h \in 0 .. JmpCacheSize - 1 :
          \/ tb_jmp_cache'[d][h] = tb_jmp_cache[d][h]
          \/ tb_jmp_cache'[d][h] = x /\ h = Hash(k)
  BY <1>1, HashType DEF JmpCacheEnter
<1>3. JmpCacheCoherent'
  BY <1>2 DEF CacheLive, JmpCacheCoherent, Hash
<1> QED
  BY <1>3 DEF CacheLive, HtableBelow, OneTBPerKey, ChainsLive

LEMMA CacheLiveGen ==
    ASSUME TypeInv, CacheLive, NEW c \in Cpus, NEW k \in Keys, NEW count \in 1 .. MaxInsns,
           tb_find_physical(k) = {}, TbGenCode(k, count),
           tb_jmp_cache' = JmpCacheEnter(c, k, nb_tbs)
    PROVE  CacheLive'
<1>0. /\ CacheInv /\ htable \in SUBSET TBs /\ target \in [JmpSlots -> TBs \cup {NULL}]
      /\ tb_jmp_cache \in [Cpus -> [0 .. JmpCacheSize - 1 -> TBs \cup {NULL}]]
  BY DEF TypeInv, CacheInv, CacheTypeOK
<1>1. /\ nb_tbs \in TBs /\ nb_tbs' = nb_tbs + 1
      /\ tbs'[nb_tbs].key = k
      /\ \A x \in TBs : x # nb_tbs => tbs'[x] = tbs[x]
      /\ htable' = htable \cup {nb_tbs}
      /\ target' = [target EXCEPT ![<<nb_tbs, 0>>] = NULL, ![<<nb_tbs, 1>>] = NULL]
  BY <1>0, TbGenCodeEntry, TbGenCodeLists
<1>2. nb_tbs \in Nat /\ \A x \in TBs : x \in Nat
  BY <1>1, CacheAssumption DEF TBs
<1>3. \A x \in htable : x # nb_tbs /\ x \in TBs /\ tbs'[x] = tbs[x]
  BY <1>0, <1>1, <1>2 DEF CacheLive, HtableBelow
<1>4. HtableBelow'
  BY <1>0, <1>1, <1>2 DEF CacheLive, HtableBelow
<1>5. OneTBPerKey'
  <2>1. \A x \in htable : tbs'[x].key # k
    BY <1>3 DEF tb_find_physical
  <2> QED
    BY <1>1, <1>3, <2>1 DEF CacheLive, OneTBPerKey
<1>6. JmpCacheCoherent'
  <2>1. \A d \in Cpus, h \in 0 .. JmpCacheSize - 1 :
            \/ tb_jmp_cache'[d][h] = tb_jmp_cache[d][h]
            \/ tb_jmp_cache'[d][h] = nb_tbs /\ h = Hash(k)
    BY <1>0, HashType DEF JmpCacheEnter
  <2> QED
    BY <1>1, <1>3, <2>1 DEF CacheLive, JmpCacheCoherent, Hash
<1>7. ChainsLive'
  <2>1. \A n \in Slots : target'[<<nb_tbs, n>>] = NULL
    <3>1. <<nb_tbs, 0>> \in JmpSlots /\ <<nb_tbs, 1>> \in JmpSlots
      BY <1>1 DEF JmpSlots, Slots
    <3> QED
      BY <1>0, <1>1, <3>1 DEF Slots
  <2>2. \A x \in htable, n \in Slots : target'[<<x, n>>] = target[<<x, n>>]
    BY <1>0, <1>1, <1>3 DEF JmpSlots, Slots
  <2>3. htable' = htable \cup {nb_tbs}
    BY <1>1
  <2> QED
    BY <2>1, <2>2, <2>3 DEF CacheLive, ChainsLive
<1> QED
  BY <1>4, <1>5, <1>6, <1>7 DEF CacheLive

LEMMA CacheLiveFlush == TbFlush => CacheLive'
<1> SUFFICES ASSUME TbFlush PROVE CacheLive'
  OBVIOUS
<1>1. htable' = {} /\ tb_jmp_cache' = EmptyJmpCache
  BY DEF TbFlush, JmpCachesFlushed
<1> QED
  BY <1>1 DEF CacheLive, HtableBelow, OneTBPerKey, JmpCacheCoherent, ChainsLive, EmptyJmpCache

LEMMA CacheLiveAddJump ==
    ASSUME TypeInv, CacheLive, NEW x \in htable, NEW n \in Slots, NEW d \in htable,
           TbAddJump(x, n, d), UNCHANGED <<nb_tbs, tbs, htable, tb_jmp_cache>>
    PROVE  CacheLive'
<1>1. \A f \in JmpSlots : target'[f] \in {target[f], d}
  BY TbAddJumpInv DEF TypeInv, CacheInv, PointersInv
<1>2. \A y \in htable, m \in Slots : <<y, m>> \in JmpSlots
  BY DEF TypeInv, CacheInv, CacheTypeOK, JmpSlots
<1> QED
  BY <1>1, <1>2 DEF CacheLive, HtableBelow, OneTBPerKey, JmpCacheCoherent, ChainsLive

(* Two threads inside exec() use different CPUs. *)
LEMMA CpusDiffer ==
    ASSUME LockInv, NEW t \in Threads, NEW u \in Threads, u # t, InExec(t), InExec(u)
    PROVE  cpuid[u] # cpuid[t] /\ cpuid[u] \in Cpus
BY DEF LockInv, LockTypeOK

(* Steps of t that change no TB pointer and no flag. *)
LEMMA PointersLiveMove ==
    ASSUME TypeInv, \A u \in Threads : PointersLive(u), NEW t \in Threads,
           NEW label, pc' = [pc EXCEPT ![t] = label],
           label \notin {"idle", "trylock", "load", "link"},
           label \in {"run", "cache", "cache_cs", "return"} => last_tb[t] = NULL,
           UNCHANGED <<htable, tb_flushed, cpuid, tb, last_tb, stale_tb, stale_last>>
    PROVE  \A u \in Threads : PointersLive(u)'
<1> SUFFICES ASSUME NEW u \in Threads PROVE PointersLive(u)'
  OBVIOUS
<1>1. pc'[u] = IF u = t THEN label ELSE pc[u]
  BY DEF TypeInv, LockInv, LockTypeOK
<1> QED
  BY <1>1 DEF PointersLive

(* The TB found takes the place of the one entered before. *)
LEMMA PointersLiveFound ==
    ASSUME TypeInv, \A u \in Threads : PointersLive(u), NEW t \in Threads, NEW x \in htable',
           pc[t] \in {"find_cs", "slow_cs"}, Found(t, x), stale_tb' = stale_tb \ {t},
           htable \subseteq htable',
           UNCHANGED <<tb_flushed, cpuid, last_tb, stale_last>>
    PROVE  \A u \in Threads : PointersLive(u)'
<1> SUFFICES ASSUME NEW u \in Threads PROVE PointersLive(u)'
  OBVIOUS
<1>1. /\ pc'[u] = IF u = t THEN "link" ELSE pc[u]
      /\ tb'[u] = IF u = t THEN x ELSE tb[u]
  BY DEF Found, Goto, TypeInv, LockInv, LockTypeOK, ThreadTypeOK
<1>2. CASE u = t
  BY <1>1, <1>2 DEF PointersLive
<1>3. CASE u # t
  BY <1>1, <1>3 DEF PointersLive
<1> QED
  BY <1>2, <1>3

LEMMA LiveInvStep == TypeInv /\ LiveInv /\ [Next]_vars => LiveInv'
<1> SUFFICES ASSUME TypeInv, LiveInv, [Next]_vars PROVE LiveInv'
  OBVIOUS
<1>0. /\ CacheLive /\ \A u \in Threads : PointersLive(u)
      /\ LockInv /\ LockTypeOK /\ CacheInv /\ ThreadTypeOK
      /\ \A u \in Threads : ThreadInv(u)
  BY DEF LiveInv, TypeInv, LockInv
<1>1. ASSUME NEW t \in Threads, NEW k \in Keys, Call(t, k) PROVE LiveInv'
  <2>1. CacheLive'
    BY <1>0, <1>1, CacheLiveUnchanged DEF Call, cacheVars, jmpVars
  <2>2. ASSUME NEW u \in Threads PROVE PointersLive(u)'
    BY <1>0, <1>1 DEF Call, Goto, cacheVars, LockTypeOK, PointersLive
  <2> QED
    BY <2>1, <2>2 DEF LiveInv
<1>2. ASSUME NEW t \in Threads, TryLock(t) PROVE LiveInv'
  <2>1. CacheLive'
    BY <1>0, <1>2, CacheLiveUnchanged DEF TryLock, cacheVars, jmpVars
  <2>2. ASSUME NEW u \in Threads PROVE PointersLive(u)'
    <3>1. /\ pc[t] = "trylock"
          /\ pc'[u] = pc[u] \/ (u = t /\ pc'[u] = "load")
          /\ u # t => cpuid'[u] = cpuid[u]
          /\ UNCHANGED <<htable, tb_flushed, tb, last_tb, stale_tb, stale_last>>
      BY <1>0, <1>2 DEF TryLock, Goto, cacheVars, LockTypeOK
    <3>2. u = t => tb[u] = NULL /\ last_tb[u] = NULL /\ u \notin stale_tb /\ u \notin stale_last
      BY <1>0, <3>1 DEF PointersLive
    <3>3. CASE u = t
      BY <3>1, <3>2, <3>3 DEF PointersLive
    <3>4. CASE u # t
      BY <1>0, <3>1, <3>4 DEF PointersLive
    <3> QED
      BY <3>3, <3>4
  <2> QED
    BY <2>1, <2>2 DEF LiveInv
<1>3. ASSUME NEW t \in Threads, Load(t) PROVE LiveInv'
  <2>1. CacheLive'
    BY <1>0, <1>3, CacheLiveUnchanged DEF Load, jmpVars
  <2>2. ASSUME NEW u \in Threads PROVE PointersLive(u)'
    <3>1. /\ pc[t] = "load" /\ pc' = [pc EXCEPT ![t] = "guess"]
          /\ tb_flushed' = [tb_flushed EXCEPT ![cpuid[t]] = FALSE]
          /\ UNCHANGED <<htable, cpuid, tb, last_tb, stale_tb, stale_last>>
      BY <1>3 DEF Load, Goto, localVars
    <3>2. CASE u = t
      BY <1>0, <3>1, <3>2 DEF LockTypeOK, PointersLive
    <3>3. CASE u # t
      <4>1. pc'[u] = pc[u]
        BY <1>0, <3>1, <3>3 DEF LockTypeOK
      <4>2. InExec(u) => tb_flushed'[cpuid[u]] = tb_flushed[cpuid[u]]
        BY <1>0, <3>1, <3>3, CpusDiffer DEF InExec, CacheInv, CacheTypeOK
      <4>3. ~ InExec(u) => u \notin stale_tb /\ u \notin stale_last
        BY <1>0 DEF InExec, PointersLive
      <4> QED
        BY <1>0, <3>1, <4>1, <4>2, <4>3 DEF PointersLive
    <3> QED
      BY <3>2, <3>3
  <2> QED
    BY <2>1, <2>2 DEF LiveInv
<1>4. ASSUME NEW t \in Threads, Lock(t) PROVE LiveInv'
  <2>0. /\ UNCHANGED <<cacheVars, localVars, stale_tb, stale_last>>
        /\ \E label \in {"guess_cs", "find_cs", "slow_cs", "cache_cs"} :
              /\ pc' = [pc EXCEPT ![t] = label]
              /\ label = "cache_cs" => pc[t] = "cache"
    BY <1>4 DEF Lock, TbLock, Goto
  <2>1. CacheLive'
    BY <1>0, <2>0, CacheLiveUnchanged DEF cacheVars, jmpVars
  <2>2. PICK label \in {"guess_cs", "find_cs", "slow_cs", "cache_cs"} :
              /\ pc' = [pc EXCEPT ![t] = label]
              /\ label = "cache_cs" => pc[t] = "cache"
    BY <2>0
  <2>3. label \in {"run", "cache", "cache_cs", "return"} => last_tb[t] = NULL
    BY <1>0, <2>2 DEF PointersLive
  <2>4. \A u \in Threads : PointersLive(u)'
    BY <1>0, <2>0, <2>2, <2>3, PointersLiveMove DEF cacheVars, localVars
  <2> QED
    BY <2>1, <2>4 DEF LiveInv
<1>5. ASSUME NEW t \in Threads, GuessIcount(t) PROVE LiveInv'
  <2>1. CacheLive'
    BY <1>0, <1>5, CacheLiveUnchanged DEF GuessIcount, cacheVars, jmpVars
  <2>2. \A u \in Threads : PointersLive(u)'
    BY <1>0, <1>5, PointersLiveMove DEF GuessIcount, Goto, cacheVars
  <2> QED
    BY <2>1, <2>2 DEF LiveInv
<1>6. ASSUME NEW t \in Threads, FindInJmpCache(t) PROVE LiveInv'
  <2> DEFINE x == JmpCacheLookup(cpuid[t], State(t))
  <2>0. pc[t] = "find_cs" /\ State(t) \in Keys /\ cpuid[t] \in Cpus /\ x # NULL
    BY <1>0, <1>6 DEF FindInJmpCache, ThreadInv, Searching, LockTypeOK
  <2>1. CacheLive'
    BY <1>0, <1>6, CacheLiveUnchanged DEF FindInJmpCache, cacheVars, jmpVars
  <2>2. x \in htable /\ Found(t, x)
    BY <1>0, <1>6, <2>0, JmpCacheHit DEF FindInJmpCache
  <2> HIDE DEF x
  <2>3. \A u \in Threads : PointersLive(u)'
    BY <1>0, <1>6, <2>0, <2>2, PointersLiveFound DEF FindInJmpCache, cacheVars
  <2> QED
    BY <2>1, <2>3 DEF LiveInv
<1>7. ASSUME NEW t \in Threads, FindInHtable(t) PROVE LiveInv'
  <2>0. /\ pc[t] \in {"find_cs", "slow_cs"} /\ State(t) \in Keys /\ cpuid[t] \in Cpus
        /\ stale_tb' = stale_tb \ {t}
        /\ UNCHANGED <<nb_tbs, tbs, htable, target, tb_flushed, cpuid, last_tb, stale_last>>
    BY <1>0, <1>7 DEF FindInHtable, ThreadInv, Searching, LockTypeOK, jmpVars
  <2>1. PICK x \in htable : /\ tbs[x].key = State(t)
                            /\ tb_jmp_cache' = JmpCacheEnter(cpuid[t], State(t), x)
                            /\ Found(t, x)
    BY <1>7 DEF FindInHtable, tb_find_physical
  <2>2. CacheLive'
    BY <1>0, <2>0, <2>1, CacheLiveEnter
  <2>3. \A u \in Threads : PointersLive(u)'
    BY <1>0, <2>0, <2>1, PointersLiveFound
  <2> QED
    BY <2>2, <2>3 DEF LiveInv
<1>8. ASSUME NEW t \in Threads, FindMiss(t) PROVE LiveInv'
  <2>1. CacheLive'
    BY <1>0, <1>8, CacheLiveUnchanged DEF FindMiss, cacheVars, jmpVars
  <2>2. \A u \in Threads : PointersLive(u)'
    BY <1>0, <1>8, PointersLiveMove DEF FindMiss, Goto, cacheVars, localVars
  <2> QED
    BY <2>1, <2>2 DEF LiveInv
<1>9. ASSUME NEW t \in Threads, MmapLock(t) PROVE LiveInv'
  <2>1. CacheLive'
    BY <1>0, <1>9, CacheLiveUnchanged DEF MmapLock, cacheVars, jmpVars
  <2>2. \A u \in Threads : PointersLive(u)'
    BY <1>0, <1>9, PointersLiveMove DEF MmapLock, Goto, cacheVars, localVars
  <2> QED
    BY <2>1, <2>2 DEF LiveInv
<1>10. ASSUME NEW t \in Threads, GenFlush(t) PROVE LiveInv'
  <2>1. CacheLive'
    BY <1>10, CacheLiveFlush DEF GenFlush
  <2>2. ASSUME NEW u \in Threads PROVE PointersLive(u)'
    <3>1. /\ pc[t] = "slow_cs"
          /\ tb_flushed' = [c \in Cpus |-> TRUE]
          /\ stale_tb' = {v \in Threads : tb[v] # NULL}
          /\ stale_last' = {v \in Threads : last_tb[v] # NULL}
          /\ UNCHANGED <<pc, cpuid, tb, last_tb>>
      BY <1>10 DEF GenFlush, TbFlush, localVars
    <3>2. pc[u] # "link"
      BY <1>0, <3>1 DEF LockInv, TbHeld
    <3>3. tb_flushed'[cpuid'[u]]
      BY <1>0, <3>1 DEF LockTypeOK
    <3> QED
      BY <1>0, <3>1, <3>2, <3>3 DEF PointersLive
  <2> QED
    BY <2>1, <2>2 DEF LiveInv
<1>11. ASSUME NEW t \in Threads, GenCode(t) PROVE LiveInv'
  <2>0. /\ pc[t] = "slow_cs" /\ State(t) \in Keys /\ cpuid[t] \in Cpus
        /\ icount[t] \in 1 .. MaxInsns
        /\ tb_find_physical(State(t)) = {}
        /\ TbGenCode(State(t), icount[t]) /\ Found(t, nb_tbs)
        /\ tb_jmp_cache' = JmpCacheEnter(cpuid[t], State(t), nb_tbs)
        /\ stale_tb' = stale_tb \ {t}
        /\ UNCHANGED <<tb_flushed, cpuid, last_tb, stale_last>>
    BY <1>0, <1>11 DEF GenCode, StillMissing, ThreadInv, Searching, LockTypeOK, ThreadTypeOK
  <2>1. CacheLive'
    BY <1>0, <2>0, CacheLiveGen
  <2>2. htable' = htable \cup {nb_tbs}
    BY <1>0, <2>0, TbGenCodeEntry
  <2>3. nb_tbs \in htable' /\ htable \subseteq htable'
    BY <2>2
  <2>4. \A u \in Threads : PointersLive(u)'
    BY <1>0, <2>0, <2>3, PointersLiveFound
  <2> QED
    BY <2>1, <2>4 DEF LiveInv
<1>12. ASSUME NEW t \in Threads, Link(t) PROVE LiveInv'
  <2>0. /\ pc[t] = "link" /\ pc' = [pc EXCEPT ![t] = "run"]
        /\ tb_flushed' = [tb_flushed EXCEPT ![cpuid[t]] = FALSE]
        /\ last_tb' = [last_tb EXCEPT ![t] = NULL]
        /\ stale_last' = stale_last \ {t}
        /\ UNCHANGED <<nb_tbs, tbs, htable, tb_jmp_cache, cpuid, tb, stale_tb>>
    BY <1>12 DEF Link, Goto
  <2>1. tb[t] \in htable /\ tb_exit[t] \in Slots /\ InExec(t) /\ t \notin stale_tb
    BY <1>0, <2>0 DEF PointersLive, ThreadInv, ThreadTypeOK, InExec
  <2>2. CacheLive'
    <3>1. CASE MayChain(t)
      <4>1. last_tb[t] \in htable
        BY <1>0, <3>1 DEF MayChain, PointersLive
      <4>2. TbAddJump(last_tb[t], tb_exit[t], tb[t])
        BY <1>12, <3>1 DEF Link
      <4> QED
        BY <1>0, <2>0, <2>1, <4>1, <4>2, CacheLiveAddJump
    <3>2. CASE ~ MayChain(t)
      BY <1>0, <1>12, <2>0, <3>2, CacheLiveUnchanged DEF Link, jmpVars
    <3> QED
      BY <3>1, <3>2
  <2>3. ASSUME NEW u \in Threads PROVE PointersLive(u)'
    <3>1. CASE u = t
      <4>1. pc'[u] = "run" /\ last_tb'[u] = NULL /\ u \notin stale_tb' /\ u \notin stale_last'
        BY <1>0, <2>0, <2>1, <3>1 DEF LockTypeOK, ThreadTypeOK
      <4> QED
        BY <2>0, <2>1, <3>1, <4>1 DEF PointersLive
    <3>2. CASE u # t
      <4>1. pc'[u] = pc[u] /\ last_tb'[u] = last_tb[u]
        BY <1>0, <2>0, <3>2 DEF LockTypeOK, ThreadTypeOK
      <4>2. InExec(u) => tb_flushed'[cpuid[u]] = tb_flushed[cpuid[u]]
        BY <1>0, <2>0, <2>1, <3>2, CpusDiffer DEF CacheInv, CacheTypeOK
      <4>3. ~ InExec(u) => u \notin stale_tb /\ u \notin stale_last
        BY <1>0 DEF InExec, PointersLive
      <4>4. /\ htable' = htable /\ cpuid' = cpuid /\ tb' = tb /\ stale_tb' = stale_tb
            /\ u \in stale_last' <=> u \in stale_last
        BY <2>0, <3>2
      <4>5. u \in stale_tb \cup stale_last => tb_flushed'[cpuid[u]]
        BY <1>0, <4>2, <4>3 DEF PointersLive
      <4> QED
        BY <1>0, <4>1, <4>4, <4>5 DEF PointersLive
    <3> QED
      BY <3>1, <3>2
  <2> QED
    BY <2>2, <2>3 DEF LiveInv
<1>13. ASSUME NEW t \in Threads, RunTB(t) \/ RunUndefined(t) PROVE LiveInv'
  <2>0. /\ pc[t] = "run" /\ (pc' = pc \/ pc' = [pc EXCEPT ![t] = "cache"])
        /\ UNCHANGED <<cacheVars, cpuid, tb, last_tb, stale_tb, stale_last>>
    BY <1>13 DEF RunTB, RunUndefined, runFrame, Goto
  <2>1. CacheLive'
    BY <1>0, <2>0, CacheLiveUnchanged DEF cacheVars, jmpVars
  <2>2. CASE pc' = pc
    <3>1. \A u \in Threads : PointersLive(u)'
      BY <1>0, <2>0, <2>2 DEF PointersLive, cacheVars
    <3> QED
      BY <2>1, <3>1 DEF LiveInv
  <2>3. CASE pc' = [pc EXCEPT ![t] = "cache"]
    <3>1. last_tb[t] = NULL
      BY <1>0, <2>0 DEF PointersLive
    <3>2. \A u \in Threads : PointersLive(u)'
      BY <1>0, <2>0, <2>3, <3>1, PointersLiveMove DEF cacheVars
    <3> QED
      BY <2>1, <3>2 DEF LiveInv
  <2> QED
    BY <2>0, <2>2, <2>3
<1>14. ASSUME NEW t \in Threads, FromCache(t) PROVE LiveInv'
  <2>0. /\ pc[t] = "cache_cs"
        /\ UNCHANGED <<cacheVars, cpuid, tb, stale_tb>>
        /\ \/ /\ last_tb' = [last_tb EXCEPT ![t] = tb[t]]
              /\ stale_last' = IF t \in stale_tb THEN stale_last \cup {t} ELSE stale_last
              /\ pc' = [pc EXCEPT ![t] = "guess"]
           \/ UNCHANGED <<last_tb, stale_last>> /\ pc' = [pc EXCEPT ![t] = "return"]
    BY <1>14 DEF FromCache, Goto
  <2>1. CacheLive'
    BY <1>0, <2>0, CacheLiveUnchanged DEF cacheVars, jmpVars
  <2>2. last_tb[t] = NULL /\ t \notin stale_last
    BY <1>0, <2>0 DEF PointersLive
  <2>3. CASE /\ last_tb' = [last_tb EXCEPT ![t] = tb[t]]
             /\ stale_last' = IF t \in stale_tb THEN stale_last \cup {t} ELSE stale_last
             /\ pc' = [pc EXCEPT ![t] = "guess"]
    <3>1. ASSUME NEW u \in Threads PROVE PointersLive(u)'
      <4>1. CASE u = t
        <5>1. pc'[u] = "guess" /\ last_tb'[u] = tb[u] /\ (u \in stale_last' <=> u \in stale_tb)
          BY <1>0, <2>2, <2>3, <4>1 DEF LockTypeOK, ThreadTypeOK
        <5> QED
          BY <1>0, <2>0, <4>1, <5>1 DEF PointersLive, cacheVars
      <4>2. CASE u # t
        <5>1. pc'[u] = pc[u] /\ last_tb'[u] = last_tb[u] /\ (u \in stale_last' <=> u \in stale_last)
          BY <1>0, <2>3, <4>2 DEF LockTypeOK, ThreadTypeOK
        <5> QED
          BY <1>0, <2>0, <4>2, <5>1 DEF PointersLive, cacheVars
      <4> QED
        BY <4>1, <4>2
    <3> QED
      BY <2>1, <3>1 DEF LiveInv
  <2>4. CASE UNCHANGED <<last_tb, stale_last>> /\ pc' = [pc EXCEPT ![t] = "return"]
    <3>1. \A u \in Threads : PointersLive(u)'
      BY <1>0, <2>0, <2>2, <2>4, PointersLiveMove DEF cacheVars
    <3> QED
      BY <2>1, <3>1 DEF LiveInv
  <2> QED
    BY <2>0, <2>3, <2>4
<1>15. ASSUME NEW t \in Threads, Return(t) PROVE LiveInv'
  <2>1. CacheLive'
    BY <1>0, <1>15, CacheLiveUnchanged DEF Return, cacheVars, jmpVars
  <2>2. ASSUME NEW u \in Threads PROVE PointersLive(u)'
    <3>1. /\ pc[t] = "return" /\ pc' = [pc EXCEPT ![t] = "idle"]
          /\ cpuid' = [cpuid EXCEPT ![t] = 0] /\ tb' = [tb EXCEPT ![t] = NULL]
          /\ stale_tb' = stale_tb \ {t}
          /\ UNCHANGED <<htable, tb_flushed, last_tb, stale_last>>
      BY <1>15 DEF Return, Goto, cacheVars
    <3>2. CASE u = t
      BY <1>0, <3>1, <3>2 DEF LockTypeOK, ThreadTypeOK, PointersLive
    <3>3. CASE u # t
      BY <1>0, <3>1, <3>3 DEF LockTypeOK, ThreadTypeOK, PointersLive
    <3> QED
      BY <3>2, <3>3
  <2> QED
    BY <2>1, <2>2 DEF LiveInv
<1>16. CASE UNCHANGED vars
  <2>1. CacheLive'
    BY <1>0, <1>16, CacheLiveUnchanged DEF vars, cacheVars, jmpVars
  <2>2. \A u \in Threads : PointersLive(u)'
    BY <1>0, <1>16 DEF vars, cacheVars, localVars, PointersLive
  <2> QED
    BY <2>1, <2>2 DEF LiveInv
<1> QED
  BY <1>1, <1>2, <1>3, <1>4, <1>5, <1>6, <1>7, <1>8, <1>9, <1>10, <1>11, <1>12, <1>13,
     <1>14, <1>15, <1>16 DEF Next, Step, Finished

LEMMA LiveInvHolds == Spec => [](TypeInv /\ LiveInv)
BY TypeInvInit, TypeInvStep, LiveInvInit, LiveInvStep, PTL DEF Spec

(* tb_find_fast never patches a TB that was found before the last flush,   *)

(* although another thread may flush between exec's leaving that TB and    *)
(* the lookup of the next: tb_flushed is set, and stays set, in every case.*)
THEOREM NoStaleChaining == Spec => []NoStaleChain
<1>1. LiveInv => NoStaleChain
  BY DEF LiveInv, PointersLive, NoStaleChain, MayChain
<1> QED
  BY <1>1, LiveInvHolds, PTL

(* tb_find_slow, which gives up tb_lock before it translates, never        *)

(* translates a guest state twice: its second lookup is enough.            *)
THEOREM TranslatedOnce == Spec => []OneTBPerKey
<1>1. LiveInv => OneTBPerKey
  BY DEF LiveInv, CacheLive
<1> QED
  BY <1>1, LiveInvHolds, PTL

(* What a jump cache holds can be found in the hash table: tb_flush, run   *)

(* by one thread, leaves nothing in the jump cache of another's CPU.       *)
THEOREM JmpCachesCoherent == Spec => []JmpCacheCoherent
<1>1. LiveInv => JmpCacheCoherent
  BY DEF LiveInv, CacheLive
<1> QED
  BY <1>1, LiveInvHolds, PTL

(* No code that can be looked up branches into a TB that a flush forgot.   *)
THEOREM ChainsStayLive == Spec => []NoJumpToDeadTB
<1>1. TypeInv /\ LiveInv => NoJumpToDeadTB
  <2> SUFFICES ASSUME TypeInv, LiveInv, NEW x \in htable, NEW n \in tbs[x].slots
               PROVE  target[<<x, n>>] \in htable \cup {NULL}
    BY DEF NoJumpToDeadTB
  <2>1. n \in Slots
    BY DEF TypeInv, CacheInv, PointersInv, Written, WellFormed, TBRecord
  <2> QED
    BY <2>1 DEF LiveInv, CacheLive, ChainsLive
<1> QED
  BY <1>1, LiveInvHolds, PTL

-----------------------------------------------------------------------------
(***************************************************************************)
(* What exec() runs is what the guest program says, for every number of    *)
(* threads, CPUs and calls.                                                *)
(*                                                                         *)
(* Two hypotheses on the constants say when.  OnlyNeon leaves out the      *)
(* instructions after which exec() takes the wrong slot for the one that   *)
(* was left (the run vmsr_stray_patch); RoomForAll leaves out tb_flush,    *)
(* which pulls the code from under threads that run it (the run            *)
(* flush_under_running_code).  Each theorem names the ones it needs: the   *)
(* chains stay right when the cache is flushed.                            *)
(***************************************************************************)
(* Every instruction the application calls exec() at is plain NEON or VFP. *)
OnlyNeon == \A k \in Keys : Kind[k] = "neon"

(* The translations of all guest states fit into the cache together. *)
RoomForAll ==
    /\ Cardinality(Keys) <= MaxBlocks
    /\ Cardinality(Keys) * MaxInsns <= BufSize

-----------------------------------------------------------------------------
(* A step of one thread, as another one sees it.                           *)

(* The locals of u, and its guest state once it has a CPU, are the same.   *)
Kept(u) ==
    /\ pc'[u] = pc[u] /\ arg'[u] = arg[u] /\ cpuid'[u] = cpuid[u] /\ icount'[u] = icount[u]
    /\ tb'[u] = tb[u] /\ last_tb'[u] = last_tb[u] /\ tb_exit'[u] = tb_exit[u]
    /\ cur'[u] = cur[u]
    /\ InExec(u) => State(u)' = State(u)

(* The marks of stale pointers of u are the same. *)
MarksKept(u) ==
    (u \in stale_tb' <=> u \in stale_tb) /\ (u \in stale_last' <=> u \in stale_last)

LEMMA OthersKept ==
    ASSUME TypeInv, NEW t \in Threads, Step(t) \/ \E k \in Keys : Call(t, k),
           NEW u \in Threads, u # t
    PROVE  Kept(u) /\ (GenFlush(t) \/ MarksKept(u))
<1> USE DEF Goto, LockTypeOK, ThreadTypeOK, TypeInv, LockInv
<1> DEFINE Same == /\ pc'[u] = pc[u] /\ arg'[u] = arg[u] /\ cpuid'[u] = cpuid[u]
                   /\ icount'[u] = icount[u] /\ tb'[u] = tb[u] /\ last_tb'[u] = last_tb[u]
                   /\ tb_exit'[u] = tb_exit[u] /\ cur'[u] = cur[u]
<1>1. ASSUME Same, env' = env PROVE Kept(u)
  BY <1>1 DEF Kept, State
<1>2. ASSUME Same, InExec(t), NEW v, env' = [env EXCEPT ![cpuid[t]] = v] PROVE Kept(u)
  <2>1. InExec(u) => env'[cpuid[u]] = env[cpuid[u]]
    BY <1>2, OtherCpu
  <2> QED
    BY <1>2, <2>1 DEF Kept, State
<1>3. ASSUME NEW k \in Keys, Call(t, k) PROVE Kept(u) /\ MarksKept(u)
  <2>1. Same /\ env' = env
    BY <1>3 DEF Call
  <2> QED
    BY <1>1, <1>3, <2>1 DEF Call, MarksKept
<1>4. ASSUME TryLock(t) PROVE Kept(u) /\ MarksKept(u)
  <2>1. Same /\ env' = env
    BY <1>4 DEF TryLock
  <2> QED
    BY <1>1, <1>4, <2>1 DEF TryLock, MarksKept
<1>5. ASSUME Load(t) PROVE Kept(u) /\ MarksKept(u)
  <2>1. Same /\ env' = [env EXCEPT ![cpuid[t]] = arg[t]] /\ InExec(t)
    BY <1>5 DEF Load, localVars, InExec
  <2> QED
    BY <1>2, <1>5, <2>1 DEF Load, MarksKept
<1>6. ASSUME Lock(t) PROVE Kept(u) /\ MarksKept(u)
  <2>1. Same /\ env' = env
    BY <1>6 DEF Lock, TbLock, localVars
  <2> QED
    BY <1>1, <1>6, <2>1 DEF Lock, TbLock, MarksKept
<1>7. ASSUME GuessIcount(t) PROVE Kept(u) /\ MarksKept(u)
  <2>1. Same /\ env' = env
    BY <1>7 DEF GuessIcount
  <2> QED
    BY <1>1, <1>7, <2>1 DEF GuessIcount, MarksKept
<1>8. ASSUME FindInJmpCache(t) PROVE Kept(u) /\ MarksKept(u)
  <2>1. Same /\ env' = env
    BY <1>8 DEF FindInJmpCache, Found
  <2> QED
    BY <1>1, <1>8, <2>1 DEF FindInJmpCache, MarksKept
<1>9. ASSUME FindInHtable(t) PROVE Kept(u) /\ MarksKept(u)
  <2>1. Same /\ env' = env
    BY <1>9 DEF FindInHtable, Found
  <2> QED
    BY <1>1, <1>9, <2>1 DEF FindInHtable, MarksKept
<1>10. ASSUME FindMiss(t) \/ MmapLock(t) PROVE Kept(u) /\ MarksKept(u)
  <2>1. Same /\ env' = env
    BY <1>10 DEF FindMiss, MmapLock, localVars
  <2> QED
    BY <1>1, <1>10, <2>1 DEF FindMiss, MmapLock, MarksKept
<1>11. ASSUME GenFlush(t) PROVE Kept(u)
  <2>1. Same /\ env' = env
    BY <1>11 DEF GenFlush, localVars
  <2> QED
    BY <1>1, <2>1
<1>12. ASSUME GenCode(t) PROVE Kept(u) /\ MarksKept(u)
  <2>1. Same /\ env' = env
    BY <1>12 DEF GenCode, Found
  <2> QED
    BY <1>1, <1>12, <2>1 DEF GenCode, MarksKept
<1>13. ASSUME Link(t) PROVE Kept(u) /\ MarksKept(u)
  <2>1. Same /\ env' = env
    BY <1>13 DEF Link
  <2> QED
    BY <1>1, <1>13, <2>1 DEF Link, MarksKept
<1>14. ASSUME RunTB(t) PROVE Kept(u) /\ MarksKept(u)
  <2>1. Same /\ InExec(t)
    BY <1>14 DEF RunTB, runFrame, InExec
  <2>2. PICK v : env' = [env EXCEPT ![cpuid[t]] = v]
    BY <1>14 DEF RunTB
  <2> QED
    BY <1>2, <1>14, <2>1, <2>2 DEF RunTB, runFrame, MarksKept
<1>15. ASSUME RunUndefined(t) PROVE Kept(u) /\ MarksKept(u)
  <2>1. Same /\ InExec(t)
    BY <1>15 DEF RunUndefined, runFrame, InExec
  <2>2. PICK v : env' = [env EXCEPT ![cpuid[t]] = v]
    BY <1>15 DEF RunUndefined
  <2> QED
    BY <1>2, <1>15, <2>1, <2>2 DEF RunUndefined, runFrame, MarksKept
<1>16. ASSUME FromCache(t) PROVE Kept(u) /\ MarksKept(u)
  <2>1. Same /\ env' = env
    BY <1>16 DEF FromCache
  <2> QED
    BY <1>1, <1>16, <2>1 DEF FromCache, MarksKept
<1>17. ASSUME Return(t) PROVE Kept(u) /\ MarksKept(u)
  <2>1. Same /\ env' = env
    BY <1>17 DEF Return
  <2> QED
    BY <1>1, <1>17, <2>1 DEF Return, MarksKept
<1> HIDE DEF Goto, LockTypeOK, ThreadTypeOK, TypeInv, LockInv
<1> QED
  BY <1>3, <1>4, <1>5, <1>6, <1>7, <1>8, <1>9, <1>10, <1>11, <1>12, <1>13, <1>14, <1>15,
     <1>16, <1>17 DEF Step


(* The TBs that can be looked up stay, and so do their chained jumps. *)
Grows ==
    /\ htable \subseteq htable'
    /\ \A x \in htable : tbs'[x] = tbs[x] /\ (jmp[<<x, 1>>] # NULL => jmp'[<<x, 1>>] # NULL)

LEMMA GenCodeFacts ==
    ASSUME TypeInv, LiveInv, NEW t \in Threads, GenCode(t)
    PROVE  /\ State(t) \in Keys /\ icount[t] \in 1 .. MaxInsns
           /\ tb_find_physical(State(t)) = {}
           /\ nb_tbs \in TBs \ htable /\ nb_tbs' = nb_tbs + 1
           /\ WellFormed(tbs'[nb_tbs]) /\ tbs'[nb_tbs].key = State(t)
           /\ tbs'[nb_tbs].insns = num_insns(State(t), icount[t])
           /\ \A x \in htable : tbs'[x] = tbs[x]
           /\ htable' = htable \cup {nb_tbs}
           /\ jmp' = [jmp EXCEPT ![First(nb_tbs)] = First(nb_tbs), ![<<nb_tbs, 0>>] = NULL,
                                 ![<<nb_tbs, 1>>] = NULL]
           /\ target' = [target EXCEPT ![<<nb_tbs, 0>>] = NULL, ![<<nb_tbs, 1>>] = NULL]
           /\ stray' = stray \ {nb_tbs}
           /\ code_gen_ptr' = code_gen_ptr + tbs'[nb_tbs].insns
<1>1. /\ pc[t] = "slow_cs" /\ tb_find_physical(State(t)) = {}
      /\ TbGenCode(State(t), icount[t])
  BY DEF GenCode, StillMissing
<1>2. State(t) \in Keys /\ icount[t] \in 1 .. MaxInsns /\ CacheInv /\ htable \subseteq TBs
  BY <1>1 DEF TypeInv, ThreadInv, ThreadTypeOK, Searching, CacheInv, CacheTypeOK
<1>3. PICK k : k = State(t)
  OBVIOUS
<1>4. PICK c : c = icount[t]
  OBVIOUS
<1>5. TbGenCode(k, c) /\ k \in Keys /\ c \in 1 .. MaxInsns
  BY <1>1, <1>2, <1>3, <1>4
<1>6. /\ nb_tbs \in TBs /\ nb_tbs' = nb_tbs + 1
      /\ WellFormed(tbs'[nb_tbs]) /\ tbs'[nb_tbs].key = k
      /\ \A x \in TBs : x # nb_tbs => tbs'[x] = tbs[x]
      /\ htable' = htable \cup {nb_tbs}
  BY <1>2, <1>5, TbGenCodeEntry
<1>7. nb_tbs \notin htable
  BY <1>6 DEF LiveInv, CacheLive, HtableBelow, TBs
<1>8. /\ jmp' = [jmp EXCEPT ![First(nb_tbs)] = First(nb_tbs), ![<<nb_tbs, 0>>] = NULL,
                            ![<<nb_tbs, 1>>] = NULL]
      /\ target' = [target EXCEPT ![<<nb_tbs, 0>>] = NULL, ![<<nb_tbs, 1>>] = NULL]
      /\ stray' = stray \ {nb_tbs}
  BY <1>5 DEF TbGenCode, TbInitJumps
<1>9. /\ tbs'[nb_tbs].insns = num_insns(k, c)
      /\ code_gen_ptr' = code_gen_ptr + tbs'[nb_tbs].insns
  <2>1. tbs \in [TBs -> TBRecord \cup {NULL}]
    BY <1>2 DEF CacheInv, CacheTypeOK
  <2>2. tbs'[nb_tbs].insns = Translate(k, c).insns
    BY <1>5, <1>6, <2>1 DEF TbGenCode
  <2>3. code_gen_ptr' = code_gen_ptr + Translate(k, c).insns
    BY <1>5 DEF TbGenCode, CodeLen
  <2> QED
    BY <2>2, <2>3 DEF Translate
<1> QED
  BY <1>1, <1>2, <1>3, <1>4, <1>6, <1>7, <1>8, <1>9

(* Only three steps change the cache, apart from the jump caches.          *)
Quiet == UNCHANGED <<nb_tbs, code_gen_ptr, htable, tbs, jmp, target, stray>>

LEMMA CacheSteps ==
    ASSUME NEW t \in Threads, Step(t) \/ \E k \in Keys : Call(t, k)
    PROVE  GenFlush(t) \/ GenCode(t) \/ Link(t) \/ Quiet
<1> USE DEF Quiet
<1>1. ASSUME NEW k \in Keys, Call(t, k) PROVE Quiet
  BY <1>1 DEF Call, cacheVars, jmpVars
<1>2. ASSUME Lock(t) PROVE Quiet
  BY <1>2 DEF Lock, TbLock, cacheVars, jmpVars
<1>3. ASSUME TryLock(t) \/ Load(t) \/ GuessIcount(t) PROVE Quiet
  BY <1>3 DEF TryLock, Load, GuessIcount, cacheVars, jmpVars
<1>4. ASSUME FindInJmpCache(t) \/ FindInHtable(t) PROVE Quiet
  BY <1>4 DEF FindInJmpCache, FindInHtable, cacheVars, jmpVars
<1>5. ASSUME FindMiss(t) \/ MmapLock(t) PROVE Quiet
  BY <1>5 DEF FindMiss, MmapLock, cacheVars, jmpVars
<1>6. ASSUME RunTB(t) \/ RunUndefined(t) PROVE Quiet
  BY <1>6 DEF RunTB, RunUndefined, runFrame, cacheVars, jmpVars
<1>7. ASSUME FromCache(t) \/ Return(t) PROVE Quiet
  BY <1>7 DEF FromCache, Return, cacheVars, jmpVars
<1> QED
  BY <1>1, <1>2, <1>3, <1>4, <1>5, <1>6, <1>7 DEF Step

LEMMA CacheGrows ==
    ASSUME TypeInv, LiveInv, NEW t \in Threads, Step(t) \/ \E k \in Keys : Call(t, k)
    PROVE  GenFlush(t) \/ Grows
<1>1. ASSUME UNCHANGED <<htable, tbs, jmp>> PROVE Grows
  BY <1>1 DEF Grows
<1>2. ASSUME GenCode(t) PROVE Grows
  <2>1. /\ nb_tbs \in TBs \ htable /\ \A x \in htable : tbs'[x] = tbs[x]
        /\ htable' = htable \cup {nb_tbs}
        /\ jmp' = [jmp EXCEPT ![First(nb_tbs)] = First(nb_tbs), ![<<nb_tbs, 0>>] = NULL,
                              ![<<nb_tbs, 1>>] = NULL]
    BY <1>2, GenCodeFacts
  <2>2. jmp \in [JmpFields -> JmpFields \cup {NULL}] /\ htable \subseteq TBs
    BY DEF TypeInv, CacheInv, CacheTypeOK
  <2>3. ASSUME NEW x \in htable PROVE jmp'[<<x, 1>>] = jmp[<<x, 1>>]
    <3>1. <<x, 1>> \in JmpFields /\ x # nb_tbs
      BY <2>1, <2>2 DEF JmpFields
    <3> QED
      BY <2>1, <2>2, <3>1 DEF First
  <2> QED
    BY <2>1, <2>3 DEF Grows
<1>3. ASSUME Link(t) PROVE Grows
  <2>1. UNCHANGED <<htable, tbs>>
    BY <1>3 DEF Link
  <2>2. ASSUME NEW x \in htable, jmp[<<x, 1>>] # NULL PROVE jmp'[<<x, 1>>] = jmp[<<x, 1>>]
    <3>1. \/ UNCHANGED jmp
          \/ \E y, n, d : TbAddJump(y, n, d)
      BY <1>3 DEF Link, jmpVars
    <3>2. CASE UNCHANGED jmp
      BY <3>2
    <3>3. ASSUME NEW y, NEW n, NEW d, TbAddJump(y, n, d), ~ Chained(y, n)
          PROVE  jmp'[<<x, 1>>] = jmp[<<x, 1>>]
      <4>1. jmp' = [jmp EXCEPT ![<<y, n>>] = jmp[First(d)], ![First(d)] = <<y, n>>]
        BY <3>3 DEF TbAddJump
      <4>2. <<x, 1>> # <<y, n>> /\ <<x, 1>> # First(d)
        BY <2>2, <3>3 DEF Chained, First
      <4>3. jmp \in [JmpFields -> JmpFields \cup {NULL}] /\ <<x, 1>> \in JmpFields
        BY DEF TypeInv, CacheInv, CacheTypeOK, JmpFields
      <4> QED
        BY <4>1, <4>2, <4>3
    <3>4. ASSUME NEW y, NEW n, NEW d, TbAddJump(y, n, d), Chained(y, n)
          PROVE  jmp'[<<x, 1>>] = jmp[<<x, 1>>]
      BY <3>4 DEF TbAddJump, jmpVars
    <3> QED
      BY <3>1, <3>2, <3>3, <3>4
  <2> QED
    BY <2>1, <2>2 DEF Grows
<1>4. GenFlush(t) \/ GenCode(t) \/ Link(t) \/ UNCHANGED <<htable, tbs, jmp>>
  BY CacheSteps DEF Quiet
<1> QED
  BY <1>1, <1>2, <1>3, <1>4


-----------------------------------------------------------------------------
(* With room for all, the cache is never flushed, and what guess_icount    *)
(* found out is still true when tb_gen_code uses it.                       *)

Counted == {"find", "find_cs", "mmap", "relock", "slow_cs"}

(* The count is that of the run, or is not going to be used: the state has *)
(* a translation, which stays.                                             *)
CountInv(t) ==
    pc[t] \in Counted => icount[t] = neon_icount(State(t)) \/ tb_find_physical(State(t)) # {}

RoomInv ==
    /\ htable = 0 .. nb_tbs - 1
    /\ code_gen_ptr <= nb_tbs * MaxInsns
    /\ stale_tb = {} /\ stale_last = {}
    /\ FullRunTranslated
    /\ \A t \in Threads : CountInv(t)

LEMMA RoomInvInit == Init => RoomInv
<1> SUFFICES ASSUME Init PROVE RoomInv
  OBVIOUS
<1>1. nb_tbs = 0 /\ code_gen_ptr = 0 /\ htable = {} /\ stale_tb = {} /\ stale_last = {}
  BY DEF Init, CacheInit
<1>2. htable = 0 .. nb_tbs - 1 /\ code_gen_ptr <= nb_tbs * MaxInsns
  BY <1>1, MaxInsnsType
<1>3. FullRunTranslated
  BY <1>1 DEF FullRunTranslated
<1>4. \A t \in Threads : CountInv(t)
  BY DEF Init, CountInv, Counted
<1> QED
  BY <1>1, <1>2, <1>3, <1>4 DEF RoomInv

LEMMA NeverFull ==
    ASSUME RoomForAll, TypeInv, LiveInv, RoomInv, NEW k \in Keys, NEW count \in 1 .. MaxInsns,
           tb_find_physical(k) = {}
    PROVE  ~ BufferFull(k, count)
<1> DEFINE N == Cardinality(Keys)
           T == Keys \ {k}
           g == [x \in htable |-> tbs[x].key]
<1>1. N \in Nat /\ IsFiniteSet(T) /\ Cardinality(T) = N - 1 /\ N = MaxInsns
  BY GuestAssumption, FS_RemoveElement, MaxInsnsType DEF MaxInsns
<1>2. nb_tbs \in Nat /\ code_gen_ptr \in Nat /\ MaxBlocks \in Nat /\ BufSize \in Nat
  BY CacheAssumption DEF TypeInv, CacheInv, CacheTypeOK
<1>3. IsFiniteSet(htable) /\ Cardinality(htable) = nb_tbs
  <2>1. 0 \in Int /\ nb_tbs - 1 \in Int
    BY <1>2
  <2>2. /\ IsFiniteSet(0 .. nb_tbs - 1)
        /\ Cardinality(0 .. nb_tbs - 1) = IF 0 > nb_tbs - 1 THEN 0 ELSE (nb_tbs - 1) - 0 + 1
    BY <2>1, FS_Interval
  <2> QED
    BY <1>2, <2>2 DEF RoomInv
<1>4. g \in [htable -> T]
  <2>1. \A x \in htable : tbs[x].key \in Keys
    BY DEF TypeInv, CacheInv, PointersInv, Written, WellFormed, TBRecord
  <2> QED
    BY <2>1 DEF tb_find_physical
<1>5. nb_tbs <= N - 1
  <2> SUFFICES ASSUME ~ (nb_tbs <= N - 1) PROVE FALSE
    OBVIOUS
  <2>1. Cardinality(T) < Cardinality(htable)
    BY <1>1, <1>2, <1>3
  <2> HIDE DEF g, T
  <2>2. PICK x, y \in htable : x # y /\ g[x] = g[y]
    BY <1>1, <1>3, <1>4, <2>1, FS_PigeonHole
  <2> QED
    BY <2>2 DEF g, LiveInv, CacheLive, OneTBPerKey
<1>6. Translate(k, count).insns \in 1 .. MaxInsns
  BY TranslateType
<1>7. code_gen_ptr + Translate(k, count).insns <= BufSize
  <2>1. \A a, b, c \in Nat : a + 1 <= b => a * c + c <= b * c
    OBVIOUS
  <2>2. nb_tbs * MaxInsns + MaxInsns <= N * MaxInsns
    BY <1>1, <1>2, <1>5, <2>1
  <2>3. nb_tbs * MaxInsns \in Nat /\ N * MaxInsns \in Nat
    BY <1>1, <1>2
  <2>4. N * MaxInsns <= BufSize /\ code_gen_ptr <= nb_tbs * MaxInsns
    BY DEF RoomForAll, RoomInv
  <2> HIDE DEF N
  <2>5. \A a, b, c, d, e, m \in Nat :
            a <= b /\ e <= m /\ b + m <= c /\ c <= d => a + e <= d
    OBVIOUS
  <2>6. Translate(k, count).insns \in Nat /\ MaxInsns \in Nat /\ Translate(k, count).insns <= MaxInsns
    BY <1>6, MaxInsnsType
  <2> QED
    BY <1>2, <2>2, <2>3, <2>4, <2>5, <2>6
<1>8. nb_tbs < MaxBlocks
  BY <1>1, <1>2, <1>5 DEF RoomForAll
<1> QED
  BY <1>2, <1>6, <1>7, <1>8 DEF BufferFull, CodeLen

LEMMA NoFlush ==
    ASSUME RoomForAll, TypeInv, LiveInv, RoomInv, NEW t \in Threads
    PROVE  ~ GenFlush(t)
<1> SUFFICES ASSUME GenFlush(t) PROVE FALSE
  OBVIOUS
<1>1. /\ pc[t] = "slow_cs" /\ tb_find_physical(State(t)) = {}
      /\ BufferFull(State(t), icount[t])
  BY DEF GenFlush, StillMissing
<1>2. State(t) \in Keys /\ icount[t] \in 1 .. MaxInsns
  BY <1>1 DEF TypeInv, ThreadInv, ThreadTypeOK, Searching
<1> QED
  BY <1>1, <1>2, NeverFull


(* What steps other than a flush do to the marks of stale pointers. *)
LEMMA NothingStale ==
    ASSUME TypeInv, RoomInv, NEW t \in Threads, Step(t) \/ \E k \in Keys : Call(t, k), ~ GenFlush(t)
    PROVE  stale_tb' = {} /\ stale_last' = {}
<1>0. stale_tb = {} /\ stale_last = {}
  BY DEF RoomInv
<1>1. ASSUME NEW k \in Keys, Call(t, k) PROVE stale_tb' = {} /\ stale_last' = {}
  BY <1>0, <1>1 DEF Call
<1>2. ASSUME TryLock(t) \/ Load(t) \/ GuessIcount(t) PROVE stale_tb' = {} /\ stale_last' = {}
  BY <1>0, <1>2 DEF TryLock, Load, GuessIcount
<1>3. ASSUME Lock(t) PROVE stale_tb' = {} /\ stale_last' = {}
  BY <1>0, <1>3 DEF Lock, TbLock
<1>4. ASSUME FindInJmpCache(t) \/ FindInHtable(t) PROVE stale_tb' = {} /\ stale_last' = {}
  BY <1>0, <1>4 DEF FindInJmpCache, FindInHtable
<1>5. ASSUME FindMiss(t) \/ MmapLock(t) \/ GenCode(t) PROVE stale_tb' = {} /\ stale_last' = {}
  BY <1>0, <1>5 DEF FindMiss, MmapLock, GenCode
<1>6. ASSUME Link(t) PROVE stale_tb' = {} /\ stale_last' = {}
  BY <1>0, <1>6 DEF Link
<1>7. ASSUME RunTB(t) \/ RunUndefined(t) PROVE stale_tb' = {} /\ stale_last' = {}
  BY <1>0, <1>7 DEF RunTB, RunUndefined, runFrame
<1>8. ASSUME FromCache(t) \/ Return(t) PROVE stale_tb' = {} /\ stale_last' = {}
  BY <1>0, <1>8 DEF FromCache, Return
<1> QED
  BY <1>1, <1>2, <1>3, <1>4, <1>5, <1>6, <1>7, <1>8 DEF Step

(* A state that has a translation keeps it. *)
LEMMA FoundStays ==
    ASSUME Grows, NEW s, NEW r, r = s, tb_find_physical(s) # {}
    PROVE  {x \in htable' : tbs'[x].key = r} # {}
BY DEF Grows, tb_find_physical

LEMMA CountInvOther ==
    ASSUME Grows, NEW u \in Threads, Kept(u), CountInv(u)
    PROVE  CountInv(u)'
<1> SUFFICES ASSUME pc'[u] \in Counted
             PROVE  \/ icount'[u] = neon_icount(State(u)')
                    \/ {x \in htable' : tbs'[x].key = State(u)'} # {}
  BY DEF CountInv, tb_find_physical
<1>1. pc[u] \in Counted /\ icount'[u] = icount[u] /\ State(u)' = State(u)
  BY DEF Kept, InExec, Counted
<1>2. CASE icount[u] = neon_icount(State(u))
  BY <1>1, <1>2
<1>3. CASE tb_find_physical(State(u)) # {}
  BY <1>1, <1>3, FoundStays
<1> QED
  BY <1>1, <1>2, <1>3 DEF CountInv

LEMMA CountInvMover ==
    ASSUME TypeInv, Grows, NEW t \in Threads, CountInv(t),
           Step(t) \/ \E k \in Keys : Call(t, k)
    PROVE  CountInv(t)'
<1> SUFFICES ASSUME pc'[t] \in Counted
             PROVE  \/ icount'[t] = neon_icount(State(t)')
                    \/ {x \in htable' : tbs'[x].key = State(t)'} # {}
  BY DEF CountInv, tb_find_physical
<1>0. pc \in [Threads -> PCs] /\ icount \in [Threads -> 1 .. MaxInsns] /\ cpuid \in [Threads -> Cpus]
  BY DEF TypeInv, LockInv, LockTypeOK, ThreadTypeOK
<1>1. ASSUME pc[t] \in Counted, icount' = icount, env' = env, cpuid' = cpuid
      PROVE  \/ icount'[t] = neon_icount(State(t)')
             \/ {x \in htable' : tbs'[x].key = State(t)'} # {}
  <2>1. State(t)' = State(t)
    BY <1>1 DEF State
  <2>2. CASE icount[t] = neon_icount(State(t))
    BY <1>1, <2>1, <2>2
  <2>3. CASE tb_find_physical(State(t)) # {}
    BY <2>1, <2>3, FoundStays
  <2> QED
    BY <1>1, <2>2, <2>3 DEF CountInv
<1>2. CASE GuessIcount(t)
  <2>1. /\ icount'[t] = IF GuessHit(t) THEN 1 ELSE neon_icount(State(t))
        /\ pc[t] = "guess_cs" /\ env' = env /\ cpuid' = cpuid
    BY <1>0, <1>2 DEF GuessIcount
  <2>2. State(t)' = State(t) /\ State(t) \in Keys /\ cpuid[t] \in Cpus /\ CacheInv
    BY <1>0, <2>1 DEF State, TypeInv, ThreadInv, Searching
  <2>3. CASE GuessHit(t)
    <3>1. PICK k : k = State(t)
      OBVIOUS
    <3>2. PICK x : x = JmpCacheLookup(cpuid[t], k)
      OBVIOUS
    <3>3. x \in htable /\ tbs[x].key = k
      BY <2>2, <2>3, <3>1, <3>2, JmpCacheHit DEF GuessHit
    <3>4. tb_find_physical(State(t)) # {}
      BY <3>1, <3>3 DEF tb_find_physical
    <3> QED
      BY <2>2, <3>4, FoundStays
  <2>4. CASE ~ GuessHit(t)
    BY <2>1, <2>2, <2>4
  <2> QED
    BY <2>3, <2>4
<1>3. CASE Lock(t)
  <2>1. pc[t] \in Counted /\ icount' = icount /\ env' = env /\ cpuid' = cpuid
    BY <1>0, <1>3 DEF Lock, TbLock, Goto, localVars, Counted
  <2> QED
    BY <1>1, <2>1
<1>4. CASE FindMiss(t) \/ MmapLock(t)
  <2>1. pc[t] \in Counted /\ icount' = icount /\ env' = env /\ cpuid' = cpuid
    BY <1>4 DEF FindMiss, MmapLock, localVars, Counted
  <2> QED
    BY <1>1, <2>1
<1>5. CASE GenFlush(t)
  <2>1. pc[t] \in Counted /\ icount' = icount /\ env' = env /\ cpuid' = cpuid
    BY <1>5 DEF GenFlush, localVars, Counted
  <2> QED
    BY <1>1, <2>1
<1>6. ASSUME NEW label, pc' = [pc EXCEPT ![t] = label], label \notin Counted PROVE FALSE
  BY <1>0, <1>6
<1>7. CASE \E k \in Keys : Call(t, k)
  BY <1>6, <1>7 DEF Call, Goto, Counted
<1>8. CASE TryLock(t)
  BY <1>0, <1>6, <1>8 DEF TryLock, Goto, Counted
<1>9. CASE Load(t)
  BY <1>6, <1>9 DEF Load, Goto, Counted
<1>10. CASE FindInJmpCache(t) \/ FindInHtable(t) \/ GenCode(t)
  BY <1>6, <1>10 DEF FindInJmpCache, FindInHtable, GenCode, Found, Goto, Counted
<1>11. CASE Link(t)
  BY <1>6, <1>11 DEF Link, Goto, Counted
<1>12. CASE RunTB(t) \/ RunUndefined(t)
  <2>1. pc[t] = "run" /\ (pc' = pc \/ pc' = [pc EXCEPT ![t] = "cache"])
    BY <1>12 DEF RunTB, RunUndefined, Goto
  <2> QED
    BY <1>6, <2>1 DEF Counted
<1>13. CASE FromCache(t) \/ Return(t)
  BY <1>6, <1>13 DEF FromCache, Return, Goto, Counted
<1> QED
  BY <1>2, <1>3, <1>4, <1>5, <1>7, <1>8, <1>9, <1>10, <1>11, <1>12, <1>13 DEF Step


LEMMA RoomInvStep ==
    ASSUME RoomForAll, TypeInv, LiveInv, RoomInv, [Next]_vars
    PROVE  RoomInv'
<1>1. ASSUME NEW t \in Threads, Step(t) \/ \E k \in Keys : Call(t, k) PROVE RoomInv'
  <2>1. ~ GenFlush(t)
    BY NoFlush
  <2>2. Grows /\ stale_tb' = {} /\ stale_last' = {}
    BY <1>1, <2>1, CacheGrows, NothingStale
  <2>3. \A u \in Threads : CountInv(u)'
    BY <1>1, <2>2, OthersKept, CountInvOther, CountInvMover DEF RoomInv
  <2>4. CASE GenCode(t)
    <3>0. PICK N : N = nb_tbs
      OBVIOUS
    <3>1. /\ State(t) \in Keys /\ tb_find_physical(State(t)) = {} /\ pc[t] = "slow_cs"
          /\ N \in TBs \ htable /\ nb_tbs' = N + 1
          /\ tbs'[N].key = State(t) /\ WellFormed(tbs'[N])
          /\ tbs'[N].insns = num_insns(State(t), icount[t])
          /\ \A x \in htable : tbs'[x] = tbs[x]
          /\ htable' = htable \cup {N}
          /\ code_gen_ptr' = code_gen_ptr + tbs'[N].insns
      BY <2>4, <3>0, GenCodeFacts DEF GenCode
    <3>2. N \in Nat /\ code_gen_ptr \in Nat /\ MaxInsns \in Nat
      BY <3>1, CacheAssumption, MaxInsnsType DEF TBs, TypeInv, CacheInv, CacheTypeOK
    <3>3. htable = 0 .. N - 1
      BY <3>0 DEF RoomInv
    <3>4. htable' = 0 .. nb_tbs' - 1
      BY <3>1, <3>2, <3>3
    <3>5. code_gen_ptr' <= nb_tbs' * MaxInsns
      <4>1. tbs'[N].insns \in Nat /\ tbs'[N].insns <= MaxInsns
        BY <3>1, <3>2 DEF WellFormed, TBRecord
      <4>2. code_gen_ptr <= N * MaxInsns
        BY <3>0 DEF RoomInv
      <4>3. (N + 1) * MaxInsns = N * MaxInsns + MaxInsns /\ N * MaxInsns \in Nat
        BY <3>2
      <4> QED
        BY <3>1, <3>2, <4>1, <4>2, <4>3
    <3>6. icount[t] = neon_icount(State(t))
      BY <3>1 DEF RoomInv, CountInv, Counted
    <3>7. FullRunTranslated'
      <4>1. ASSUME NEW x \in htable'
            PROVE  tbs'[x].insns = num_insns(tbs'[x].key, neon_icount(tbs'[x].key))
        <5>1. CASE x = N
          BY <3>1, <3>6, <5>1
        <5>2. CASE x \in htable
          BY <3>1, <5>2 DEF RoomInv, FullRunTranslated
        <5> QED
          BY <3>1, <5>1, <5>2
      <4> QED
        BY <4>1 DEF FullRunTranslated
    <3> QED
      BY <2>2, <2>3, <3>4, <3>5, <3>7 DEF RoomInv
  <2>5. CASE Link(t) \/ Quiet
    <3>1. UNCHANGED <<nb_tbs, code_gen_ptr, htable, tbs>>
      BY <2>5 DEF Link, Quiet
    <3>2. FullRunTranslated'
      BY <3>1 DEF RoomInv, FullRunTranslated
    <3> QED
      BY <2>2, <2>3, <3>1, <3>2 DEF RoomInv
  <2> QED
    BY <1>1, <2>1, <2>4, <2>5, CacheSteps
<1>2. CASE UNCHANGED vars
  <2>1. UNCHANGED <<nb_tbs, code_gen_ptr, htable, tbs, stale_tb, stale_last, pc, icount, env, cpuid>>
    BY <1>2 DEF vars, cacheVars, localVars
  <2>2. \A u \in Threads : CountInv(u)'
    BY <2>1 DEF RoomInv, CountInv, State, tb_find_physical
  <2>3. FullRunTranslated'
    BY <2>1 DEF RoomInv, FullRunTranslated
  <2> QED
    BY <2>1, <2>2, <2>3 DEF RoomInv
<1> QED
  BY <1>1, <1>2 DEF Next, Finished

LEMMA RoomInvHolds == ASSUME RoomForAll PROVE Spec => [](TypeInv /\ LiveInv /\ RoomInv)
<1>1. TypeInv /\ LiveInv /\ RoomInv /\ [Next]_vars => RoomInv'
  BY RoomInvStep
<1> QED
  BY <1>1, LiveInvHolds, RoomInvInit, PTL DEF Spec

(* tb_gen_code translates whole runs: the count 1 that guess_icount makes  *)
(* do with on a hit is never used, although the lock is given up between   *)
(* the guess and the translation, as long as no flush forgets the TB.      *)
THEOREM FullRunsTranslated == ASSUME RoomForAll PROVE Spec => []FullRunTranslated
<1>1. RoomInv => FullRunTranslated
  BY DEF RoomInv
<1> QED
  BY <1>1, RoomInvHolds, PTL


-----------------------------------------------------------------------------
(* Chains, in programs where every TB is left through slot 1.              *)

(* Where the guest is after the TB x. *)
Behind(x) == After(tbs[x].key, tbs[x].insns)

(* A jump is patched exactly when its slot is on a list, and leads to the  *)
(* TB that comes next.                                                     *)
LinksInv ==
    /\ stray = {}
    /\ \A x \in htable :
          /\ jmp[First(x)] # NULL
          /\ Chained(x, 1) <=> target[<<x, 1>>] # NULL
          /\ target[<<x, 1>>] # NULL => tbs[target[<<x, 1>>]].key = Behind(x)

(* A thread that entered the TB x has gone through all of it: exec() may   *)
(* take slot 1 of x for the one that was left, because when it is not, and *)
(* a later TB was left, slot 1 of x is chained and stays as it is.         *)
LeftFrom(x, exit, k) == exit = 1 /\ x \in htable /\ (Chained(x, 1) \/ k = Behind(x))

RunInv(t) ==
    /\ pc[t] \in {"link", "run", "cache", "cache_cs"} => tb[t] # NULL
    /\ pc[t] = "link" => cur[t] = tb[t]
    /\ pc[t] \in {"link", "run"} /\ t \notin stale_tb =>
          /\ cur[t] \in htable /\ tbs[cur[t]].key = State(t)
          /\ cur[t] = tb[t] \/ Chained(tb[t], 1)
    /\ pc[t] \in {"cache", "cache_cs"} /\ t \notin stale_tb =>
          LeftFrom(tb[t], tb_exit[t], State(t))
    /\ pc[t] \in Searching \cup {"link"} /\ last_tb[t] # NULL /\ t \notin stale_last =>
          LeftFrom(last_tb[t], tb_exit[t], State(t))

ChainInv == LinksInv /\ \A t \in Threads : RunInv(t)

LEMMA NeonExits ==
    ASSUME OnlyNeon, NEW b, WellFormed(b)
    PROVE  b.exits = {1} /\ b.slots = {1}
<1>1. InsnAt(After(b.key, b.insns - 1)) \in {"neon", "other"}
  BY DEF OnlyNeon, InsnAt
<1>2. ExitsOf(InsnAt(After(b.key, b.insns - 1))) = {1}
  BY <1>1 DEF ExitsOf
<1> QED
  BY <1>2 DEF WellFormed, NoSlot

LEMMA ChainInvInit == Init => ChainInv
BY DEF Init, CacheInit, ChainInv, LinksInv, RunInv, Searching

LEMMA LinksFrame ==
    ASSUME LinksInv, UNCHANGED <<htable, tbs, jmp, target, stray>>
    PROVE  LinksInv'
BY DEF LinksInv, Chained, Behind

LEMMA LinksFlush ==
    ASSUME LinksInv, NEW t \in Threads, GenFlush(t)
    PROVE  LinksInv' /\ htable' = {}
<1>1. htable' = {} /\ stray' = stray
  BY DEF GenFlush, TbFlush, jmpVars
<1> QED
  BY <1>1 DEF LinksInv

LEMMA LinksGen ==
    ASSUME TypeInv, LiveInv, LinksInv, NEW t \in Threads, GenCode(t)
    PROVE  LinksInv'
<1>1. PICK N : N = nb_tbs
  OBVIOUS
<1>2. /\ N \in TBs \ htable /\ htable' = htable \cup {N}
      /\ \A x \in htable : tbs'[x] = tbs[x]
      /\ jmp' = [jmp EXCEPT ![First(N)] = First(N), ![<<N, 0>>] = NULL, ![<<N, 1>>] = NULL]
      /\ target' = [target EXCEPT ![<<N, 0>>] = NULL, ![<<N, 1>>] = NULL]
      /\ stray' = stray \ {N}
  BY <1>1, GenCodeFacts
<1>3. /\ jmp \in [JmpFields -> JmpFields \cup {NULL}]
      /\ target \in [JmpSlots -> TBs \cup {NULL}]
      /\ htable \subseteq TBs /\ NULL \notin JmpFields
  BY CacheAssumption DEF TypeInv, CacheInv, CacheTypeOK, JmpFields
<1>4. \A x \in TBs : /\ First(x) \in JmpFields /\ <<x, 0>> \in JmpFields
                     /\ <<x, 1>> \in JmpFields /\ <<x, 1>> \in JmpSlots
  BY DEF First, JmpFields, JmpSlots, Slots
<1>5. stray' = {}
  BY <1>2 DEF LinksInv
<1>6. jmp'[First(N)] # NULL /\ jmp'[<<N, 1>>] = NULL /\ target'[<<N, 1>>] = NULL
  BY <1>2, <1>3, <1>4 DEF First
<1>7. ASSUME NEW x \in htable
      PROVE  /\ jmp'[First(x)] = jmp[First(x)] /\ jmp'[<<x, 1>>] = jmp[<<x, 1>>]
             /\ target'[<<x, 1>>] = target[<<x, 1>>]
  BY <1>2, <1>3, <1>4 DEF First
<1>8. \A x \in htable : target[<<x, 1>>] # NULL => target[<<x, 1>>] \in htable
  BY DEF LiveInv, CacheLive, ChainsLive, Slots
<1>9. ASSUME NEW x \in htable'
      PROVE  /\ jmp'[First(x)] # NULL
             /\ jmp'[<<x, 1>>] # NULL <=> target'[<<x, 1>>] # NULL
             /\ target'[<<x, 1>>] # NULL =>
                   tbs'[target'[<<x, 1>>]].key = After(tbs'[x].key, tbs'[x].insns)
  <2>1. CASE x = N
    BY <1>6, <2>1
  <2>2. CASE x \in htable
    <3>1. PICK y : y = target[<<x, 1>>]
      OBVIOUS
    <3>2. /\ jmp'[First(x)] = jmp[First(x)] /\ jmp'[<<x, 1>>] = jmp[<<x, 1>>]
          /\ target'[<<x, 1>>] = y
      BY <1>7, <2>2, <3>1
    <3>3. /\ jmp[First(x)] # NULL /\ (jmp[<<x, 1>>] # NULL <=> y # NULL)
          /\ y # NULL => tbs[y].key = After(tbs[x].key, tbs[x].insns)
      BY <2>2, <3>1 DEF LinksInv, Chained, Behind
    <3>4. tbs'[x] = tbs[x] /\ (y # NULL => tbs'[y] = tbs[y])
      BY <1>2, <1>8, <2>2, <3>1
    <3> QED
      BY <3>2, <3>3, <3>4
  <2> QED
    BY <1>2, <2>1, <2>2
<1> QED
  BY <1>5, <1>9 DEF LinksInv, Chained, Behind

(* Slot 1 of x is chained to d. *)
LEMMA LinksAdd ==
    ASSUME OnlyNeon, TypeInv, LinksInv, NEW x \in htable, NEW d \in htable,
           Chained(x, 1) \/ tbs[d].key = Behind(x),
           TbAddJump(x, 1, d), UNCHANGED <<htable, tbs>>
    PROVE  LinksInv'
<1>1. CASE Chained(x, 1)
  BY <1>1, LinksFrame DEF TbAddJump, jmpVars
<1>2. CASE ~ Chained(x, 1)
  <2>1. /\ target' = [target EXCEPT ![<<x, 1>>] = d]
        /\ stray' = IF 1 \in tbs[x].slots THEN stray ELSE stray \cup {x}
        /\ jmp' = [jmp EXCEPT ![<<x, 1>>] = jmp[First(d)], ![First(d)] = <<x, 1>>]
    BY <1>2 DEF TbAddJump, TbSetJmpTarget
  <2>2. /\ jmp \in [JmpFields -> JmpFields \cup {NULL}]
        /\ target \in [JmpSlots -> TBs \cup {NULL}]
        /\ htable \subseteq TBs /\ NULL \notin JmpFields /\ NULL \notin TBs
    BY CacheAssumption DEF TypeInv, CacheInv, CacheTypeOK, JmpFields
  <2>3. \A y \in TBs : /\ First(y) \in JmpFields /\ <<y, 1>> \in JmpFields
                       /\ <<y, 1>> \in JmpSlots
    BY DEF First, JmpFields, JmpSlots, Slots
  <2>4. stray' = {}
    <3>1. 1 \in tbs[x].slots
      BY NeonExits DEF TypeInv, CacheInv, PointersInv, Written
    <3> QED
      BY <2>1, <3>1 DEF LinksInv
  <2>5. /\ jmp'[<<x, 1>>] # NULL /\ target'[<<x, 1>>] = d /\ target'[<<x, 1>>] # NULL
        /\ jmp'[First(d)] # NULL
    BY <2>1, <2>2, <2>3 DEF LinksInv, First
  <2>6. ASSUME NEW y \in htable, y # x
        PROVE  jmp'[<<y, 1>>] = jmp[<<y, 1>>] /\ target'[<<y, 1>>] = target[<<y, 1>>]
    <3>1. <<y, 1>> # <<x, 1>> /\ <<y, 1>> # First(d)
      BY <2>6 DEF First
    <3>2. <<y, 1>> \in JmpFields /\ <<y, 1>> \in JmpSlots
      BY <2>2, <2>3
    <3> QED
      BY <2>1, <2>2, <3>1, <3>2
  <2>7. ASSUME NEW y \in htable PROVE jmp'[First(y)] # NULL
    <3>1. CASE y = d
      BY <2>5, <3>1
    <3>2. CASE y # d
      BY <2>1, <2>2, <2>3, <3>2 DEF First, LinksInv
    <3> QED
      BY <3>1, <3>2
  <2>8. ASSUME NEW y \in htable'
        PROVE  /\ jmp'[First(y)] # NULL
               /\ jmp'[<<y, 1>>] # NULL <=> target'[<<y, 1>>] # NULL
               /\ target'[<<y, 1>>] # NULL =>
                     tbs'[target'[<<y, 1>>]].key = After(tbs'[y].key, tbs'[y].insns)
    <3>1. CASE y = x
      BY <1>2, <2>5, <2>7, <3>1 DEF Behind
    <3>2. CASE y # x
      BY <2>6, <2>7, <3>2 DEF LinksInv, Chained, Behind
    <3> QED
      BY <3>1, <3>2
  <2> QED
    BY <2>4, <2>8 DEF LinksInv, Chained, Behind
<1> QED
  BY <1>1, <1>2

(* The calling TB that tb_find_fast is about to chain is not stale. *)
LEMMA LinkFacts ==
    ASSUME TypeInv, LiveInv, NEW t \in Threads, RunInv(t), pc[t] = "link"
    PROVE  /\ tb[t] \in htable /\ tbs[tb[t]].key = State(t) /\ t \notin stale_tb
           /\ cur[t] = tb[t]
           /\ MayChain(t) => /\ last_tb[t] \in htable /\ tb_exit[t] = 1
                             /\ Chained(last_tb[t], 1) \/ State(t) = Behind(last_tb[t])
<1>1. PointersLive(t)
  BY DEF LiveInv
<1>2. t \notin stale_tb /\ cur[t] = tb[t] /\ tb[t] \in htable /\ tbs[tb[t]].key = State(t)
  BY <1>1 DEF PointersLive, RunInv
<1>3. MayChain(t) => last_tb[t] # NULL /\ t \notin stale_last
  BY <1>1 DEF PointersLive, MayChain
<1> QED
  BY <1>2, <1>3 DEF RunInv, LeftFrom

LEMMA LinksLink ==
    ASSUME OnlyNeon, TypeInv, LiveInv, ChainInv, NEW t \in Threads, Link(t)
    PROVE  LinksInv'
<1>1. pc[t] = "link" /\ LinksInv /\ UNCHANGED <<htable, tbs>>
  BY DEF Link, ChainInv
<1>2. /\ tb[t] \in htable /\ tbs[tb[t]].key = State(t)
      /\ MayChain(t) => /\ last_tb[t] \in htable /\ tb_exit[t] = 1
                        /\ Chained(last_tb[t], 1) \/ State(t) = Behind(last_tb[t])
  BY <1>1, LinkFacts DEF ChainInv
<1>3. CASE MayChain(t)
  <2>1. PICK x, d : x = last_tb[t] /\ d = tb[t]
    OBVIOUS
  <2>2. TbAddJump(x, 1, d)
    BY <1>2, <1>3, <2>1 DEF Link
  <2> QED
    BY <1>1, <1>2, <1>3, <2>1, <2>2, LinksAdd
<1>4. CASE ~ MayChain(t)
  BY <1>1, <1>4, LinksFrame DEF Link, jmpVars
<1> QED
  BY <1>3, <1>4


(* A step of another thread. *)
LEMMA RunInvOther ==
    ASSUME LiveInv, Grows, NEW u \in Threads, Kept(u), MarksKept(u), RunInv(u)
    PROVE  RunInv(u)'
<1>1. PointersLive(u)
  BY DEF LiveInv
<1>2. /\ pc'[u] = pc[u] /\ tb'[u] = tb[u] /\ last_tb'[u] = last_tb[u]
      /\ tb_exit'[u] = tb_exit[u] /\ cur'[u] = cur[u]
      /\ u \in stale_tb' <=> u \in stale_tb
      /\ u \in stale_last' <=> u \in stale_last
  BY DEF Kept, MarksKept
<1>3. pc[u] \notin {"idle", "trylock"} => State(u)' = State(u)
  BY DEF Kept, InExec
<1>4. ASSUME NEW x, NEW e, NEW k, LeftFrom(x, e, k)
      PROVE  /\ e = 1 /\ x \in htable'
             /\ jmp'[<<x, 1>>] # NULL \/ k = After(tbs'[x].key, tbs'[x].insns)
  BY <1>4 DEF LeftFrom, Grows, Chained, Behind
<1>5. ASSUME pc'[u] \in {"link", "run"}, u \notin stale_tb'
      PROVE  /\ cur'[u] \in htable' /\ tbs'[cur'[u]].key = State(u)'
             /\ cur'[u] = tb'[u] \/ jmp'[<<tb'[u], 1>>] # NULL
  <2>1. /\ cur[u] \in htable /\ tbs[cur[u]].key = State(u)
        /\ cur[u] = tb[u] \/ Chained(tb[u], 1)
    BY <1>2, <1>5 DEF RunInv
  <2>2. tb[u] \in htable
    BY <1>1, <1>2, <1>5 DEF RunInv, PointersLive
  <2> QED
    BY <1>2, <1>3, <1>5, <2>1, <2>2 DEF Grows, Chained
<1>6. ASSUME pc'[u] \in {"cache", "cache_cs"}, u \notin stale_tb'
      PROVE  /\ tb_exit'[u] = 1 /\ tb'[u] \in htable'
             /\ jmp'[<<tb'[u], 1>>] # NULL \/ State(u)' = After(tbs'[tb'[u]].key, tbs'[tb'[u]].insns)
  <2>1. LeftFrom(tb[u], tb_exit[u], State(u))
    BY <1>2, <1>6 DEF RunInv
  <2> QED
    BY <1>2, <1>3, <1>4, <1>6, <2>1
<1>7. ASSUME pc'[u] \in Searching \cup {"link"}, last_tb'[u] # NULL, u \notin stale_last'
      PROVE  /\ tb_exit'[u] = 1 /\ last_tb'[u] \in htable'
             /\ jmp'[<<last_tb'[u], 1>>] # NULL
                   \/ State(u)' = After(tbs'[last_tb'[u]].key, tbs'[last_tb'[u]].insns)
  <2>1. LeftFrom(last_tb[u], tb_exit[u], State(u))
    BY <1>2, <1>7 DEF RunInv
  <2> QED
    BY <1>2, <1>3, <1>4, <1>7, <2>1 DEF Searching
<1>8. pc'[u] \in {"link", "run", "cache", "cache_cs"} => tb'[u] # NULL
  BY <1>2 DEF RunInv
<1>9. pc'[u] = "link" => cur'[u] = tb'[u]
  BY <1>2 DEF RunInv
<1> QED
  BY <1>5, <1>6, <1>7, <1>8, <1>9 DEF RunInv, LeftFrom, Chained, Behind

(* A flush marks every pointer, and no one else is at link. *)
LEMMA RunInvFlush ==
    ASSUME TypeInv, NEW t \in Threads, GenFlush(t), NEW u \in Threads, RunInv(u)
    PROVE  RunInv(u)'
<1>1. /\ pc[t] = "slow_cs"
      /\ stale_tb' = {v \in Threads : tb[v] # NULL}
      /\ stale_last' = {v \in Threads : last_tb[v] # NULL}
      /\ UNCHANGED <<pc, tb, last_tb, cur>>
  BY DEF GenFlush, localVars
<1>2. pc[u] # "link"
  BY <1>1 DEF TypeInv, LockInv, TbHeld
<1>3. pc[u] \in {"run", "cache", "cache_cs"} => u \in stale_tb'
  BY <1>1 DEF RunInv
<1>4. last_tb[u] # NULL => u \in stale_last'
  BY <1>1
<1> QED
  BY <1>1, <1>2, <1>3, <1>4 DEF RunInv

(* The thread that steps goes from one label of the search to the next. *)
LEMMA RunInvMove ==
    ASSUME TypeInv, LiveInv, NEW t \in Threads, RunInv(t), Quiet,
           NEW label, pc' = [pc EXCEPT ![t] = label], label \notin {"link", "run"},
           label \in {"cache", "cache_cs"} => pc[t] \in {"cache", "cache_cs"},
           label \in Searching => pc[t] \in Searching,
           UNCHANGED <<env, cpuid, tb, last_tb, tb_exit, cur, stale_tb, stale_last>>
    PROVE  RunInv(t)'
<1>1. pc'[t] = label /\ State(t)' = State(t) /\ label # "link"
  BY DEF TypeInv, LockInv, LockTypeOK, State
<1>2. ASSUME label \in {"cache", "cache_cs"}, t \notin stale_tb
      PROVE  tb[t] # NULL /\ LeftFrom(tb[t], tb_exit[t], State(t))
  BY <1>2 DEF RunInv
<1>3. ASSUME label \in Searching, last_tb[t] # NULL, t \notin stale_last
      PROVE  LeftFrom(last_tb[t], tb_exit[t], State(t))
  BY <1>3 DEF RunInv
<1>4. \A x, e, k : LeftFrom(x, e, k) =>
          /\ e = 1 /\ x \in htable'
          /\ jmp'[<<x, 1>>] # NULL \/ k = After(tbs'[x].key, tbs'[x].insns)
  BY DEF Quiet, LeftFrom, Chained, Behind
<1>5. label \in {"link", "run", "cache", "cache_cs"} => tb[t] # NULL
  BY DEF RunInv
<1> QED
  BY <1>1, <1>2, <1>3, <1>4, <1>5 DEF RunInv, LeftFrom, Chained, Behind


(* Outside the loop of exec() there is nothing to say. *)
LEMMA RunInvOut ==
    ASSUME NEW t \in Threads,
           pc'[t] \notin Searching \cup {"link", "run", "cache", "cache_cs"}
    PROVE  RunInv(t)'
BY DEF RunInv

LEMMA RunInvFound ==
    ASSUME TypeInv, Grows, NEW t \in Threads, RunInv(t), pc[t] \in {"find_cs", "slow_cs"},
           NEW x \in TBs, x \in htable', Found(t, x), tbs'[x].key = State(t),
           UNCHANGED <<env, cpuid, last_tb, tb_exit, stale_last>>
    PROVE  RunInv(t)'
<1>0. x # NULL
  BY CacheAssumption
<1>1. pc'[t] = "link" /\ tb'[t] = x /\ cur'[t] = x /\ State(t)' = State(t)
  BY DEF Found, Goto, State, TypeInv, LockInv, LockTypeOK, ThreadTypeOK
<1>2. ASSUME last_tb[t] # NULL, t \notin stale_last
      PROVE  /\ tb_exit[t] = 1 /\ last_tb[t] \in htable'
             /\ \/ jmp'[<<last_tb[t], 1>>] # NULL
                \/ State(t) = After(tbs'[last_tb[t]].key, tbs'[last_tb[t]].insns)
  <2>1. LeftFrom(last_tb[t], tb_exit[t], State(t))
    BY <1>2 DEF RunInv, Searching
  <2> QED
    BY <2>1 DEF LeftFrom, Grows, Chained, Behind
<1> QED
  BY <1>0, <1>1, <1>2 DEF RunInv, LeftFrom, Chained, Behind

LEMMA RunInvRun ==
    ASSUME OnlyNeon, TypeInv, LiveInv, ChainInv, NEW t \in Threads, RunTB(t)
    PROVE  RunInv(t)'
<1>0. /\ pc[t] = "run" /\ Quiet /\ RunInv(t) /\ LinksInv
      /\ UNCHANGED <<cpuid, tb, last_tb, stale_tb, stale_last>>
  BY DEF RunTB, runFrame, cacheVars, jmpVars, Quiet, ChainInv
<1>1. tb[t] # NULL /\ (pc'[t] = "run" \/ pc'[t] = "cache")
  BY <1>0 DEF RunTB, Goto, RunInv, TypeInv, LockInv, LockTypeOK
<1>2. CASE t \in stale_tb
  BY <1>0, <1>1, <1>2 DEF RunInv, Searching
<1>3. CASE t \notin stale_tb
  <2>1. PICK c : c = cur[t]
    OBVIOUS
  <2>2. /\ c \in htable /\ tbs[c].key = State(t)
        /\ c = tb[t] \/ Chained(tb[t], 1)
    BY <1>0, <1>3, <2>1 DEF RunInv
  <2>3. tbs[c].exits = {1}
    BY <2>2, NeonExits DEF TypeInv, CacheInv, PointersInv, Written
  <2>4. tb[t] \in htable
    BY <1>1, <1>3 DEF LiveInv, PointersLive
  <2>5. /\ \E k \in StatesAfter(tbs[c], 1) : env' = [env EXCEPT ![cpuid[t]] = k]
        /\ LET next == target[<<c, 1>>]
           IN  IF next # NULL
               THEN /\ cur' = [cur EXCEPT ![t] = next]
                    /\ UNCHANGED <<pc, tb_exit>>
               ELSE /\ cur' = [cur EXCEPT ![t] = NULL]
                    /\ tb_exit' = [tb_exit EXCEPT ![t] = 1]
                    /\ pc' = [pc EXCEPT ![t] = "cache"]
    <3>1. PICK exit \in tbs[c].exits :
             /\ \E k \in StatesAfter(tbs[c], exit) : env' = [env EXCEPT ![cpuid[t]] = k]
             /\ LET next == IF exit = NoSlot THEN NULL ELSE target[<<c, exit>>]
                IN  IF next # NULL
                    THEN /\ cur' = [cur EXCEPT ![t] = next]
                         /\ UNCHANGED <<pc, tb_exit>>
                    ELSE /\ cur' = [cur EXCEPT ![t] = NULL]
                         /\ tb_exit' = [tb_exit EXCEPT ![t] = IF exit = NoSlot THEN 0 ELSE exit]
                         /\ pc' = [pc EXCEPT ![t] = "cache"]
      BY <2>1 DEF RunTB, Goto
    <3>2. exit = 1 /\ exit # NoSlot
      BY <2>3, <3>1 DEF NoSlot
    <3> QED
      BY <3>1, <3>2
  <2>6. StatesAfter(tbs[c], 1) = {Behind(c)}
    BY DEF StatesAfter, Behind
  <2>7. State(t)' = Behind(c)
    <3>1. env' = [env EXCEPT ![cpuid[t]] = Behind(c)]
      BY <2>5, <2>6
    <3>2. cpuid[t] \in Cpus /\ env \in [Cpus -> GuestStates \cup {NULL}]
      BY DEF TypeInv, LockInv, LockTypeOK, ThreadTypeOK
    <3> QED
      BY <1>0, <3>1, <3>2 DEF State
  <2>8. CASE target[<<c, 1>>] # NULL
    <3>1. PICK d : d = target[<<c, 1>>]
      OBVIOUS
    <3>2. d \in htable /\ tbs[d].key = Behind(c) /\ Chained(c, 1)
      BY <1>0, <2>2, <2>8, <3>1 DEF LinksInv, LiveInv, CacheLive, ChainsLive, Slots
    <3>3. cur'[t] = d /\ pc'[t] = "run"
      BY <1>0, <2>5, <2>8, <3>1 DEF TypeInv, ThreadTypeOK
    <3>4. Chained(tb[t], 1)
      BY <2>2, <3>2
    <3>5. /\ cur'[t] \in htable' /\ tbs'[cur'[t]].key = State(t)' /\ jmp'[<<tb'[t], 1>>] # NULL
      BY <1>0, <2>7, <3>2, <3>3, <3>4 DEF Quiet, Chained
    <3> QED
      BY <1>0, <1>1, <3>3, <3>5 DEF RunInv, Chained, Searching
  <2>9. CASE target[<<c, 1>>] = NULL
    <3>1. tb_exit'[t] = 1 /\ pc'[t] = "cache"
      BY <2>5, <2>9 DEF TypeInv, ThreadTypeOK, LockInv, LockTypeOK
    <3>2. /\ tb'[t] \in htable'
          /\ \/ jmp'[<<tb'[t], 1>>] # NULL
             \/ State(t)' = After(tbs'[tb'[t]].key, tbs'[tb'[t]].insns)
      BY <1>0, <2>2, <2>4, <2>7 DEF Quiet, Chained, Behind
    <3> QED
      BY <1>0, <1>1, <3>1, <3>2 DEF RunInv, LeftFrom, Chained, Behind, Searching
  <2> QED
    BY <2>8, <2>9
<1> QED
  BY <1>2, <1>3

LEMMA RunInvLink ==
    ASSUME TypeInv, LiveInv, NEW t \in Threads, RunInv(t), Link(t)
    PROVE  RunInv(t)'
<1>0. /\ pc[t] = "link" /\ pc' = [pc EXCEPT ![t] = "run"]
      /\ last_tb' = [last_tb EXCEPT ![t] = NULL]
      /\ UNCHANGED <<htable, tbs, env, cpuid, tb, tb_exit, cur, stale_tb>>
  BY DEF Link, Goto
<1>1. pc'[t] = "run" /\ last_tb'[t] = NULL /\ State(t)' = State(t)
  BY <1>0 DEF TypeInv, LockInv, LockTypeOK, ThreadTypeOK, State
<1>2. tb[t] \in htable /\ tbs[tb[t]].key = State(t) /\ cur[t] = tb[t]
  BY <1>0, LinkFacts
<1>3. tb[t] # NULL
  BY <1>0 DEF RunInv
<1> QED
  BY <1>0, <1>1, <1>2, <1>3 DEF RunInv, Searching

LEMMA RunInvFromCache ==
    ASSUME TypeInv, LiveInv, NEW t \in Threads, RunInv(t), FromCache(t)
    PROVE  RunInv(t)'
<1>0. /\ pc[t] = "cache_cs" /\ Quiet
      /\ UNCHANGED <<env, cpuid, tb, tb_exit, cur, stale_tb>>
      /\ \/ /\ last_tb' = [last_tb EXCEPT ![t] = tb[t]]
            /\ stale_last' = IF t \in stale_tb THEN stale_last \cup {t} ELSE stale_last
            /\ pc' = [pc EXCEPT ![t] = "guess"]
         \/ pc' = [pc EXCEPT ![t] = "return"]
  BY DEF FromCache, Goto, Quiet, cacheVars, jmpVars
<1>1. CASE pc' = [pc EXCEPT ![t] = "return"]
  <2>1. pc'[t] = "return"
    BY <1>1 DEF TypeInv, LockInv, LockTypeOK
  <2> QED
    BY <2>1, RunInvOut DEF Searching
<1>2. CASE /\ last_tb' = [last_tb EXCEPT ![t] = tb[t]]
           /\ stale_last' = IF t \in stale_tb THEN stale_last \cup {t} ELSE stale_last
           /\ pc' = [pc EXCEPT ![t] = "guess"]
  <2>1. pc'[t] = "guess" /\ last_tb'[t] = tb[t] /\ State(t)' = State(t)
    BY <1>0, <1>2 DEF TypeInv, LockInv, LockTypeOK, ThreadTypeOK, State
  <2>2. ASSUME t \notin stale_last'
        PROVE  /\ tb_exit'[t] = 1 /\ last_tb'[t] \in htable'
               /\ \/ jmp'[<<last_tb'[t], 1>>] # NULL
                  \/ State(t)' = After(tbs'[last_tb'[t]].key, tbs'[last_tb'[t]].insns)
    <3>1. LeftFrom(tb[t], tb_exit[t], State(t))
      BY <1>0, <1>2, <2>2 DEF RunInv
    <3> QED
      BY <1>0, <2>1, <3>1 DEF LeftFrom, Quiet, Chained, Behind
  <2> QED
    BY <2>1, <2>2 DEF RunInv, LeftFrom, Chained, Behind
<1> QED
  BY <1>0, <1>1, <1>2

LEMMA RunInvMover ==
    ASSUME OnlyNeon, TypeInv, LiveInv, ChainInv, NEW t \in Threads,
           Step(t) \/ \E k \in Keys : Call(t, k), ~ GenFlush(t)
    PROVE  RunInv(t)'
<1>0. /\ RunInv(t) /\ Grows /\ pc \in [Threads -> PCs] /\ PointersLive(t)
      /\ CacheInv /\ htable \subseteq TBs /\ cpuid[t] \in Cpus /\ stray = {}
      /\ pc[t] \in Searching => State(t) \in Keys
  BY CacheGrows DEF ChainInv, LinksInv, TypeInv, LockInv, LockTypeOK, LiveInv, ThreadInv,
                    CacheInv, CacheTypeOK
<1>1. CASE (\E k \in Keys : Call(t, k)) \/ Return(t) \/ TryLock(t)
  <2>1. pc'[t] \in {"trylock", "load", "idle"}
    BY <1>0, <1>1 DEF Call, Return, TryLock, Goto
  <2> QED
    BY <2>1, RunInvOut DEF Searching
<1>2. CASE Load(t)
  <2>1. pc'[t] = "guess" /\ last_tb'[t] = NULL
    BY <1>0, <1>2 DEF Load, Goto, localVars, PointersLive
  <2> QED
    BY <2>1 DEF RunInv
<1>3. CASE Lock(t)
  <2>1. /\ Quiet
        /\ UNCHANGED <<env, cpuid, tb, last_tb, tb_exit, cur, stale_tb, stale_last>>
        /\ \E at, inside \in PCs : TbLock(t, at, inside)
    BY <1>3 DEF Lock, TbLock, Quiet, cacheVars, jmpVars, localVars, PCs
  <2>2. PICK label : /\ pc' = [pc EXCEPT ![t] = label]
                     /\ label \notin {"link", "run"}
                     /\ label \in {"cache", "cache_cs"} => pc[t] \in {"cache", "cache_cs"}
                     /\ label \in Searching => pc[t] \in Searching
    BY <1>3 DEF Lock, TbLock, Goto, Searching
  <2> QED
    BY <1>0, <2>1, <2>2, RunInvMove
<1>4. CASE GuessIcount(t)
  <2>0. PICK label : label = "find"
    OBVIOUS
  <2>1. /\ Quiet /\ pc' = [pc EXCEPT ![t] = label] /\ pc[t] \in Searching
        /\ UNCHANGED <<env, cpuid, tb, last_tb, tb_exit, cur, stale_tb, stale_last>>
    BY <1>4, <2>0 DEF GuessIcount, Goto, Quiet, cacheVars, jmpVars, Searching
  <2>2. /\ label \notin {"link", "run"}
        /\ label \in {"cache", "cache_cs"} => pc[t] \in {"cache", "cache_cs"}
        /\ label \in Searching => pc[t] \in Searching
    BY <2>0, <2>1
  <2> QED
    BY <1>0, <2>1, <2>2, RunInvMove
<1>5. CASE FindMiss(t)
  <2>0. PICK label : label = "mmap"
    OBVIOUS
  <2>1. /\ Quiet /\ pc' = [pc EXCEPT ![t] = label] /\ pc[t] \in Searching
        /\ UNCHANGED <<env, cpuid, tb, last_tb, tb_exit, cur, stale_tb, stale_last>>
    BY <1>5, <2>0 DEF FindMiss, Goto, Quiet, cacheVars, jmpVars, localVars, Searching
  <2>2. /\ label \notin {"link", "run"}
        /\ label \in {"cache", "cache_cs"} => pc[t] \in {"cache", "cache_cs"}
        /\ label \in Searching => pc[t] \in Searching
    BY <2>0, <2>1
  <2> QED
    BY <1>0, <2>1, <2>2, RunInvMove
<1>6. CASE MmapLock(t)
  <2>0. PICK label : label = "relock"
    OBVIOUS
  <2>1. /\ Quiet /\ pc' = [pc EXCEPT ![t] = label] /\ pc[t] \in Searching
        /\ UNCHANGED <<env, cpuid, tb, last_tb, tb_exit, cur, stale_tb, stale_last>>
    BY <1>6, <2>0 DEF MmapLock, Goto, Quiet, cacheVars, jmpVars, localVars, Searching
  <2>2. /\ label \notin {"link", "run"}
        /\ label \in {"cache", "cache_cs"} => pc[t] \in {"cache", "cache_cs"}
        /\ label \in Searching => pc[t] \in Searching
    BY <2>0, <2>1
  <2> QED
    BY <1>0, <2>1, <2>2, RunInvMove
<1>7. CASE FindInJmpCache(t)
  <2>1. /\ pc[t] = "find_cs" /\ UNCHANGED <<htable, tbs, env, cpuid, last_tb, tb_exit, stale_last>>
        /\ JmpCacheLookup(cpuid[t], State(t)) # NULL
    BY <1>7 DEF FindInJmpCache, cacheVars
  <2>2. State(t) \in Keys
    BY <1>0, <2>1 DEF Searching
  <2>3. PICK x : x = JmpCacheLookup(cpuid[t], State(t))
    OBVIOUS
  <2>4. x \in htable /\ tbs[x].key = State(t) /\ Found(t, x)
    BY <1>0, <1>7, <2>1, <2>2, <2>3, JmpCacheHit DEF FindInJmpCache
  <2> QED
    BY <1>0, <2>1, <2>4, RunInvFound
<1>8. CASE FindInHtable(t)
  <2>1. /\ pc[t] \in {"find_cs", "slow_cs"}
        /\ UNCHANGED <<htable, tbs, env, cpuid, last_tb, tb_exit, stale_last>>
    BY <1>8 DEF FindInHtable
  <2>2. PICK x \in htable : tbs[x].key = State(t) /\ Found(t, x)
    BY <1>8 DEF FindInHtable, tb_find_physical
  <2> QED
    BY <1>0, <2>1, <2>2, RunInvFound
<1>9. CASE GenCode(t)
  <2>1. /\ pc[t] \in {"find_cs", "slow_cs"} /\ Found(t, nb_tbs)
        /\ UNCHANGED <<env, cpuid, last_tb, tb_exit, stale_last>>
    BY <1>9 DEF GenCode
  <2>2. PICK x : x = nb_tbs
    OBVIOUS
  <2>3. x \in TBs /\ x \in htable' /\ tbs'[x].key = State(t) /\ Found(t, x)
    BY <1>9, <2>1, <2>2, GenCodeFacts
  <2> QED
    BY <1>0, <2>1, <2>3, RunInvFound
<1>10. CASE RunUndefined(t)
  <2>1. /\ pc[t] = "run" /\ pc' = [pc EXCEPT ![t] = "cache"] /\ t \in stale_tb
        /\ UNCHANGED <<tb, stale_tb>>
    BY <1>0, <1>10 DEF RunUndefined, runFrame, Goto
  <2>2. pc'[t] = "cache" /\ tb'[t] # NULL /\ t \in stale_tb'
    BY <1>0, <2>1 DEF RunInv
  <2> QED
    BY <2>2 DEF RunInv, Searching
<1> QED
  BY <1>0, <1>1, <1>2, <1>3, <1>4, <1>5, <1>6, <1>7, <1>8, <1>9, <1>10, RunInvRun, RunInvLink,
     RunInvFromCache DEF Step


LEMMA ChainInvStep ==
    ASSUME OnlyNeon, TypeInv, LiveInv, ChainInv, [Next]_vars
    PROVE  ChainInv'
<1>1. ASSUME NEW t \in Threads, Step(t) \/ \E k \in Keys : Call(t, k) PROVE ChainInv'
  <2>1. CASE GenFlush(t)
    BY <2>1, LinksFlush, RunInvFlush DEF ChainInv
  <2>2. CASE ~ GenFlush(t)
    <3>1. LinksInv'
      <4>1. CASE Quiet
        BY <4>1, LinksFrame DEF Quiet, ChainInv
      <4> QED
        BY <1>1, <2>2, <4>1, CacheSteps, LinksGen, LinksLink DEF ChainInv
    <3>2. RunInv(t)'
      BY <1>1, <2>2, RunInvMover
    <3>3. ASSUME NEW u \in Threads, u # t PROVE RunInv(u)'
      BY <1>1, <2>2, <3>3, CacheGrows, OthersKept, RunInvOther DEF ChainInv
    <3> QED
      BY <3>1, <3>2, <3>3 DEF ChainInv
  <2> QED
    BY <2>1, <2>2
<1>2. CASE UNCHANGED vars
  <2>1. UNCHANGED <<htable, tbs, jmp, target, stray, pc, tb, last_tb, cur, tb_exit, env, cpuid,
                    stale_tb, stale_last>>
    BY <1>2 DEF vars, cacheVars, jmpVars, localVars
  <2>2. LinksInv'
    BY <2>1, LinksFrame DEF ChainInv
  <2>3. \A u \in Threads : Kept(u) /\ MarksKept(u)
    BY <1>2 DEF vars, localVars, Kept, MarksKept, State
  <2>4. Grows
    BY <2>1 DEF Grows
  <2> QED
    BY <2>2, <2>3, <2>4, RunInvOther DEF ChainInv
<1> QED
  BY <1>1, <1>2 DEF Next, Finished

LEMMA ChainInvHolds == ASSUME OnlyNeon PROVE Spec => [](TypeInv /\ LiveInv /\ ChainInv)
<1>1. TypeInv /\ LiveInv /\ ChainInv /\ [Next]_vars => ChainInv'
  BY ChainInvStep
<1> QED
  BY <1>1, LiveInvHolds, ChainInvInit, PTL DEF Spec

(* A jump that tb_find_fast patches leads where the guest code leads, even *)
(* though exec() passes it the TB that was entered for the one that was    *)
(* left, and other threads flush the cache meanwhile.                      *)
THEOREM ChainsRight == ASSUME OnlyNeon PROVE Spec => []ChainsFollowGuest
<1>1. ASSUME TypeInv, LiveInv, ChainInv PROVE ChainsFollowGuest
  <2> SUFFICES ASSUME NEW x \in htable, NEW n \in tbs[x].slots, target[<<x, n>>] # NULL
               PROVE  tbs[target[<<x, n>>]].key \in StatesAfter(tbs[x], n)
    BY DEF ChainsFollowGuest
  <2>1. n = 1
    BY <1>1, NeonExits DEF TypeInv, CacheInv, PointersInv, Written
  <2> QED
    BY <1>1, <2>1 DEF ChainInv, LinksInv, StatesAfter, Behind
<1>2. TypeInv /\ LiveInv /\ ChainInv => ChainsFollowGuest
  BY <1>1
<1> QED
  BY <1>2, ChainInvHolds, PTL

(* Only jumps that were generated are patched: without the writes to FPSCR *)
(* of the run vmsr_stray_patch, no word of code is overwritten.            *)
THEOREM OnlyJumpsPatched == ASSUME OnlyNeon PROVE Spec => []OnlyGeneratedJumps
<1>1. ChainInv => OnlyGeneratedJumps
  BY DEF ChainInv, LinksInv, OnlyGeneratedJumps
<1> QED
  BY <1>1, ChainInvHolds, PTL

(* What a thread runs is the translation of the guest state its CPU is in, *)
(* through every chain of TBs and whatever the other threads translate and *)
(* chain at the same time.                                                 *)
THEOREM StateIsRun == ASSUME OnlyNeon, RoomForAll PROVE Spec => []RunsItsState
<1>1. RoomInv /\ ChainInv => RunsItsState
  BY DEF RoomInv, ChainInv, RunInv, RunsItsState
<1> QED
  BY <1>1, RoomInvHolds, ChainInvHolds, PTL

-----------------------------------------------------------------------------
(* What exec() has done when it returns.                                   *)

(* The guest has gone from k to s through instructions the library handles.*)
Past(k, s, least) ==
    \E n \in Nat : /\ n >= least /\ s = After(k, n)
                   /\ \A j \in 0 .. n - 1 : Handled(After(k, j))

InLoop == Searching \cup {"link", "run", "cache", "cache_cs", "return"}

PastInv(t) ==
    pc[t] \in InLoop =>
        /\ arg[t] \in Keys
        /\ Past(arg[t], State(t), IF pc[t] \in {"cache", "cache_cs", "return"} THEN 1 ELSE 0)

(* A run of instructions of the program is no longer than the program. *)
LEMMA RunBounded ==
    ASSUME NEW k \in Keys, NEW n \in Nat, \A j \in 0 .. n - 1 : Handled(After(k, j))
    PROVE  n <= MaxInsns
<1>1. PICK m \in 1 .. MaxInsns : ~ Handled(After(k, m))
  BY RunEnds
<1>2. m \in Nat /\ m <= MaxInsns /\ MaxInsns \in Nat
  BY MaxInsnsType
<1>3. ~ (m \in 0 .. n - 1)
  BY <1>1
<1> QED
  BY <1>2, <1>3

(* Every instruction of a TB that covers a full run is handled. *)
LEMMA TBHandled ==
    ASSUME OnlyNeon, NEW b, WellFormed(b), b.insns = num_insns(b.key, neon_icount(b.key))
    PROVE  b.insns \in Nat /\ b.insns >= 1 /\ \A j \in 0 .. b.insns - 1 : Handled(After(b.key, j))
<1>1. b.key \in Keys
  BY DEF WellFormed, TBRecord
<1>2. Handled(b.key)
  BY <1>1 DEF OnlyNeon, Handled, InsnAt
<1>3. /\ neon_icount(b.key) \in 1 .. MaxInsns
      /\ \A j \in 0 .. neon_icount(b.key) - 1 : Handled(After(b.key, j))
  BY <1>1, <1>2, NeonIcountRun
<1>4. neon_icount(b.key) \in Nat \ {0}
  BY <1>3, MaxInsnsType
<1>5. b.insns \in 1 .. neon_icount(b.key)
  BY <1>1, <1>4, NumInsnsType
<1> QED
  BY <1>3, <1>4, <1>5

LEMMA PastNow ==
    ASSUME NEW k \in Keys
    PROVE  Past(k, k, 0)
<1>1. k = After(k, 0)
  BY GuestAssumption DEF After, InsnSize
<1> QED
  BY <1>1 DEF Past

LEMMA PastWeaker ==
    ASSUME NEW k, NEW s, NEW a \in Nat, NEW b \in Nat, a <= b, Past(k, s, b)
    PROVE  Past(k, s, a)
BY DEF Past

(* One run after another. *)
LEMMA PastFurther ==
    ASSUME NEW k \in Keys, NEW s, Past(k, s, 0), NEW m \in Nat, m >= 1,
           \A j \in 0 .. m - 1 : Handled(After(s, j))
    PROVE  Past(k, After(s, m), 1)
<1>1. PICK n \in Nat : s = After(k, n) /\ \A j \in 0 .. n - 1 : Handled(After(k, j))
  BY DEF Past
<1>2. k.pc \in Nat
  BY GuestAssumption
<1>3. ASSUME NEW j \in Nat PROVE After(s, j) = After(k, n + j)
  BY <1>1, <1>2 DEF After, InsnSize
<1>4. ASSUME NEW i \in 0 .. (n + m) - 1 PROVE Handled(After(k, i))
  <2>1. CASE i < n
    BY <1>1, <2>1
  <2>2. CASE ~ (i < n)
    <3>1. i - n \in 0 .. m - 1 /\ i - n \in Nat /\ n + (i - n) = i
      BY <2>2
    <3> QED
      BY <1>3, <3>1
  <2> QED
    BY <2>1, <2>2
<1>5. After(s, m) = After(k, n + m) /\ n + m \in Nat /\ n + m >= 1
  BY <1>3
<1> QED
  BY <1>4, <1>5 DEF Past


AfterRun == {"cache", "cache_cs", "return"}

LEMMA PastMove ==
    ASSUME NEW u \in Threads, PastInv(u),
           pc'[u] \in InLoop =>
               /\ pc[u] \in InLoop /\ arg'[u] = arg[u] /\ State(u)' = State(u)
               /\ pc'[u] \in AfterRun => pc[u] \in AfterRun
    PROVE  PastInv(u)'
<1> SUFFICES ASSUME pc'[u] \in InLoop
             PROVE  /\ arg'[u] \in Keys
                    /\ Past(arg'[u], State(u)', IF pc'[u] \in AfterRun THEN 1 ELSE 0)
  BY DEF PastInv, AfterRun
<1>1. /\ arg[u] \in Keys
      /\ Past(arg[u], State(u), IF pc[u] \in AfterRun THEN 1 ELSE 0)
  BY DEF PastInv, AfterRun
<1>2. Past(arg[u], State(u), 1) => Past(arg[u], State(u), 0)
  BY PastWeaker
<1> QED
  BY <1>1, <1>2

LEMMA PastRun ==
    ASSUME OnlyNeon, TypeInv, RoomInv, ChainInv, NEW t \in Threads, PastInv(t), RunTB(t)
    PROVE  PastInv(t)'
<1>0. pc[t] = "run" /\ cpuid' = cpuid /\ arg' = arg /\ t \notin stale_tb
  BY DEF RunTB, runFrame, RoomInv
<1>1. PICK c : c = cur[t]
  OBVIOUS
<1>2. c \in htable /\ tbs[c].key = State(t)
  BY <1>0, <1>1 DEF ChainInv, RunInv
<1>3. WellFormed(tbs[c]) /\ tbs[c].exits = {1}
  BY <1>2, NeonExits DEF TypeInv, CacheInv, PointersInv, Written
<1>4. \E k \in StatesAfter(tbs[c], 1) : env' = [env EXCEPT ![cpuid[t]] = k]
  BY <1>1, <1>3 DEF RunTB
<1>5. State(t)' = After(State(t), tbs[c].insns)
  <2>1. StatesAfter(tbs[c], 1) = {After(State(t), tbs[c].insns)}
    BY <1>2 DEF StatesAfter
  <2>2. cpuid[t] \in Cpus /\ env \in [Cpus -> GuestStates \cup {NULL}]
    BY DEF TypeInv, LockInv, LockTypeOK, ThreadTypeOK
  <2> QED
    BY <1>0, <1>4, <2>1, <2>2 DEF State
<1>6. /\ tbs[c].insns \in Nat /\ tbs[c].insns >= 1
      /\ \A j \in 0 .. tbs[c].insns - 1 : Handled(After(State(t), j))
  BY <1>2, <1>3, TBHandled DEF RoomInv, FullRunTranslated
<1>7. arg[t] \in Keys /\ Past(arg[t], State(t), 0)
  BY <1>0 DEF PastInv, InLoop
<1>8. PICK s, m : s = State(t) /\ m = tbs[c].insns
  OBVIOUS
<1>9. Past(arg[t], After(s, m), 1)
  BY <1>6, <1>7, <1>8, PastFurther
<1>10. Past(arg[t], State(t)', 1)
  BY <1>5, <1>8, <1>9
<1>11. PICK r : r = State(t)'
  OBVIOUS
<1>12. Past(arg'[t], r, 1) /\ Past(arg'[t], r, 0)
  BY <1>0, <1>10, <1>11, PastWeaker
<1> QED
  BY <1>0, <1>7, <1>11, <1>12 DEF PastInv

LEMMA PastMover ==
    ASSUME OnlyNeon, RoomForAll, TypeInv, LiveInv, RoomInv, ChainInv, NEW t \in Threads, PastInv(t),
           Step(t) \/ \E k \in Keys : Call(t, k)
    PROVE  PastInv(t)'
<1>0. /\ pc \in [Threads -> PCs] /\ cpuid[t] \in Cpus /\ stale_tb = {} /\ stray = {}
      /\ env \in [Cpus -> GuestStates \cup {NULL}]
  BY DEF TypeInv, LockInv, LockTypeOK, ThreadTypeOK, RoomInv, ChainInv, LinksInv
<1>1. CASE (\E k \in Keys : Call(t, k)) \/ Return(t) \/ TryLock(t)
  <2>1. pc'[t] \notin InLoop
    BY <1>0, <1>1 DEF Call, Return, TryLock, Goto, InLoop, Searching
  <2> QED
    BY <2>1 DEF PastInv
<1>2. CASE Load(t)
  <2>1. pc'[t] = "guess" /\ arg' = arg /\ arg[t] \in Keys /\ State(t)' = arg[t]
    BY <1>0, <1>2 DEF Load, Goto, localVars, State, TypeInv, ThreadInv
  <2>2. Past(arg[t], arg[t], 0)
    BY <2>1, PastNow
  <2> QED
    BY <2>1, <2>2 DEF PastInv
<1>3. CASE Lock(t)
  <2>1. /\ pc[t] \in InLoop /\ arg' = arg /\ env' = env /\ cpuid' = cpuid
        /\ pc'[t] \in AfterRun => pc[t] \in AfterRun
    BY <1>0, <1>3 DEF Lock, TbLock, Goto, localVars, InLoop, Searching, AfterRun
  <2> QED
    BY <2>1, PastMove DEF State
<1>4. CASE GuessIcount(t)
  <2>1. /\ pc[t] \in InLoop /\ arg' = arg /\ env' = env /\ cpuid' = cpuid /\ pc'[t] = "find"
    BY <1>0, <1>4 DEF GuessIcount, Goto, InLoop, Searching
  <2> QED
    BY <2>1, PastMove DEF State, AfterRun
<1>5. CASE FindInJmpCache(t) \/ FindInHtable(t) \/ GenCode(t)
  <2>1. /\ pc[t] \in InLoop /\ arg' = arg /\ env' = env /\ cpuid' = cpuid /\ pc'[t] = "link"
    BY <1>0, <1>5 DEF FindInJmpCache, FindInHtable, GenCode, Found, Goto, InLoop, Searching
  <2> QED
    BY <2>1, PastMove DEF State, AfterRun
<1>6. CASE FindMiss(t) \/ MmapLock(t)
  <2>1. /\ pc[t] \in InLoop /\ arg' = arg /\ env' = env /\ cpuid' = cpuid
        /\ pc'[t] \in {"mmap", "relock"}
    BY <1>0, <1>6 DEF FindMiss, MmapLock, Goto, localVars, InLoop, Searching
  <2> QED
    BY <2>1, PastMove DEF State, AfterRun
<1>7. CASE Link(t)
  <2>1. /\ pc[t] \in InLoop /\ arg' = arg /\ env' = env /\ cpuid' = cpuid /\ pc'[t] = "run"
    BY <1>0, <1>7 DEF Link, Goto, InLoop
  <2> QED
    BY <2>1, PastMove DEF State, AfterRun
<1>8. ~ RunUndefined(t) /\ ~ GenFlush(t)
  BY <1>0, NoFlush DEF RunUndefined
<1>9. CASE FromCache(t)
  <2>1. /\ pc[t] = "cache_cs" /\ arg' = arg /\ env' = env /\ cpuid' = cpuid
    BY <1>9 DEF FromCache
  <2> QED
    BY <2>1, PastMove DEF State, AfterRun, InLoop
<1> QED
  BY <1>1, <1>2, <1>3, <1>4, <1>5, <1>6, <1>7, <1>8, <1>9, PastRun DEF Step

LEMMA PastStep ==
    ASSUME OnlyNeon, RoomForAll, TypeInv, LiveInv, RoomInv, ChainInv,
           \A t \in Threads : PastInv(t), [Next]_vars
    PROVE  \A t \in Threads : PastInv(t)'
<1>1. ASSUME NEW t \in Threads, Step(t) \/ \E k \in Keys : Call(t, k),
             NEW u \in Threads, u # t
      PROVE  PastInv(u)'
  <2>1. Kept(u)
    BY <1>1, OthersKept
  <2>2. pc'[u] = pc[u] /\ arg'[u] = arg[u] /\ (pc[u] \in InLoop => State(u)' = State(u))
    BY <2>1 DEF Kept, InExec, InLoop, Searching
  <2> QED
    BY <2>2, PastMove
<1>2. ASSUME NEW u \in Threads, UNCHANGED vars PROVE PastInv(u)'
  <2>1. UNCHANGED <<pc, arg, env, cpuid>>
    BY <1>2 DEF vars, localVars
  <2> QED
    BY <2>1, PastMove DEF State
<1> QED
  BY <1>1, <1>2, PastMover DEF Next, Finished

(* exec() returns with the guest just past the NEON or VFP instructions it *)
(* emulated: at least the one it was called for, and no other kind, after  *)
(* any number of TBs, chained by any thread.                               *)
THEOREM ReturnsPastRun == ASSUME OnlyNeon, RoomForAll PROVE Spec => ReturnsPastNeon
<1> DEFINE AllPast == \A t \in Threads : PastInv(t)
           Arrived(t) == \E n \in 1 .. MaxInsns :
                            /\ State(t) = After(arg[t], n)
                            /\ \A j \in 0 .. n - 1 : Handled(After(arg[t], j))
<1>1. Init => AllPast
  BY DEF Init, PastInv, InLoop, Searching
<1>2. TypeInv /\ LiveInv /\ RoomInv /\ ChainInv /\ AllPast /\ [Next]_vars => AllPast'
  BY PastStep
<1>3. ASSUME AllPast, NEW t \in Threads, pc[t] = "return" PROVE Arrived(t)
  <2>1. arg[t] \in Keys /\ Past(arg[t], State(t), 1)
    BY <1>3 DEF PastInv, InLoop
  <2>2. PICK n \in Nat : /\ n >= 1 /\ State(t) = After(arg[t], n)
                         /\ \A j \in 0 .. n - 1 : Handled(After(arg[t], j))
    BY <2>1 DEF Past
  <2>3. n <= MaxInsns
    BY <2>1, <2>2, RunBounded
  <2>4. n \in 1 .. MaxInsns
    BY <2>2, <2>3, MaxInsnsType
  <2> QED
    BY <2>2, <2>4
<1>4. AllPast => [\A t \in Threads : pc[t] = "return" /\ pc'[t] = "idle" => Arrived(t)]_vars
  BY <1>3
<1> HIDE DEF AllPast
<1> QED
  BY <1>1, <1>2, <1>4, RoomInvHolds, ChainInvHolds, PTL DEF Spec, ReturnsPastNeon
=============================================================================
