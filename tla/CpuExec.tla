------------------------------- MODULE CpuExec -------------------------------
(***************************************************************************)
(* exec() of tcg-arm.c, run by several threads of the application at once, *)
(* on the N_CPUS emulated CPUs and one shared translation cache.           *)
(*                                                                         *)
(* A thread claims a CPU with acquire_cpu, loads the registers, then loops *)
(* over tb_find_fast, cpu_tb_exec and tb_from_cache until the next guest   *)
(* state has no translation.  The cache is touched under tb_lock, which    *)
(* tb_find_slow gives up to take mmap_lock first; translated code runs     *)
(* under neither lock.                                                     *)
(*                                                                         *)
(* pc[t] names the next step of thread t:                                  *)
(*   idle       not in exec()                                              *)
(*   trylock    acquire_cpu, about to try CPU cpuid[t]                     *)
(*   load       cpsr_write ... memcpy, pre_cpu_exec                        *)
(*   guess      guess_icount, at tb_lock;  guess_cs  inside                *)
(*   find       tb_find_fast, at tb_lock;  find_cs   inside                *)
(*   mmap       tb_find_slow, at mmap_lock                                 *)
(*   relock     tb_find_slow, at the second tb_lock; slow_cs  inside       *)
(*   link       tb_find_fast with the TB found, still inside               *)
(*   run        cpu_tb_exec, in the code of TB cur[t]                      *)
(*   cache      tb_from_cache, at tb_lock; cache_cs  inside                *)
(*   return     post_cpu_exec, copy back, release_cpu                      *)
(***************************************************************************)
EXTENDS TBCache

CONSTANTS
    Threads,
    MaxCalls    \* bound: calls of exec() a thread makes

N_CPUS == Cardinality(Cpus)

ASSUME ThreadAssumption ==
    /\ NULL \notin Threads
    /\ MaxCalls \in Nat
    /\ N_CPUS \in Nat \ {0} /\ Cpus = 0 .. N_CPUS - 1

VARIABLES
    pc, calls,
    local_cpu_lock,   \* per CPU, the thread that holds its mutex, or NULL
    tb_mutex,         \* holder of tcg_ctx.tb_ctx.tb_lock, or NULL
    have_tb_lock,     \* the counter of translate-all.c, one for all threads
    mmap_mutex,       \* holder of mmap_mutex, or NULL
    env,              \* per CPU, the guest state in env
    arg, cpuid, icount, tb, last_tb, tb_exit,   \* the locals of exec()
    cur,              \* TB whose code the thread runs: tb, then those chained
    stale_tb,         \* history: threads whose tb was found before a flush
    stale_last        \* history: the same of last_tb

lockVars  == <<local_cpu_lock, tb_mutex, have_tb_lock, mmap_mutex>>
localVars == <<arg, cpuid, icount, tb, last_tb, tb_exit, cur>>
vars      == <<cacheVars, pc, calls, lockVars, env, localVars, stale_tb, stale_last>>

PCs == {"idle", "trylock", "load", "guess", "guess_cs", "find", "find_cs",
        "mmap", "relock", "slow_cs", "link", "run", "cache", "cache_cs", "return"}

(* The guest states that running TBs can lead to. *)
GuestStates ==
    Keys \cup {After(k, n) : k \in Keys, n \in 1 .. MaxInsns}

(* The types of the threads' variables and of the cache. *)
TypeOK ==
    /\ CacheTypeOK
    /\ pc \in [Threads -> PCs]
    /\ calls \in [Threads -> 0 .. MaxCalls]
    /\ local_cpu_lock \in [Cpus -> Threads \cup {NULL}]
    /\ tb_mutex \in Threads \cup {NULL}
    /\ have_tb_lock \in {0, 1}
    /\ mmap_mutex \in Threads \cup {NULL}
    /\ env \in [Cpus -> GuestStates \cup {NULL}]
    /\ arg \in [Threads -> Keys \cup {NULL}]
    /\ cpuid \in [Threads -> Cpus]
    /\ icount \in [Threads -> 1 .. MaxInsns]
    /\ tb \in [Threads -> TBs \cup {NULL}]
    /\ last_tb \in [Threads -> TBs \cup {NULL}]
    /\ tb_exit \in [Threads -> Slots]
    /\ cur \in [Threads -> TBs \cup {NULL}]
    /\ stale_tb \in SUBSET Threads
    /\ stale_last \in SUBSET Threads

(* After init_tcg_arm. *)
Init ==
    /\ CacheInit
    /\ pc = [t \in Threads |-> "idle"]
    /\ calls = [t \in Threads |-> 0]
    /\ local_cpu_lock = [c \in Cpus |-> NULL]
    /\ tb_mutex = NULL
    /\ have_tb_lock = 0
    /\ mmap_mutex = NULL
    /\ env = [c \in Cpus |-> NULL]
    /\ arg = [t \in Threads |-> NULL]
    /\ cpuid = [t \in Threads |-> 0]
    /\ icount = [t \in Threads |-> 1]
    /\ tb = [t \in Threads |-> NULL]
    /\ last_tb = [t \in Threads |-> NULL]
    /\ tb_exit = [t \in Threads |-> 0]
    /\ cur = [t \in Threads |-> NULL]
    /\ stale_tb = {}
    /\ stale_last = {}

Goto(t, label) == pc' = [pc EXCEPT ![t] = label]

(* The guest state of the CPU that t has claimed. *)
State(t) == env[cpuid[t]]

-----------------------------------------------------------------------------
(* The locks.                                                              *)

(* tb_lock(), which the thread calls at label "at" and returns from at     *)
(* label "inside".                                                         *)
TbLock(t, at, inside) ==
    /\ pc[t] = at
    /\ tb_mutex = NULL
    /\ tb_mutex' = t
    /\ have_tb_lock' = have_tb_lock + 1
    /\ Goto(t, inside)
    /\ UNCHANGED <<cacheVars, calls, local_cpu_lock, mmap_mutex, env, localVars,
                   stale_tb, stale_last>>

(* tb_unlock(). *)
TbUnlock ==
    /\ tb_mutex' = NULL
    /\ have_tb_lock' = have_tb_lock - 1

-----------------------------------------------------------------------------
(* Entering exec().                                                        *)

(* The application calls exec() at a NEON or VFP instruction. *)
Call(t, k) ==
    /\ pc[t] = "idle"
    /\ calls[t] < MaxCalls
    /\ calls' = [calls EXCEPT ![t] = @ + 1]
    /\ arg' = [arg EXCEPT ![t] = k]
    /\ cpuid' = [cpuid EXCEPT ![t] = 0]
    /\ Goto(t, "trylock")
    /\ UNCHANGED <<cacheVars, lockVars, env, icount, tb, last_tb, tb_exit, cur,
                   stale_tb, stale_last>>

(* pthread_mutex_trylock on the lock of CPU c succeeds. *)
MutCpuFree(c) == local_cpu_lock[c] = NULL \/ c = N_CPUS - 1
CpuFree(c) == local_cpu_lock[c] = NULL

(* acquire_cpu: one pthread_mutex_trylock; on failure go on to the next    *)
(* CPU, from the last one (after sched_yield) to the first again.          *)
TryLock(t) ==
    /\ pc[t] = "trylock"
    /\ \/ /\ CpuFree(cpuid[t])
          /\ local_cpu_lock' = [local_cpu_lock EXCEPT ![cpuid[t]] = t]
          /\ Goto(t, "load")
          /\ UNCHANGED cpuid
       \/ /\ ~ CpuFree(cpuid[t])
          /\ cpuid' = [cpuid EXCEPT ![t] = (@ + 1) % N_CPUS]
          /\ UNCHANGED <<local_cpu_lock, pc>>
    /\ UNCHANGED <<cacheVars, calls, tb_mutex, have_tb_lock, mmap_mutex, env, arg,
                   icount, tb, last_tb, tb_exit, cur, stale_tb, stale_last>>

MutLoad(t) ==
    /\ pc[t] = "load"
    /\ env' = [env EXCEPT ![cpuid[t]] = IF @ = NULL THEN arg[t] ELSE @]
    /\ tb_flushed' = [tb_flushed EXCEPT ![cpuid[t]] = FALSE]
    /\ Goto(t, "guess")
    /\ UNCHANGED <<nb_tbs, code_gen_ptr, tbs, htable, tb_jmp_cache, jmpVars, pageVars,
                   calls, lockVars, localVars, stale_tb, stale_last>>

(* Load the caller's registers into env; pre_cpu_exec clears tb_flushed. *)
Load(t) ==
    /\ pc[t] = "load"
    /\ env' = [env EXCEPT ![cpuid[t]] = arg[t]]
    /\ tb_flushed' = [tb_flushed EXCEPT ![cpuid[t]] = FALSE]
    /\ Goto(t, "guess")
    /\ UNCHANGED <<nb_tbs, code_gen_ptr, tbs, htable, tb_jmp_cache, jmpVars, pageVars,
                   calls, lockVars, localVars, stale_tb, stale_last>>

-----------------------------------------------------------------------------
(* Finding a TB.                                                           *)

(* The jump cache holds the TB of the state: its code is translated. *)
MutGuessHit(t) == tb_jmp_cache[cpuid[t]][Hash(State(t))] # NULL
GuessHit(t) == JmpCacheLookup(cpuid[t], State(t)) # NULL

(* guess_icount: count the run only if the jump cache misses. *)
GuessIcount(t) ==
    /\ pc[t] = "guess_cs"
    /\ icount' = [icount EXCEPT ![t] = IF GuessHit(t) THEN 1 ELSE neon_icount(State(t))]
    /\ TbUnlock
    /\ Goto(t, "find")
    /\ UNCHANGED <<cacheVars, calls, local_cpu_lock, mmap_mutex, env, arg, cpuid, tb,
                   last_tb, tb_exit, cur, stale_tb, stale_last>>

(* The lookup is over: x is the TB to run. *)
Found(t, x) ==
    /\ tb' = [tb EXCEPT ![t] = x]
    /\ cur' = [cur EXCEPT ![t] = x]
    /\ icount' = [icount EXCEPT ![t] = 1]
    /\ Goto(t, "link")

(* tb_find_fast hits in the jump cache. *)
FindInJmpCache(t) ==
    /\ pc[t] = "find_cs"
    /\ JmpCacheLookup(cpuid[t], State(t)) # NULL
    /\ Found(t, JmpCacheLookup(cpuid[t], State(t)))
    /\ stale_tb' = stale_tb \ {t}
    /\ UNCHANGED <<cacheVars, calls, lockVars, env, arg, cpuid, last_tb, tb_exit, stale_last>>

(* tb_find_slow hits in the hash table at the first attempt, or at the     *)
(* second, with mmap_lock held, because another thread has translated the  *)
(* code in between.                                                        *)
FindInHtable(t) ==
    /\ \/ /\ pc[t] = "find_cs"
          /\ JmpCacheLookup(cpuid[t], State(t)) = NULL
          /\ UNCHANGED mmap_mutex
       \/ /\ pc[t] = "slow_cs"
          /\ mmap_mutex' = NULL
    /\ \E x \in tb_find_physical(State(t)) :
            /\ tb_jmp_cache' = JmpCacheEnter(cpuid[t], State(t), x)
            /\ Found(t, x)
    /\ stale_tb' = stale_tb \ {t}
    /\ UNCHANGED <<nb_tbs, code_gen_ptr, tbs, htable, tb_flushed, jmpVars, pageVars,
                   calls, local_cpu_lock, tb_mutex, have_tb_lock, env, arg, cpuid,
                   last_tb, tb_exit, stale_last>>

(* tb_find_slow gives up tb_lock before mmap_lock(). *)
MutDropTbLock == UNCHANGED <<tb_mutex, have_tb_lock>>
DropTbLock == TbUnlock

(* tb_find_slow misses: drop tb_lock, to take mmap_lock before it. *)
FindMiss(t) ==
    /\ pc[t] = "find_cs"
    /\ JmpCacheLookup(cpuid[t], State(t)) = NULL
    /\ tb_find_physical(State(t)) = {}
    /\ DropTbLock
    /\ Goto(t, "mmap")
    /\ UNCHANGED <<cacheVars, calls, local_cpu_lock, mmap_mutex, env, localVars,
                   stale_tb, stale_last>>

MutMmapLock(t) ==
    /\ pc[t] = "mmap"
    /\ Goto(t, "relock")
    /\ UNCHANGED <<cacheVars, calls, lockVars, env, localVars, stale_tb, stale_last>>

(* mmap_lock(). *)
MmapLock(t) ==
    /\ pc[t] = "mmap"
    /\ mmap_mutex = NULL
    /\ mmap_mutex' = t
    /\ Goto(t, "relock")
    /\ UNCHANGED <<cacheVars, calls, local_cpu_lock, tb_mutex, have_tb_lock, env,
                   localVars, stale_tb, stale_last>>

(* The second lookup of tb_find_slow, under both locks, misses again. *)
MutStillMissing(t) == TRUE
StillMissing(t) == tb_find_physical(State(t)) = {}

(* tb_gen_code has no room: it flushes the cache and starts over.  Every   *)
(* TB pointer a thread still holds is stale from here on.                  *)
GenFlush(t) ==
    /\ pc[t] = "slow_cs"
    /\ StillMissing(t)
    /\ BufferFull(State(t), icount[t])
    /\ TbFlush
    /\ stale_tb' = {u \in Threads : tb[u] # NULL}
    /\ stale_last' = {u \in Threads : last_tb[u] # NULL}
    /\ UNCHANGED <<pc, calls, lockVars, env, localVars>>

(* tb_find_slow still misses: translate, release mmap_lock, enter the new  *)
(* TB in the jump cache.                                                   *)
GenCode(t) ==
    /\ pc[t] = "slow_cs"
    /\ StillMissing(t)
    /\ TbGenCode(State(t), icount[t])
    /\ mmap_mutex' = NULL
    /\ tb_jmp_cache' = JmpCacheEnter(cpuid[t], State(t), nb_tbs)
    /\ Found(t, nb_tbs)
    /\ stale_tb' = stale_tb \ {t}
    /\ UNCHANGED <<tb_flushed, calls, local_cpu_lock, tb_mutex, have_tb_lock, env, arg,
                   cpuid, last_tb, tb_exit, stale_last>>

(* tb_find_fast chains the calling TB unless the cache was flushed since. *)
MutMayChain(t) == last_tb[t] # NULL
MayChain(t) == last_tb[t] # NULL /\ ~ tb_flushed[cpuid[t]]

(* The end of tb_find_fast: forget the calling TB if the cache was flushed *)
(* since, otherwise chain it to the TB found; tb_unlock.  (exec overwrites *)
(* last_tb before it uses it again.)                                       *)
Link(t) ==
    /\ pc[t] = "link"
    /\ tb_flushed' = [tb_flushed EXCEPT ![cpuid[t]] = FALSE]
    /\ IF MayChain(t)
       THEN TbAddJump(last_tb[t], tb_exit[t], tb[t])
       ELSE UNCHANGED jmpVars
    /\ last_tb' = [last_tb EXCEPT ![t] = NULL]
    /\ stale_last' = stale_last \ {t}
    /\ TbUnlock
    /\ Goto(t, "run")
    /\ UNCHANGED <<nb_tbs, code_gen_ptr, tbs, htable, tb_jmp_cache, pageVars, calls,
                   local_cpu_lock, mmap_mutex, env, arg, cpuid, icount, tb, tb_exit, cur,
                   stale_tb>>

-----------------------------------------------------------------------------
(* Running translated code, outside every lock.                            *)

runFrame == <<cacheVars, calls, lockVars, arg, cpuid, icount, tb, last_tb, stale_tb, stale_last>>

(* Run TB cur[t] and leave it through one of its exits.  A chained goto_tb *)
(* enters the next TB; any other exit returns to exec with the TB and slot *)
(* (exit_tb(0): no TB, slot 0).                                            *)
RunTB(t) ==
    /\ pc[t] = "run"
    /\ \E exit \in tbs[cur[t]].exits :
          /\ \E k \in StatesAfter(tbs[cur[t]], exit) : env' = [env EXCEPT ![cpuid[t]] = k]
          /\ LET next == IF exit = NoSlot THEN NULL ELSE target[<<cur[t], exit>>]
             IN  IF next # NULL
                 THEN /\ cur' = [cur EXCEPT ![t] = next]
                      /\ UNCHANGED <<pc, tb_exit>>
                 ELSE /\ cur' = [cur EXCEPT ![t] = NULL]
                      /\ tb_exit' = [tb_exit EXCEPT ![t] = IF exit = NoSlot THEN 0 ELSE exit]
                      /\ Goto(t, "cache")
    /\ UNCHANGED runFrame

(* Run code that is not what was translated: the TB was flushed and its    *)
(* part of the buffer may have been written over, or one of its words was  *)
(* patched by mistake.  Any state and slot may come of it.                 *)
RunUndefined(t) ==
    /\ pc[t] = "run"
    /\ t \in stale_tb \/ cur[t] \in stray
    /\ \E k \in GuestStates : env' = [env EXCEPT ![cpuid[t]] = k]
    /\ \E n \in Slots : tb_exit' = [tb_exit EXCEPT ![t] = n]
    /\ cur' = [cur EXCEPT ![t] = NULL]
    /\ Goto(t, "cache")
    /\ UNCHANGED runFrame

-----------------------------------------------------------------------------
(* Going round the loop, or returning.                                     *)

(* tb_from_cache: is there a TB for the new state?  If so exec takes the   *)
(* TB it entered (prev_tb) as the calling TB and goes round; otherwise it  *)
(* leaves the loop.                                                        *)
FromCache(t) ==
    /\ pc[t] = "cache_cs"
    /\ TbUnlock
    /\ IF \/ tb_find_physical(State(t)) # {}
          \/ JmpCacheLookup(cpuid[t], State(t)) # NULL
       THEN /\ last_tb' = [last_tb EXCEPT ![t] = tb[t]]
            /\ stale_last' = IF t \in stale_tb THEN stale_last \cup {t} ELSE stale_last
            /\ Goto(t, "guess")
       ELSE /\ UNCHANGED <<last_tb, stale_last>>
            /\ Goto(t, "return")
    /\ UNCHANGED <<cacheVars, calls, local_cpu_lock, mmap_mutex, env, arg, cpuid, icount,
                   tb, tb_exit, cur, stale_tb>>

(* release_cpu. *)
ReleaseCpu(c) == [local_cpu_lock EXCEPT ![c] = NULL]

(* post_cpu_exec, the registers copied back, release_cpu.  The locals of   *)
(* exec() are gone.                                                        *)
Return(t) ==
    /\ pc[t] = "return"
    /\ local_cpu_lock' = ReleaseCpu(cpuid[t])
    /\ arg' = [arg EXCEPT ![t] = NULL]
    /\ cpuid' = [cpuid EXCEPT ![t] = 0]
    /\ tb' = [tb EXCEPT ![t] = NULL]
    /\ tb_exit' = [tb_exit EXCEPT ![t] = 0]
    /\ stale_tb' = stale_tb \ {t}
    /\ Goto(t, "idle")
    /\ UNCHANGED <<cacheVars, calls, tb_mutex, have_tb_lock, mmap_mutex, env, icount,
                   last_tb, cur, stale_last>>

-----------------------------------------------------------------------------
Lock(t) ==
    \/ TbLock(t, "guess", "guess_cs")
    \/ TbLock(t, "find", "find_cs")
    \/ TbLock(t, "relock", "slow_cs")
    \/ TbLock(t, "cache", "cache_cs")

(* What thread t does inside exec(). *)
Step(t) ==
    \/ TryLock(t) \/ Load(t) \/ Lock(t) \/ GuessIcount(t)
    \/ FindInJmpCache(t) \/ FindInHtable(t) \/ FindMiss(t) \/ MmapLock(t)
    \/ GenFlush(t) \/ GenCode(t) \/ Link(t)
    \/ RunTB(t) \/ RunUndefined(t) \/ FromCache(t) \/ Return(t)

(* Every thread has made all its calls. *)
Finished ==
    /\ \A t \in Threads : pc[t] = "idle" /\ calls[t] = MaxCalls
    /\ UNCHANGED vars

Next ==
    \/ \E t \in Threads : Step(t) \/ \E k \in Keys : Call(t, k)
    \/ Finished

Spec == Init /\ [][Next]_vars

(* The scheduler runs every thread inside exec() again and again. *)
FairSpec == Spec /\ \A t \in Threads : WF_vars(Step(t))

-----------------------------------------------------------------------------
(* Properties.                                                             *)

InExec(t) == pc[t] \notin {"idle", "trylock"}

(* Two threads inside exec() never share a CPU: env, tb_jmp_cache and      *)
(* tb_flushed of a CPU belong to the thread that claimed it in             *)
(* acquire_cpu.                                                            *)
CpuExclusive ==
    \A t, u \in Threads : t # u /\ InExec(t) /\ InExec(u) => cpuid[t] # cpuid[u]

(* Only the thread that holds tb_lock changes the cache, and only one that *)
(* holds mmap_lock as well adds or drops TBs (tb_gen_code: "Called with    *)
(* mmap_lock held for user mode emulation").                               *)
CacheChangesLocked ==
    [][/\ <<htable, tbs, jmp, target, first_tb, tb_jmp_cache>>'
             # <<htable, tbs, jmp, target, first_tb, tb_jmp_cache>>
            => \E t \in Threads : tb_mutex = t /\ Step(t)
       /\ <<htable, tbs>>' # <<htable, tbs>>
            => \E t \in Threads : tb_mutex = t /\ mmap_mutex = t /\ Step(t)]_vars

(* tb_find_fast never patches a TB that was found before the last flush:   *)
(* tb_flushed is set whenever last_tb is stale ("Ensure that no TB jump    *)
(* will be modified as the translation buffer has been flushed").          *)
NoStaleChain ==
    \A t \in Threads : pc[t] = "link" /\ MayChain(t) => t \notin stale_last

(* What a thread runs is the translation of the guest state its CPU is in. *)
(* ("we record a subset of the CPU state. It will always be the same       *)
(* before a given translated block is executed", tb_find_fast.)            *)
RunsItsState ==
    \A t \in Threads : pc[t] = "run" => tbs[cur[t]].key = State(t)

(* A chained jump leads where the guest code leads. *)
ChainsFollowGuest ==
    \A t \in htable : \A n \in tbs[t].slots :
        target[<<t, n>>] # NULL => tbs[target[<<t, n>>]].key \in StatesAfter(tbs[t], n)

(* Only jumps that were generated are patched (exec-all.h: jmp_reset_offset*)
(* 0xffff "indicates no jump generated").                                  *)
OnlyGeneratedJumps == stray = {}

(* assert(!have_tb_lock) in tb_lock() holds whenever a thread gets to it. *)
TbLockAssertion ==
    \A t \in Threads : pc[t] \in {"guess", "find", "relock", "cache"} => have_tb_lock = 0

(* exec() returns with the guest just past the NEON or VFP instructions it *)
(* emulated: at least the one it was called for, and no other kind.        *)
ReturnsPastNeon ==
    [][\A t \in Threads : pc[t] = "return" /\ pc'[t] = "idle" =>
         \E n \in 1 .. MaxInsns :
            /\ State(t) = After(arg[t], n)
            /\ \A j \in 0 .. n - 1 : Handled(After(arg[t], j))]_vars

(* A TB covers as many instructions as the run of NEON instructions and    *)
(* the page allow: the guess 1 of guess_icount on a jump-cache hit is      *)
(* never used to translate.                                                *)
FullRunTranslated ==
    \A t \in htable : tbs[t].insns = num_insns(tbs[t].key, neon_icount(tbs[t].key))

(* Every call of exec() returns, if the other threads stop calling: no     *)
(* deadlock between tb_lock and mmap_lock, no CPU that is never released.  *)
ExecReturns == \A t \in Threads : pc[t] # "idle" ~> pc[t] = "idle"
==============================================================================
