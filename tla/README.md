# A TLA+ model of libtcg_arm

`libtcg_arm` emulates NEON and VFP instructions inside a running Android process, on ARM
processors that lack them.  It is a reduced QEMU: the ARM user-mode front end, TCG with
the ARM back end, and a new main loop in `src/qemu/tcg-arm/`.  The application catches
the illegal instruction and calls `exec(regs, fpregs, cpsr, fpscr, fpexc, dump_reg)`,
possibly from several threads at once; `exec` translates the instructions at the guest
pc, runs the translation and returns with the registers updated.  The guest and the host
share one address space.

The modules here describe the parts of it that are concurrent, stateful and hard to
test: the main loop run by several threads and the translation cache they share; the
concurrent hash table, RCU and the futex event under them; the detection of rewritten
code; and the sequential parts that every call goes through, the status registers, the
instruction classifier, the register allocator and the search data. The build modelled
is the one of `src/qemu/AndroidLib.mak`: `CONFIG_USER_ONLY`, `ANDROID_ARMEMU`, `NDEBUG`,
an ARM host with `USE_DIRECT_JUMP`.

## Inventory

| Part | State | Operations | Interacts with |
|---|---|---|---|
| `exec()` and the CPU pool, `tcg-arm/tcg-arm.c` | `local_cpus`, `local_cpu_lock`, the locals of each call | `init_tcg_arm`, `acquire_cpu`, `release_cpu`, `exec` | called by the application; calls all of the below |
| Lookup and chaining, `tcg-arm/cpu-exec.c` | per CPU: `tb_jmp_cache`, `tb_flushed`, `env` | `tb_find_fast`, `tb_find_slow`, `tb_from_cache`, `guess_icount`, `cpu_tb_exec` | cache, under `tb_lock`; generated code, under no lock |
| Translation cache, `translate-all.c`, `exec-all.h` | `tbs[]`, code buffer, hash table, page lists, circular jump lists | `tb_gen_code`, `tb_flush`, `tb_add_jump`, `tb_phys_invalidate`, `tb_invalidate_phys_range`, `tb_invalidate_phys_page`, `tb_free` | patches code that other threads may be running |
| Locks | `tb_lock` and the counter `have_tb_lock`; `mmap_lock` | lock, unlock, `tb_lock_reset` | order: `mmap_lock` outside `tb_lock` |
| ARM front end, `target-arm/translate.c` | none between calls | `gen_intermediate_code` | decides where a TB ends and how it is left |
| ARM back end, `tcg/arm` | none between calls | `goto_tb`, `exit_tb`, `arm_tb_set_jmp_target` | patchable jumps |
| Hash table, `util/qht.c` | buckets, seqlocks, map pointer | lookup, insert, remove, resize, reset | RCU |
| RCU, `util/rcu.c` | grace-period counter, reader registry, call queue | read lock and unlock, registration, `synchronize_rcu`, `call_rcu` | entered by `pre_cpu_exec`; sleeps on two `QemuEvent`s; its thread is not started in this build |
| `QemuEvent`, `util/qemu-thread-posix.c` | one word, the kernel's futex queue | set, reset, wait | RCU |
| Page flags, `translate-all.c`, `user-exec.c`, `linux-user/mmap.c` | page flags, protection of host pages | `tb_alloc_page`, `page_set_flags`, `page_unprotect`, `target_mmap`, `target_mprotect`, `target_munmap` | start invalidations; in the library nobody calls `page_set_flags` |
| Search data | bytes after each TB's code | `encode_search`, `cpu_restore_state`, `tb_find_pc` | exceptions raised by helpers |
| Status registers, `tcg-arm.c`, `target-arm/helper.c` | CPSR, FPSCR and FPEXC of a CPU, taken apart | `cpsr_write`, `cpsr_read`, `vfp_set_fpscr`, `vfp_get_fpscr`, FPEXC merge | caller's words; what one call leaves for the next |
| Instruction classifier, `tcg-arm/cpu-exec.c` | none | `is_arm_neon`, `is_thumb2_neon`, `is_thumb_neon` | must agree with the front end's decoders |
| Register allocation, `tcg/tcg.c` | where each temporary's value is | `liveness_pass_1`, `tcg_reg_alloc_op`, `_mov`, `_movi`, `_call`, `_bb_end` | front end's operations in, back end's instructions out |

What is hard in this code:

* `tb_find_slow` gives up `tb_lock` in the middle, to take `mmap_lock` first;
* `tb_flush` runs in one thread while others hold TB pointers, about to be chained
  (`last_tb`) or executed (`tb`);
* chaining patches code that other threads run;
* invalidation walks lists that it modifies, and a TB can be on two page lists, on two
  jump lists, and on its own;
* entries of `tbs[]` and the code buffer are reused without being cleared;
* `exec` uses QEMU's loop differently from upstream: it takes the TB it *entered* as the
  calling TB, and stops as soon as the next state has no translation;
* hash table lookups lock nothing, while writers move entries, chain buckets and replace
  the whole map;
* RCU readers publish late, nest, register and unregister while an updater sleeps with
  its lock released; call_rcu enqueues in two steps that the consumer can see between;
* stores to guest code go on while it is translated, and are noticed by page faults
  only;
* the liveness analysis runs backwards and tells the register allocator, which runs
  forwards, what it may forget;
* a CPU slot keeps what one caller's call left for the next caller's.

`PROJECT.json` lists each hazard with its line and the properties that cover it.

What makes the parts correct: a CPU belongs to one thread at a time; a thread runs the
translation of the state it is in; chained jumps lead where the guest code leads and
never into dead code; the lists of the cache are exact, since a jump missing from a list
is a jump that is never reset; invalidation misses nothing and ends; every call returns,
just past the instructions emulated.  The hash table is a set whose lookups answer with
its contents at some instant; nothing is freed while a reader holds it; nobody sleeps
for ever; code that was rewritten is not run; a caller gets back the registers that its
own instructions made; values are where the allocator thinks.

## Modules

| Module | Models | Extends or uses |
|---|---|---|
| `GuestCode` | the guest program as the emulator sees it, and what the front end makes of it | |
| `TBCache` | the data structures of the translation cache and their operations | `GuestCode` |
| `TBInvalidate` | the cache used by one caller, with invalidation as loops of small steps | `TBCache` |
| `CpuExec` | `exec()` run by several threads, with the locks | `TBCache` |
| `PageFlags` | how rewritten code is noticed | invalidation as one step |
| `QhtSet` | what the hash table promises: a set | |
| `QHT` | the hash table | implements `QhtSet` |
| `Event`, `GracePeriod` | what `QemuEvent` and `synchronize_rcu` promise | |
| `QemuEvent` | the futex event | implements `Event` |
| `RCU` | read-side sections and `synchronize_rcu` | uses `Event`, implements `GracePeriod` |
| `RcuCall` | the queue of `call_rcu` and its thread | uses `Event`, `GracePeriod` |
| `ExecState` | CPSR, FPSCR and FPEXC through `exec()` | |
| `NeonDecode` | the classifier against the decoders | |
| `RegAlloc` | liveness analysis and register allocation | |
| `SearchData` | from a host address back to the guest instruction | |
| `MCTBInvalidate`, `MCCpuExec`, `MCQHT`, `MCRCU`, `MCStages`, `MCPageFlags`, `MCExecState` | small instances for TLC | the modules above |
| `TBCacheProofs` | lemmas about the operators of `GuestCode` and the operations of `TBCache` | |
| `TBInvalidateProofs`, `CpuExecProofs` | the theorems about `TBInvalidate` and `CpuExec` | `TBCacheProofs` |
| `RCUProofs` | the theorems about `RCU`, `QemuEvent` and `RcuCall`, the layers of `MCRCU` | |
| `QHTProofs`, `PageFlagsProofs`, `ExecStateProofs`, `NeonDecodeProofs` | the theorems about these modules | |

**GuestCode.** A guest state is a key `[pc, flags]`, what `cpu_get_tb_cpu_state`
extracts.  `Kind` says of the instruction at a key how it ends a TB.  `neon_icount`,
`num_insns` and `Translate` are the pure parts of `neon_icount` and
`gen_intermediate_code`.  Addresses are in halfwords.  `InsnAt` stands for the decoder.
A TB stops at the count in `cflags`, at `TCG_MAX_INSNS` (which also stands for a full
buffer of TCG operations), at an instruction that ends it, or at the end of the page.
Left out: IT blocks, the mask `CF_COUNT_MASK` (0x7fff), single stepping, exceptions, and
everything the instructions compute.

**TBCache.** One variable per structure of the code, under the code's name where there
is one.  A tagged pointer `tb | n` is the pair `<<tb, n>>`, and the fields
`jmp_list_next[0..1]` and `jmp_list_first` are one function `jmp` from fields to fields,
so a circular list is a cycle of it.  `target` is where the branch of a slot was last
directed; `stray` collects TBs whose code was patched at a word that is not a `goto_tb`.
The hash table is the set `htable`.  `tb_flush` leaves `tbs`, `jmp`, `target` and
`page_next` as they are, as the code does.  The length of generated code is the number
of instructions; the jump cache hash is a modulus.

**TBInvalidate.** `op` holds the locals of the invalidation under way.  Each TB visited
(`VisitRangeTB`, `VisitPageTB`), each jump reset (`UnlinkJump`) and the move to the next
page (`NextPage`) is a step.  `tb_page_remove` and `tb_remove_from_jmp_list` are stated
by the entry their walk stops at.  The bitmaps of pages (`invalidate_page_bitmap`) exist
in system emulation only.

**CpuExec.** `pc[t]` names where thread t is (the table is in the module).  A step is
what happens between two points where another thread can be noticed: a lock taken, a
critical section, a TB executed.  `GenFlush` and `GenCode` are separate steps because
threads that run translated code need no lock.  `RunTB` runs one TB and leaves it
through one of its exits, into the chained TB or back to `exec`.  `RunUndefined` is what
a thread may do in a TB that was flushed under it or patched at the wrong word: arrive
in any guest state.  `stale_tb` and `stale_last` are history variables, the threads
whose `tb` or `last_tb` dates from before a flush.  `FromCache` includes `last_tb =
prev_tb`. `TB_EXIT_REQUESTED` and `TB_EXIT_ICOUNT_EXPIRED` are left out: nothing in this
build calls `cpu_exit` or `cpu_interrupt`, and `use_icount` is 0.

**PageFlags.** User-mode emulation write-protects the host pages of translated code, and
the fault of the first store drops the translations.  A TB is the set of the one or two
target pages its code is in; `stale` and `raced` are history variables, the TBs whose
code was rewritten after, or during, their translation.  Translating and mapping calls
take two steps each, under `mmap_lock`; stores of other threads come between.
`HostSize` is the number of target pages in a host page.  A failing `mprotect` may have
changed the pages before the one that made it fail, as POSIX allows.  The invalidation
itself is one step; its loops are those of `TBInvalidate`.

**QHT and QhtSet.** A bucket is its head with the buckets chained to it, seen as one
sequence of slots.  Lookups take one step per read, in program order (which the read
barriers and the compiler's dependencies give them); the stores of a writer between
`seqlock_write_begin` and `seqlock_write_end` take effect in any order.  Maps are
numbered; a map given to `call_rcu` is freed when no section that could have seen it is
left.  `QhtSet` is the specification: insertions and removals are instantaneous, a
lookup or an iteration answers with the contents of an instant while it ran.  `TBCache`
uses the table as such a set.

**QemuEvent and Event.** Every atomic access of the word is a step, and so are the futex
system calls.  `Event` is a flag; a wait may end early but does end when the flag stays
set.

**RCU, RcuCall and GracePeriod.** `RCU` has readers that nest, register and unregister,
and updaters that replace an object, synchronize and free it.  `synchronize_rcu` has the
two-phase form for 32-bit words. `rcu_gp_event` is an `Event`.  `GracePeriod` says that
`synchronize_rcu` returns after every section that was running at its call has ended;
`RCU` implements it, and `RcuCall` uses it: producers enqueue in two steps, the thread
gathers, waits and runs the callbacks. `ThreadStarted` says whether `rcu_init` starts
the thread; this build does not.

**ExecState.** A word is the set of its one bits.  The slot's parts (`NF`, `ZF`, ...,
`xfpscr`, `rmode`, ...) are written on entry by `cpsr_write` and `vfp_set_fpscr`,
changed by instructions, and put together on exit.  `a_cpsr` and `a_fpscr` are the
registers as the architecture has them, changed as whole words.  One slot, calls of
different callers one after the other, since the slot's mutex makes them so.

**NeonDecode.** A word is given by the fields that the classifier or a decoder tests.
It is classified, then decoded; `ClassifierRight` compares the two.

**RegAlloc.** A step is one operation of the forward walk, with a guess of what the
backward analysis found after it; only consistent guesses are taken, so that programs of
any length are covered without storing one.  Next to the allocator's tables, the module
keeps the temporaries whose current value is in each register and memory slot, which is
what the emitted code really does.  A call has a signature: its arguments go to the
argument registers and then to the stack, a dummy takes the place that aligns an i64,
and an i64 result comes back in two registers.  Between operations `mem_coherent` is kept
for temporaries in registers only; for the others the code assigns it before it reads it.

**SearchData.** `encode_search` with its sleb128 coding, the binary search of
`tb_find_pc`, one probe per step, and the decoding loop of `cpu_restore_state_from_tb`,
one row per step.

## Runs

| Run | Bounds | Checks |
|---|---|---|
| `invalidate` | 3 guest states over 3 pages, 3 entries of `tbs[]` | `JmpListsExact`, `PagesExact`, `CodeLayout` at every step of every operation; `NoJumpToInvalidated`; `RangeInvalidated` |
| `chain` | 4 ARM instructions over two pages, at most 2 in a TB; 2 threads, 2 calls each; no flush | `RunsItsState`, `ChainsFollowGuest`, `FullRunTranslated`, `ReturnsPastNeon` |
| `flush` | TBs with one exit, two exits and `exit_tb(0)`; room for 2 TBs; 2 threads, 3 calls each | `TypeOK`, `NoStaleChain`, `OneTBPerKey`, `JmpCacheCoherent`, `NoJumpToDeadTB`, `CacheChangesLocked` |
| `contend` | 3 threads, 2 CPUs, 1 TB, 2 calls each | `CpuExclusive`, `ExecReturns` |
| `rcu` | event: 3 threads, 2 calls each; grace: 2 readers, 1 updater, 3 locks, 2 updates; call: 2 producers, 2 nodes, 1 reader | `NoLostWakeup`, `ImplementsEvent`; `NoUseAfterFree`, `ImplementsGracePeriod`, `SynchronizeReturns`; `NoEarlyCallback`, `CallbackRuns` |
| `qht` | 2 threads, 3 calls, 4 pointers, 2 buckets of 1 entry, at most 3 maps | `BucketsExact`, `NoFreedMapUsed`, `ImplementsQhtSet`, `OperationsReturn` |
| `stages` | see below | `FpscrExact`, `FpStatusCoherent`, `CpsrExact`, `VfpEnabled`; `ClassifierRight`; `ValuesKept`, `CodeRight` |
| `rewritten_code` | see below | `CodePagesMarked`, `NoStaleTB`; `InvalidationEnds`; `RestoresExactly`, `RestoreEnds` |
| `vmsr_stray_patch`, `flush_under_running_code`, `tb_lock_assertion`, `saturation_flag` | | findings: end in a violation |

Why the bounds are enough for what they are meant to show.

* The program of `invalidate` has a TB on two pages, two jumps from one TB to another, a
  jump to itself and a list of three jumps, so every branch of the list surgery is
  taken.
* In `chain` a run of four instructions is cut by the limit of a TB and by a page
  boundary and leaves TBs in a row, so that a thread runs through a chain another thread
  has made. Its buffer is never full, on purpose (it has the four entries and
  the four times four instructions of `RoomForAll`): with flushes its properties do not
  hold, which is the second finding below, and they say what the library guarantees
  until its 32 MB buffer is full for the first time.
* In `flush` two entries of `tbs[]` for three states make every translation a candidate
  for a flush while the other thread holds pointers; three calls are needed to
  translate, chain and run the chain.  A jump cache of two entries makes states collide.
* In `contend` there are more threads than CPUs.
* In `rcu`, three threads are a setter, a resetter and a waiter; two readers are one
  that publishes late and one that keeps the updater waiting, three locks let one nest.
  Two nodes are enough for a queue that is linked late and for the dummy to be taken and
  put back.
* In `qht` a bucket holds one entry, so that buckets are chained, an insertion makes the
  table grow, and a removal moves the last entry of a chain.  The hash of one pointer is
  the 0 of an empty slot.
* `stages`: the words that callers pass have no bit, every bit, or one bit (the
  conversions treat bits one by one, or the fields that the written words vary), two
  instructions a call; all instruction words up to the bits that no test looks at; three
  temporaries, one of each class, with two registers (so that values are spilled) and
  with three registers and helper calls.  For calls two of the three registers are
  argument and result registers (R0, R1) and the third survives them: each of two
  arguments may be in the other's register, be the same temporary, or be displaced by a
  third that goes to the stack; results come in none, one or two registers.
* `rewritten_code`: `any` has two threads and two target pages in one host page, any
  ranges and failing calls; `aligned` one thread, four target pages, ranges of whole
  host pages; `equal` two threads, and target pages as large as host pages; `loops` is
  `TBInvalidate` with a buffer of 2; `search` has words of 8 bits in groups of 3, so that
  a word takes up to three groups and the last reaches past its end, and three TBs.

Three runs (`rcu`, `stages`, `rewritten_code`) check several parts at once.  The parts
share no variable: a behaviour takes the steps of one part, chosen in the initial state,
and the others stay where they are.  Moving them together would multiply the states and
show nothing more.  Thread symmetry is used in the runs that check safety only.

**Fairness.**

* `CpuExec!FairSpec`: weak fairness of each thread's steps inside `exec`; the kernel
  runs every runnable thread again.  Weak fairness is enough only because calls are
  bounded (`MaxCalls`): a thread that spins in `acquire_cpu`, or waits for a mutex,
  could otherwise be overtaken for ever, and nothing in the code (trylock in a loop,
  default mutexes) excludes that.  `ExecReturns` therefore says: no deadlock between the
  locks, no lock or CPU that is never released, no loop that feeds itself.
* `rcu`: weak fairness of every thread.  Readers leave their sections: `docs/rcu.txt`
  asks for short ones.  With one updater nobody competes for `rcu_registry_lock` for
  long; `RCU!FairSpec` has strong fairness for several, who may otherwise overtake one
  another.
* `QHT!FairSpec`: strong fairness of each thread, since writers compete for bucket locks
  and a lookup starts again whenever a writer interferes.  Calls are bounded, so that a
  lookup is not disturbed for ever.
* The loops of `TBInvalidate` and `SearchData` run in one thread, which goes on.

**Refinements.** `ImplementsEvent`, `ImplementsGracePeriod` and `ImplementsQhtSet` are
the abstract specifications under a mapping given in the detailed modules.  The
specification of `Event` has fairness (a wait on a flag that stays set returns), and so
TLC checks liveness there too.

**Findings.**  Four runs end in a violation.

* `vmsr_stray_patch`: after a TB that ends with `VMSR FPSCR`, `exec` chains slot 0 of a
  TB that has no `goto_tb 0`.
* `flush_under_running_code`: a TB found under `tb_lock` is executed after the lock is
  released, while another thread flushes and reuses its memory.
* `tb_lock_assertion`: `assert(!have_tb_lock)` is about the calling thread, but the
  counter is shared.
* `saturation_flag`: `exec` returns FPSCR through the mask 0xF7F7009F, which lacks bit
  27: the cumulative saturation flag that NEON instructions set never reaches the
  caller.  In the run callers pass FPSCRs with QC clear and VMSR writes such words, so
  that the flag comes from `GuestSaturate` alone.

**Observations.**  What the passing runs leave out on purpose, each shown by changing a
constant or checking another definition of the module:

* `ThreadStarted = FALSE` in `MCRCU.cfg`: `CallbackRuns` fails.  `rcu.c:348` starts the
  call_rcu thread in other builds only, so that the maps a growing hash table replaces
  stay allocated.
* `Unprotected = {"resize"}` or `{"stats"}` in `MCQHT.cfg`: `NoFreedMapUsed` fails.
  `qht_resize` unlocks the old map's buckets after giving it to `call_rcu`, and
  `qht_statistics_init` walks a map that a resize may free; `qht.h:171` says that it
  needs no read-side section.
* `ClassifierRight` excludes two groups of words that the classifier counts and the
  decoders do not give to NEON or VFP: coprocessor encodings with condition 15 in ARM
  code, and a `case` without `break` in `is_thumb2_neon`.
* `Registered = FALSE` in `MCPageFlags.cfg`, which is the library: `NoStaleTB` fails.
  The host process maps the guest's memory and never calls `page_set_flags`, so that no
  page is known to be writable and none is protected.
* `VfpEnabled` is about the EN bit of FPEXC alone.  The other bits that a caller passes
  are merged with `|=` as well: EX and bit 29 stay in the slot and are returned to later
  callers.
* `CodeIsCurrent` of `PageFlags` fails: code is read for translation before its page is
  protected, and a store in between leaves a translation of the old code, protected.
* `NoSpuriousFault` of `PageFlags` fails with two threads: both fault on a protected
  page, the first makes it writable, the second finds it so and takes the fault for the
  guest's own.
* `NoStaleCode` fails in the part `any`: after a `mprotect` that failed halfway, and
  after one of part of a host page, code on a page that became writable stays in the
  cache.

## Theorems

All theorems hold for every value of the constants that satisfies the modules'
assumptions: keys are pairs with a natural pc and there are finitely many
(`GuestAssumption`), sizes are positive and `NULL` is no pointer (`CacheAssumption`) and
no record of an invalidation's locals (`OpAssumption`),
CPUs are numbered from 0 (`ThreadAssumption`), readers and updaters are different
threads (`RCUAssumption`), finitely many threads call `call_rcu1` and its dummy is none
of their nodes (`CallAssumption`), hashes are naturals, buckets have entries and `NULL` is
neither a pointer nor a thread (`QHTAssumption`), the address space is a whole number of
host pages (`PageAssumption`), words have bits 0 to 31 (`ExecStateAssumption`).

* `CpuExclusion` and `CacheLocked` rest on `LockInv`, which says at which labels a
  thread holds which lock; it is inductive by itself.
* `TypeCorrect`.  `TypeOK` is not inductive: a TB pointer of the right type may lead to
  an entry that was never written, and a thread might look up a state outside the
  program.  `TypeInv` adds that every pointer held by the hash table, a jump cache, a
  chained jump or a thread leads to an entry that `tb_gen_code` wrote, whose exits are
  those of its last instruction, and that a thread that searches is in a state of the
  program. The last part needs `LockInv`: no other thread writes `env` of its CPU.
* `NoStaleChaining`, `TranslatedOnce`, `JmpCachesCoherent` and `ChainsStayLive` rest on
  `LiveInv`.  Its heart is `PointersLive`: a thread's `tb` or
  `last_tb` is either in the hash table, or stale and then `tb_flushed` of the thread's
  CPU is set.  `tb_flushed` is cleared at two places, and at both the thread has no
  stale pointer left: in `pre_cpu_exec` it has none at all, at the end of `tb_find_fast`
  its `tb` was just found and `last_tb` is dropped.
* `ChainsRight`, `OnlyJumpsPatched`, `FullRunsTranslated`, `StateIsRun` and
  `ReturnsPastRun` say that what `exec` runs is what the guest program says, for every
  number of threads, CPUs and calls.  They have two hypotheses on the constants, and each
  names the ones it needs.  `OnlyNeon`: the instructions are plain NEON or VFP, none is
  a `VMSR`, a conditional one or a branch.  `RoomForAll`: the translations of all guest
  states fit into the cache, so that nothing is flushed.  Neither can be dropped: the
  runs `vmsr_stray_patch` and `flush_under_running_code` break the conclusions without
  them.  The run `chain` satisfies both.  `RoomInv` says that the TBs of the hash table
  are all that were ever made and that a count of 1, the guess on a hit, stays with a
  state whose TB exists.  `ChainInv` says of each patched slot that the guest state it
  leaves is the key of the TB it leads to, and of each thread that its `last_tb` and
  `tb_exit` name a slot that is chained already, or leads to where it is; it holds through flushes
  too, because a thread whose `last_tb` is stale does not chain.  `PastInv` adds how far
  the thread has come since the call: some number of handled instructions, at least one
  once a TB has run.
* `JumpsUnlinked`, `JmpListsIntact`, `PageListsIntact`, `RangesInvalidated`,
  `CodeLaidOut` and `TypeCorrect` (`TBInvalidateProofs`).  A circular list is
  characterised without counting steps: `IsRing` says that the next pointers are
  injective on the members and do not lead out of them, and that no proper part of the
  members that contains the head is closed under them.  A page list is a ring with
  `NULL` as its head.  The invariant says that the jumps directed at a TB form a ring
  and the TBs of a page another, except that a TB whose invalidation is under way has
  left the hash table while the rest of its incoming jumps are still to be reset
  (`op.unlink`).  For the range it adds what the walk has left to do (`Passed`): a TB of
  the hash table with code at an address of the range has it on a page still to come, or
  on the current one, and is then reached from the entry in hand (`LeftFor`, `Reached`).  `JmpListsExact` and `PagesExact`, which the
  runs check, are about the sequences that a walk of the pointers visits; they follow
  from the rings by `RingWalk`: the walk returns to the head after as many steps as
  there are members (pigeonhole principle) and meets each once.
* `TBCacheProofs` shows that the counts are well defined: the pigeonhole principle
  bounds a run of instructions by the number of keys, and well-foundedness of the
  naturals gives the least stopping point.
* `MapsOutliveUsers` (`QHTProofs`), for operations called in read-side sections
  (`AllProtected`; the observations show that it is needed).  The argument does not use
  the locks: what `ht->map` points to was never given to `call_rcu`, so a thread that
  reads it has a map that is not retired, and a thread that has a map when it is
  retired is one that the grace period waits for.
* `BucketsStayExact` (`QHTProofs`), for all hashes, bucket sizes and orders of the stores
  in a write section, whether calls are protected or not.  `TableInv` says which bucket
  locks and when `ht->lock` a thread holds, and where that keeps its map from being
  replaced: a resize needs all of them.  `DataInv` says that each bucket of the current
  map holds its share of the contents (`Settled`), or that one thread is writing to it and
  the stores it has left lead to slots that do (`Toward`); each store takes the bucket
  nearer.  What a resize copies is counted with the library's cardinality theorems: the
  entries of a bucket of the new map are numbered by how many precede them (`NthFacts`).
* `SetImplemented` (`QHTProofs`): the whole table implements `QhtSet`.  `ReadInv` adds what
  readers can rely on: the bucket that a lookup walks changes only if its sequence number
  moves (`Evolves`), so while the number is the one it started from, the slots it has
  passed do not hold its pointer (`Scanned`), a slot skipped because of its hash
  included; and a replaced map keeps the contents it had then, which everybody who still
  reads it has seen (`Frozen`).  Initial states and steps are then mapped one by one;
  insertions, removals and resets take effect when their write section begins.
* `UseAfterFreeExcluded`, `ListsStayExact`, `TypeCorrect` and `GracePeriodImplemented`
  (`RCUProofs`), for any number of readers and updaters.  The invariant ties the readers
  an updater has to wait for (`waitsFor`, a history variable) to the parities they
  published: in phase 1 those it has already moved to `qsreaders` show the new parity,
  and in phase 2 all of them show the old one and none has been moved.  A reader that
  sampled the counter early and published late is of the first kind, which is why one
  phase is not enough.  When the registry is empty, nobody is left to wait for.  The
  refinement, initial states and steps, follows.
* `WakeupsKept`, `BusyStays` and `EventImplemented` (`RCUProofs`), about `QemuEvent`.
  With the types, `NoLostWakeup` is inductive: while a thread is queued, the word is
  `EV_BUSY` or a wake-up is under way.  `BusyStays` is the comment "busy->free provably
  cannot happen". `EventImplemented` is the safety part of `ImplementsEvent`.
* `CallbacksWait`, `AbortNotReached` and `CalledOnce` (`RCUProofs`), about `RcuCall`, for
  any number of producers, readers and nodes.  `CallInv` lays the queue out from head to
  tail over a range of integers: the dummy has one place in it, a link may be missing, and
  each missing link is one that a certain thread is about to make.  The count, what the
  thread took off it and the producers that have yet to count add up to the nodes in the
  queue.  So when the grace period begins there are at least as many nodes as callbacks
  taken, and from then on these first places hold only nodes that readers it waits for
  can hold (`GraceCovers`): nodes that come in later, counted or not, are behind them, and
  so is the dummy once it has gone round.  That the counted nodes are not the dequeued
  ones does no harm.
* `CodeStaysMarked` (`PageFlagsProofs`), for any ranges, host page sizes and failing
  calls. `RewrittenCodeDropped` needs the hypothesis `WholeCalls`: mappings are known to
  `page_set_flags`, calls are about whole host pages and none fails halfway; without it
  the conclusion is false, see the observations.  The parts `aligned` and `equal` of the
  run satisfy it.  `WholeInv` says that the host lets a page be written only if the
  flags say so or the call under way will, and that a rewritten TB is about to be
  dropped by that call.
* `FpscrIsExact`, `FpStatusIsCoherent`, `CpsrIsExact` and `VfpStaysEnabled`
  (`ExecStateProofs`), for all words.  `FpStatusCoherent` is about a running guest only
  and not inductive: `vfp_set_fpscr` passes on the differences from the word an earlier
  call left in the slot, so `FpInv` says that the modes match the stored word between
  calls too.  `PsrInv` is shown part by part, as the CPSR is kept.
* `ClassifierAgrees` (`NeonDecodeProofs`), for all values of the tested fields; TLC is
  given a choice of condition fields and coprocessor numbers.

Only model-checked: the register allocator (`ValuesKept`, `CodeRight`), which folds its
steps over the arguments of an operation; `NoStaleTB` as the run states it, of two
instances that `RewrittenCodeDropped` covers; `SearchData`, whose sleb128 coding is a
recursive operator; and everything under fairness, which includes the liveness half of
`ImplementsEvent` and `CallbackRuns`.  The prover cannot instantiate the induction
theorems of its library.  Where induction was needed (walks along lists, counts) it is
done by hand, with the least element of a set of naturals.

## Plan

Done: the modules and theorems above.  What remains open:

1. `mmap_frag` and `target_mremap` in `PageFlags`.
2. `InitRace`: two first callers of `init_tcg_arm`, if outcomes short of undefined
   behaviour can be told apart.
3. `ValuesKept` of `RegAlloc` for any number of registers and temporaries; it needs an
   induction over the arguments of an operation, by hand as for the lists.

## Not modelled

* `init_tcg_arm` by two first callers at once: both overwrite mutexes and tables in use.
* `cpu_loop_exit` without a `jmp_env`: undefined; `NeonDecode` is about what may lead
  there.  `CF_COUNT_MASK`: a run of more than 0x7fff instructions.
* RCU: the one-phase form for 64-bit words and the fork handlers.  The iothread lock
  that `call_rcu` takes is an empty stub in this build.
* QHT: sequence numbers do not wrap (2^32 writes within one lookup).
* PageFlags: `mmap_frag`, `mremap`, and the exit from a TB dropped while it ran.  A host
  `mmap` or `munmap` that fails (`mmap.c:551`, `mmap.c:662`) is not a step: nothing is
  changed then.
* TBInvalidate: a TB that is invalidated while it runs and chained when it is left.
  `tb_find_fast` would chain it, since `last_tb` is not NULL and `tb_phys_invalidate` does
  not set `tb_flushed`; with one caller, who runs nothing while it invalidates, `Chain`
  takes the calling TB from the hash table.
* SearchData: the instruction counter (`translate-all.c:290`), one-shot TBs with
  `CF_NOCACHE` (`translate-all.c:307`), which the library does not make, and the test
  `searched_pc < host_pc` (`translate-all.c:265`), which never succeeds, because the search
  ends at a TB that starts at the address or before it.
* RegAlloc: fixed registers, `liveness_pass_2`, the narrowing of `add2` and `mul2`,
  frame offsets, the optimizer; the choice of instruction encodings.
* Softfloat and the NEON helpers (arithmetic on wide data, no protocol), single
  stepping, IT blocks, exceptions.
* QOM, logging, tracing; the icount clock and warp timers of `cpus.c`, which this build
  compiles but never reaches.
* The rest of the QEMU tree, glib and the ROM sources (devices, block layer, other
  targets, system emulation): in the repository and not in the library, and by far the
  most of its lines. The models cover a small share of the repository for that reason.
