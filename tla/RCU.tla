--------------------------------- MODULE RCU ---------------------------------
(***************************************************************************)
(* Read-copy-update of util/rcu.c and qemu/rcu.h, as built for a host with *)
(* 32-bit longs: readers publish the parity they started under, and        *)
(* synchronize_rcu switches the parity twice, each time waiting until no   *)
(* reader shows another one.                                               *)
(*                                                                         *)
(* Readers are threads that enter critical sections, nested too, and that  *)
(* register and unregister.  Updaters replace a shared object, call        *)
(* synchronize_rcu and free the old object.  rcu_gp_event is used through  *)
(* what module Event promises.                                             *)
(*                                                                         *)
(* rpc[r]: out; enter (rcu_read_lock has read rcu_gp_ctr); in; left        *)
(*   (rcu_read_unlock has cleared ctr); clear (it has seen waiting); notify *)
(*   (about to set the event).                                             *)
(* upc[u]: idle; sync (at rcu_sync_lock); start (at rcu_registry_lock);    *)
(*   reset, flag, scan, wait, relock (the loop of wait_for_readers);       *)
(*   done (about to unlock); free.                                         *)
(***************************************************************************)
EXTENDS Naturals, FiniteSets

CONSTANTS
    Readers, Updaters, NULL,
    MaxLocks,       \* bound: calls of rcu_read_lock
    MaxUpdates      \* bound: objects replaced

RCU_GP_LOCKED == 1
RCU_GP_CTR    == 2

ASSUME RCUAssumption ==
    /\ Readers \cap Updaters = {}
    /\ NULL \notin Updaters
    /\ MaxLocks \in Nat /\ MaxUpdates \in Nat

VARIABLES
    rcu_gp_ctr, rcu_gp_event, event_waiters,
    rcu_sync_lock, rcu_registry_lock,   \* the updater that holds it, or NULL
    registry, qsreaders,                \* the two lists of readers
    rpc, depth, ctr, waiting,           \* rcu_reader of each reader
    read_ctr,                           \* the local ctr of rcu_read_lock
    locks,
    upc, phase, todo, old,              \* per updater; todo: rest of a list walk
    shared, updates,                    \* the current object; how many so far
    held,                               \* objects a reader has got hold of
    freed,
    waitsFor                            \* history: see GracePeriod

readerVars  == <<rpc, depth, ctr, read_ctr, locks>>
updaterVars == <<upc, phase, todo, old>>
lockVars    == <<rcu_sync_lock, rcu_registry_lock>>
listVars    == <<registry, qsreaders>>
eventVars   == <<rcu_gp_event, event_waiters>>
objectVars  == <<shared, updates, held, freed>>
vars == <<rcu_gp_ctr, eventVars, lockVars, listVars, readerVars, waiting, updaterVars,
          objectVars, waitsFor>>

GpEvent == INSTANCE Event WITH
    Waiters <- Updaters, signalled <- rcu_gp_event, waiting <- event_waiters

Objects == 0 .. MaxUpdates
Parities == {RCU_GP_LOCKED, RCU_GP_LOCKED + RCU_GP_CTR}

(* The types of the variables. *)
TypeOK ==
    /\ rcu_gp_ctr \in Parities
    /\ rcu_gp_event \in BOOLEAN /\ event_waiters \in SUBSET Updaters
    /\ rcu_sync_lock \in Updaters \cup {NULL}
    /\ rcu_registry_lock \in Updaters \cup {NULL}
    /\ registry \in SUBSET Readers /\ qsreaders \in SUBSET Readers
    /\ rpc \in [Readers -> {"out", "enter", "in", "left", "clear", "notify"}]
    /\ depth \in [Readers -> 0 .. MaxLocks]
    /\ ctr \in [Readers -> {0} \cup Parities]
    /\ read_ctr \in [Readers -> Parities]
    /\ waiting \in [Readers -> BOOLEAN]
    /\ locks \in 0 .. MaxLocks
    /\ upc \in [Updaters -> {"idle", "sync", "start", "reset", "flag", "scan",
                             "wait", "relock", "done", "free"}]
    /\ phase \in [Updaters -> {1, 2}]
    /\ todo \in [Updaters -> SUBSET Readers]
    /\ old \in [Updaters -> Objects]
    /\ shared \in Objects /\ updates \in Objects
    /\ held \in [Readers -> SUBSET Objects]
    /\ freed \in SUBSET Objects
    /\ waitsFor \in [Updaters -> SUBSET Readers]

(* After rcu_init_complete; readers are registered or not. *)
Init ==
    /\ rcu_gp_ctr = RCU_GP_LOCKED
    /\ rcu_gp_event = TRUE /\ event_waiters = {}
    /\ rcu_sync_lock = NULL /\ rcu_registry_lock = NULL
    /\ registry \in SUBSET Readers /\ qsreaders = {}
    /\ rpc = [r \in Readers |-> "out"]
    /\ depth = [r \in Readers |-> 0]
    /\ ctr = [r \in Readers |-> 0]
    /\ read_ctr = [r \in Readers |-> RCU_GP_LOCKED]
    /\ waiting = [r \in Readers |-> FALSE]
    /\ locks = 0
    /\ upc = [u \in Updaters |-> "idle"]
    /\ phase = [u \in Updaters |-> 1]
    /\ todo = [u \in Updaters |-> {}]
    /\ old = [u \in Updaters |-> 0]
    /\ shared = 0 /\ updates = 0
    /\ held = [r \in Readers |-> {}]
    /\ freed = {}
    /\ waitsFor = [u \in Updaters |-> {}]

-----------------------------------------------------------------------------
(* Readers.                                                                *)

Registered(r) == r \in registry \cup qsreaders

(* rcu_read_lock, outermost: read rcu_gp_ctr ... *)
ReadLock(r) ==
    /\ rpc[r] = "out" /\ Registered(r)
    /\ locks < MaxLocks
    /\ locks' = locks + 1
    /\ depth' = [depth EXCEPT ![r] = 1]
    /\ read_ctr' = [read_ctr EXCEPT ![r] = rcu_gp_ctr]
    /\ rpc' = [rpc EXCEPT ![r] = "enter"]
    /\ UNCHANGED <<rcu_gp_ctr, eventVars, lockVars, listVars, ctr, waiting, updaterVars,
                   objectVars, waitsFor>>

(* ... and publish it. *)
ReadLockPublish(r) ==
    /\ rpc[r] = "enter"
    /\ ctr' = [ctr EXCEPT ![r] = read_ctr[r]]
    /\ rpc' = [rpc EXCEPT ![r] = "in"]
    /\ UNCHANGED <<rcu_gp_ctr, eventVars, lockVars, listVars, depth, read_ctr, locks,
                   waiting, updaterVars, objectVars, waitsFor>>

(* rcu_read_lock inside a section. *)
ReadLockNested(r) ==
    /\ rpc[r] = "in" /\ locks < MaxLocks
    /\ locks' = locks + 1
    /\ depth' = [depth EXCEPT ![r] = @ + 1]
    /\ UNCHANGED <<rcu_gp_ctr, eventVars, lockVars, listVars, rpc, ctr, read_ctr,
                   waiting, updaterVars, objectVars, waitsFor>>

(* The reader gets hold of the current object. *)
Dereference(r) ==
    /\ rpc[r] = "in"
    /\ held' = [held EXCEPT ![r] = @ \cup {shared}]
    /\ UNCHANGED <<rcu_gp_ctr, eventVars, lockVars, listVars, readerVars, waiting,
                   updaterVars, shared, updates, freed, waitsFor>>

MutLastUnlock(r) == TRUE
(* The outermost section ends with this rcu_read_unlock. *)
LastUnlock(r) == depth[r] = 1

(* rcu_read_unlock: at the outermost level clear ctr. *)
ReadUnlock(r) ==
    /\ rpc[r] = "in"
    /\ depth' = [depth EXCEPT ![r] = @ - 1]
    /\ IF LastUnlock(r)
       THEN /\ ctr' = [ctr EXCEPT ![r] = 0]
            /\ rpc' = [rpc EXCEPT ![r] = "left"]
       ELSE UNCHANGED <<ctr, rpc>>
    /\ IF depth[r] = 1   \* the section really ends here
       THEN /\ held' = [held EXCEPT ![r] = {}]
            /\ waitsFor' = [u \in Updaters |-> waitsFor[u] \ {r}]
       ELSE UNCHANGED <<held, waitsFor>>
    /\ UNCHANGED <<rcu_gp_ctr, eventVars, lockVars, listVars, read_ctr, locks, waiting,
                   updaterVars, shared, updates, freed>>

(* ... then look whether an updater waits, *)
ReadUnlockCheck(r) ==
    /\ rpc[r] = "left"
    /\ rpc' = [rpc EXCEPT ![r] = IF waiting[r] THEN "clear" ELSE "out"]
    /\ UNCHANGED <<rcu_gp_ctr, eventVars, lockVars, listVars, depth, ctr, read_ctr, locks,
                   waiting, updaterVars, objectVars, waitsFor>>

ReadUnlockClear(r) ==
    /\ rpc[r] = "clear"
    /\ waiting' = [waiting EXCEPT ![r] = FALSE]
    /\ rpc' = [rpc EXCEPT ![r] = "notify"]
    /\ UNCHANGED <<rcu_gp_ctr, eventVars, lockVars, listVars, depth, ctr, read_ctr, locks,
                   updaterVars, objectVars, waitsFor>>

(* ... and wake it. *)
ReadUnlockNotify(r) ==
    /\ rpc[r] = "notify"
    /\ GpEvent!EventSet
    /\ rpc' = [rpc EXCEPT ![r] = "out"]
    /\ UNCHANGED <<rcu_gp_ctr, lockVars, listVars, depth, ctr, read_ctr, locks, waiting,
                   updaterVars, objectVars, waitsFor>>

(* rcu_register_thread *)
Register(r) ==
    /\ rpc[r] = "out" /\ ~ Registered(r)
    /\ rcu_registry_lock = NULL
    /\ registry' = registry \cup {r}
    /\ UNCHANGED <<rcu_gp_ctr, eventVars, lockVars, qsreaders, readerVars, waiting,
                   updaterVars, objectVars, waitsFor>>

(* rcu_unregister_thread takes the reader off the list it is on, which may *)
(* be the local list of wait_for_readers.                                  *)
Unregister(r) ==
    /\ rpc[r] = "out" /\ Registered(r)
    /\ rcu_registry_lock = NULL
    /\ registry' = registry \ {r}
    /\ qsreaders' = qsreaders \ {r}
    /\ UNCHANGED <<rcu_gp_ctr, eventVars, lockVars, readerVars, waiting, updaterVars,
                   objectVars, waitsFor>>

Reader(r) ==
    \/ ReadLockPublish(r) \/ ReadUnlock(r)
    \/ ReadUnlockCheck(r) \/ ReadUnlockClear(r) \/ ReadUnlockNotify(r)
ReaderChoice(r) ==
    ReadLock(r) \/ ReadLockNested(r) \/ Dereference(r) \/ Register(r) \/ Unregister(r)

-----------------------------------------------------------------------------
(* Updaters.                                                               *)

UGoto(u, label) == upc' = [upc EXCEPT ![u] = label]

(* The updater replaces the shared object and calls synchronize_rcu. *)
Replace(u) ==
    /\ upc[u] = "idle" /\ updates < MaxUpdates
    /\ updates' = updates + 1
    /\ shared' = updates + 1
    /\ old' = [old EXCEPT ![u] = shared]
    /\ waitsFor' = [waitsFor EXCEPT ![u] = {r \in Readers : rpc[r] = "in"}]
    /\ UGoto(u, "sync")
    /\ UNCHANGED <<rcu_gp_ctr, eventVars, lockVars, listVars, readerVars, waiting, phase,
                   todo, held, freed>>

SyncLock(u) ==
    /\ upc[u] = "sync" /\ rcu_sync_lock = NULL
    /\ rcu_sync_lock' = u
    /\ UGoto(u, "start")
    /\ UNCHANGED <<rcu_gp_ctr, eventVars, rcu_registry_lock, listVars, readerVars, waiting,
                   phase, todo, old, objectVars, waitsFor>>

(* Switch parity: 0 -> 1, 1 -> 0. *)
FlipParity(c) == IF c = RCU_GP_LOCKED THEN c + RCU_GP_CTR ELSE c - RCU_GP_CTR

(* Take rcu_registry_lock; with readers registered, switch parity. *)
SyncStart(u) ==
    /\ upc[u] = "start" /\ rcu_registry_lock = NULL
    /\ rcu_registry_lock' = u
    /\ IF registry = {}
       THEN UGoto(u, "done") /\ UNCHANGED <<rcu_gp_ctr, phase>>
       ELSE /\ rcu_gp_ctr' = FlipParity(rcu_gp_ctr)
            /\ phase' = [phase EXCEPT ![u] = 1]
            /\ UGoto(u, "reset")
    /\ UNCHANGED <<eventVars, rcu_sync_lock, listVars, readerVars, waiting, todo, old,
                   objectVars, waitsFor>>

(* wait_for_readers: a turn of the loop starts with qemu_event_reset. *)
WaitReset(u) ==
    /\ upc[u] = "reset"
    /\ GpEvent!EventReset
    /\ todo' = [todo EXCEPT ![u] = registry]
    /\ UGoto(u, "flag")
    /\ UNCHANGED <<rcu_gp_ctr, lockVars, listVars, readerVars, waiting, phase, old,
                   objectVars, waitsFor>>

(* Ask every reader of the registry, one by one, to report. *)
WaitFlag(u) ==
    /\ upc[u] = "flag"
    /\ IF todo[u] = {}
       THEN /\ todo' = [todo EXCEPT ![u] = registry]
            /\ UGoto(u, "scan")
            /\ UNCHANGED waiting
       ELSE \E r \in todo[u] :
              /\ waiting' = [waiting EXCEPT ![r] = TRUE]
              /\ todo' = [todo EXCEPT ![u] = @ \ {r}]
              /\ UNCHANGED upc
    /\ UNCHANGED <<rcu_gp_ctr, eventVars, lockVars, listVars, readerVars, phase, old,
                   objectVars, waitsFor>>

(* Is the reader in a critical section of another parity? *)
rcu_gp_ongoing(r) == ctr[r] # 0 /\ ctr[r] # rcu_gp_ctr

(* Move the readers that are not, one by one, to qsreaders. *)
WaitScan(u) ==
    /\ upc[u] = "scan"
    /\ \E r \in todo[u] :
          /\ todo' = [todo EXCEPT ![u] = @ \ {r}]
          /\ IF rcu_gp_ongoing(r)
             THEN UNCHANGED <<listVars, waiting>>
             ELSE /\ registry' = registry \ {r}
                  /\ qsreaders' = qsreaders \cup {r}
                  /\ waiting' = [waiting EXCEPT ![r] = FALSE]
    /\ UNCHANGED <<rcu_gp_ctr, eventVars, lockVars, readerVars, upc, phase, old,
                   objectVars, waitsFor>>

MutSecondPhase(u) == FALSE
(* After the first wait_for_readers: switch parity and wait once more. *)
SecondPhase(u) == phase[u] = 1

(* QLIST_SWAP of the registry, which is empty, and the local list. *)
SwapBack == <<qsreaders, {}>>

(* All readers moved: put the list back, go on with the second switch of   *)
(* parity or finish.                                                       *)
WaitOver(u) ==
    /\ upc[u] = "scan" /\ todo[u] = {} /\ registry = {}
    /\ registry' = SwapBack[1] /\ qsreaders' = SwapBack[2]
    /\ IF SecondPhase(u)
       THEN /\ rcu_gp_ctr' = FlipParity(rcu_gp_ctr)
            /\ phase' = [phase EXCEPT ![u] = 2]
            /\ UGoto(u, "reset")
       ELSE UGoto(u, "done") /\ UNCHANGED <<rcu_gp_ctr, phase>>
    /\ UNCHANGED <<eventVars, lockVars, readerVars, waiting, todo, old, objectVars, waitsFor>>

MutWaitSleep(u) ==
    /\ upc[u] = "scan" /\ todo[u] = {} /\ registry # {}
    /\ rcu_registry_lock' = NULL
    /\ rcu_gp_event' = FALSE /\ event_waiters' = event_waiters \cup {u}
    /\ UGoto(u, "wait")
    /\ UNCHANGED <<rcu_gp_ctr, rcu_sync_lock, listVars, readerVars, waiting, phase, todo,
                   old, objectVars, waitsFor>>
(* Otherwise release rcu_registry_lock and wait for the event. *)
WaitSleep(u) ==
    /\ upc[u] = "scan" /\ todo[u] = {} /\ registry # {}
    /\ rcu_registry_lock' = NULL
    /\ GpEvent!EventWait(u)
    /\ UGoto(u, "wait")
    /\ UNCHANGED <<rcu_gp_ctr, rcu_sync_lock, listVars, readerVars, waiting, phase, todo,
                   old, objectVars, waitsFor>>

WaitWake(u) ==
    /\ upc[u] = "wait"
    /\ GpEvent!EventReturn(u) \/ GpEvent!EventSpurious(u)
    /\ UGoto(u, "relock")
    /\ UNCHANGED <<rcu_gp_ctr, lockVars, listVars, readerVars, waiting, phase, todo, old,
                   objectVars, waitsFor>>

WaitRelock(u) ==
    /\ upc[u] = "relock" /\ rcu_registry_lock = NULL
    /\ rcu_registry_lock' = u
    /\ UGoto(u, "reset")
    /\ UNCHANGED <<rcu_gp_ctr, eventVars, rcu_sync_lock, listVars, readerVars, waiting,
                   phase, todo, old, objectVars, waitsFor>>

(* Release both locks and return. *)
SyncReturn(u) ==
    /\ upc[u] = "done"
    /\ rcu_registry_lock' = NULL /\ rcu_sync_lock' = NULL
    /\ UGoto(u, "free")
    /\ UNCHANGED <<rcu_gp_ctr, eventVars, listVars, readerVars, waiting, phase, todo, old,
                   objectVars, waitsFor>>

(* The updater frees the object it replaced. *)
Free(u) ==
    /\ upc[u] = "free"
    /\ freed' = freed \cup {old[u]}
    /\ UGoto(u, "idle")
    /\ UNCHANGED <<rcu_gp_ctr, eventVars, lockVars, listVars, readerVars, waiting, phase,
                   todo, old, shared, updates, held, waitsFor>>

(* The steps inside synchronize_rcu, but for returning early from a wait. *)
Updater(u) ==
    \/ SyncLock(u) \/ SyncStart(u) \/ WaitReset(u) \/ WaitFlag(u) \/ WaitScan(u)
    \/ WaitOver(u) \/ WaitSleep(u) \/ (rcu_gp_event /\ WaitWake(u)) \/ WaitRelock(u)
    \/ SyncReturn(u) \/ Free(u)

Next ==
    \/ \E r \in Readers : Reader(r) \/ ReaderChoice(r)
    \/ \E u \in Updaters : Replace(u) \/ Updater(u) \/ WaitWake(u)

Spec == Init /\ [][Next]_vars

(* Threads are scheduled, and readers leave the sections they enter.       *)
(* Mutexes are given to every updater that keeps asking.                   *)
FairSpec ==
    /\ Spec
    /\ \A r \in Readers : WF_vars(Reader(r))
    /\ \A u \in Updaters : SF_vars(Updater(u))

-----------------------------------------------------------------------------
(* Properties.                                                             *)

(* No reader holds an object that an updater freed after synchronize_rcu:  *)
(* a reader that read rcu_gp_ctr long before it published it, nesting,     *)
(* threads that register or leave while the updater sleeps, and other      *)
(* updaters included.                                                      *)
NoUseAfterFree == \A r \in Readers : held[r] \cap freed = {}

(* "The invariant is that the node is part of one list when                *)
(* rcu_registry_lock is released" (wait_for_readers): no reader is on both *)
(* lists, and none is left behind on the local list of a finished call.    *)
ListsExact ==
    /\ registry \cap qsreaders = {}
    /\ rcu_sync_lock = NULL => qsreaders = {}

(* synchronize_rcu implements the grace period of module GracePeriod. *)
GP == INSTANCE GracePeriod WITH
    inside  <- {r \in Readers : rpc[r] = "in"},
    syncing <- {u \in Updaters : upc[u] \notin {"idle", "free"}}
ImplementsGracePeriod == GP!GPSpec

(* synchronize_rcu returns, although the only wake-up it gets is the one   *)
(* of readers that find waiting set when they leave.                       *)
SynchronizeReturns == \A u \in Updaters : upc[u] = "sync" ~> upc[u] = "free"
==============================================================================
