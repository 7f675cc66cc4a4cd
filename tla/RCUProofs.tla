------------------------------ MODULE RCUProofs ------------------------------
(***************************************************************************)
(* The three layers of RCU, each proved for any number of threads.         *)
(*                                                                         *)
(* synchronize_rcu: no object is freed while a reader holds it, and every  *)
(* step is a step of GracePeriod.  The argument is that of the comment in  *)
(* synchronize_rcu about 32-bit counters.  A reader that u has to wait for *)
(* may have published either parity.  In phase 1 those of the new parity   *)
(* may be moved to qsreaders; the others cannot, so that when the registry *)
(* is empty only the first kind is left.  The second switch of parity      *)
(* makes all of these ongoing, and phase 2 cannot move any of them.        *)
(*                                                                         *)
(* QemuEvent: a wake-up is never lost, an announcement of a waiter is      *)
(* never wiped out, and every step is a step of module Event.  That waits  *)
(* end (the fairness part of ImplementsEvent) is left to TLC.              *)
(*                                                                         *)
(* call_rcu: no callback runs while a reader holds its object, none runs   *)
(* twice, and the thread never finds its queue empty.  The thread counts   *)
(* callbacks, not nodes: those it dequeues after the grace period are the  *)
(* first ones of the queue, and enough of these were in it, whoever        *)
(* counted them, when the grace period began.                              *)
(***************************************************************************)
EXTENDS MCRCU, Integers, FiniteSetTheorems, TLAPS

-----------------------------------------------------------------------------
(* synchronize_rcu.                                                        *)

LockLabels == {"start", "reset", "flag", "scan", "wait", "relock", "done"}
LoopLabels == {"reset", "flag", "scan", "wait", "relock"}

(* The nesting depth stays within what rcu_read_lock counted. *)
DepthInv ==
    \A r \in Readers : depth[r] <= locks /\ (rpc[r] \in {"enter", "in"} => depth[r] >= 1)

(* A reader in a section is on a list and has published a parity; only     *)
(* there it holds objects.                                                 *)
ReaderInv ==
    \A r \in Readers :
        /\ rpc[r] \in {"enter", "in"} => Registered(r)
        /\ rpc[r] = "in" => ctr[r] \in Parities
        /\ held[r] # {} => rpc[r] = "in"

LockInv == \A u \in Updaters : upc[u] \in LockLabels => rcu_sync_lock = u

ListInv ==
    /\ ListsExact
    /\ \A u \in Updaters : upc[u] \in {"start", "done"} => qsreaders = {}

(* What the parities say of the readers that u has to wait for. *)
PhaseInv(u) ==
    /\ phase[u] = 1 => \A r \in waitsFor[u] \cap qsreaders : ctr[r] = rcu_gp_ctr
    /\ phase[u] = 2 => \A r \in waitsFor[u] : ctr[r] # rcu_gp_ctr /\ r \notin qsreaders

WaitInv ==
    \A u \in Updaters :
        /\ \A r \in waitsFor[u] : rpc[r] = "in"
        /\ upc[u] \in {"done", "free"} => waitsFor[u] = {}
        /\ upc[u] \in LoopLabels => PhaseInv(u)

(* The objects: what u replaced is held only by readers it waits for. *)
ObjectInv ==
    /\ shared = updates
    /\ \A x \in freed : x < updates
    /\ \A u \in Updaters : upc[u] # "idle" =>
          old[u] < updates /\ \A r \in Readers : old[u] \in held[r] => r \in waitsFor[u]
    /\ NoUseAfterFree

Inv == TypeOK /\ DepthInv /\ ReaderInv /\ LockInv /\ ListInv /\ WaitInv /\ ObjectInv

LEMMA InvInit == Init => Inv
BY RCUAssumption
DEF Init, Inv, TypeOK, DepthInv, ReaderInv, LockInv, ListInv, ListsExact, WaitInv, PhaseInv,
    ObjectInv, NoUseAfterFree, Objects, Parities, RCU_GP_LOCKED, RCU_GP_CTR, LockLabels, LoopLabels

LEMMA ReadLockStep == ASSUME Inv, NEW r \in Readers, ReadLock(r) PROVE Inv'
<1> USE RCUAssumption DEF ReadLock, eventVars, lockVars, listVars, updaterVars,
       objectVars, Registered
<1>1. TypeOK'
  BY DEF Inv, TypeOK, Objects, Parities, RCU_GP_LOCKED, RCU_GP_CTR, DepthInv
<1>2. DepthInv'
  BY DEF Inv, TypeOK, DepthInv
<1>3. ReaderInv'
  BY DEF Inv, TypeOK, ReaderInv
<1>4. WaitInv'
  BY DEF Inv, TypeOK, WaitInv, PhaseInv, LoopLabels, LockInv, LockLabels, ReaderInv,
         ListInv, Parities, RCU_GP_LOCKED, RCU_GP_CTR
<1>5. LockInv' /\ ListInv' /\ ObjectInv'
  BY DEF Inv, TypeOK, LockInv, LockLabels, ListInv, ListsExact, ObjectInv, NoUseAfterFree
<1> QED
  BY <1>1, <1>2, <1>3, <1>4, <1>5 DEF Inv

LEMMA ReadLockPublishStep == ASSUME Inv, NEW r \in Readers, ReadLockPublish(r) PROVE Inv'
<1> USE RCUAssumption DEF ReadLockPublish, eventVars, lockVars, listVars, updaterVars,
       objectVars
<1>1. TypeOK'
  BY DEF Inv, TypeOK, Objects, Parities, RCU_GP_LOCKED, RCU_GP_CTR, DepthInv
<1>2. DepthInv'
  BY DEF Inv, TypeOK, DepthInv
<1>3. ReaderInv'
  BY DEF Inv, TypeOK, ReaderInv, Registered
<1>4. WaitInv'
  BY DEF Inv, TypeOK, WaitInv, PhaseInv, LoopLabels, LockInv, LockLabels, ReaderInv,
         ListInv, Registered, Parities, RCU_GP_LOCKED, RCU_GP_CTR
<1>5. LockInv' /\ ListInv' /\ ObjectInv'
  BY DEF Inv, TypeOK, LockInv, LockLabels, ListInv, ListsExact, ObjectInv, NoUseAfterFree
<1> QED
  BY <1>1, <1>2, <1>3, <1>4, <1>5 DEF Inv

LEMMA ReadLockNestedStep == ASSUME Inv, NEW r \in Readers, ReadLockNested(r) PROVE Inv'
<1> USE RCUAssumption DEF ReadLockNested, eventVars, lockVars, listVars, updaterVars,
       objectVars
<1>1. TypeOK'
  BY DEF Inv, TypeOK, Objects, Parities, RCU_GP_LOCKED, RCU_GP_CTR, DepthInv
<1>2. DepthInv'
  BY DEF Inv, TypeOK, DepthInv
<1>3. ReaderInv' /\ LockInv' /\ ListInv' /\ WaitInv' /\ ObjectInv'
  BY DEF Inv, TypeOK, ReaderInv, Registered, LockInv, LockLabels, ListInv, ListsExact,
         WaitInv, PhaseInv, LoopLabels, ObjectInv, NoUseAfterFree
<1> QED
  BY <1>1, <1>2, <1>3 DEF Inv

LEMMA DereferenceStep == ASSUME Inv, NEW r \in Readers, Dereference(r) PROVE Inv'
<1> USE RCUAssumption DEF Dereference, eventVars, lockVars, listVars, readerVars,
       updaterVars
<1>1. TypeOK'
  BY DEF Inv, TypeOK
<1>2. ReaderInv'
  BY DEF Inv, TypeOK, ReaderInv, Registered
<1>3. ObjectInv'
  BY DEF Inv, TypeOK, ObjectInv, NoUseAfterFree, WaitInv, ReaderInv, Objects
<1>4. DepthInv' /\ LockInv' /\ ListInv' /\ WaitInv'
  BY DEF Inv, TypeOK, DepthInv, LockInv, LockLabels, ListInv, ListsExact, WaitInv,
         PhaseInv, LoopLabels
<1> QED
  BY <1>1, <1>2, <1>3, <1>4 DEF Inv

LEMMA ReadUnlockStep == ASSUME Inv, NEW r \in Readers, ReadUnlock(r) PROVE Inv'
<1> USE RCUAssumption DEF ReadUnlock, eventVars, lockVars, listVars, updaterVars,
       LastUnlock
<1>1. TypeOK'
  BY DEF Inv, TypeOK, Objects, Parities, RCU_GP_LOCKED, RCU_GP_CTR, DepthInv
<1>2. DepthInv'
  BY DEF Inv, TypeOK, DepthInv
<1>3. ReaderInv'
  BY DEF Inv, TypeOK, ReaderInv, Registered
<1>4. WaitInv'
  BY DEF Inv, TypeOK, WaitInv, PhaseInv, LoopLabels, LockInv, LockLabels, ReaderInv,
         ListInv, Registered, Parities, RCU_GP_LOCKED, RCU_GP_CTR
<1>5. ObjectInv'
  BY DEF Inv, TypeOK, ObjectInv, NoUseAfterFree, WaitInv, ReaderInv, Objects
<1>6. LockInv' /\ ListInv'
  BY DEF Inv, TypeOK, LockInv, LockLabels, ListInv, ListsExact
<1> QED
  BY <1>1, <1>2, <1>3, <1>4, <1>5, <1>6 DEF Inv

LEMMA ReadUnlockCheckStep == ASSUME Inv, NEW r \in Readers, ReadUnlockCheck(r) PROVE Inv'
<1> USE RCUAssumption DEF ReadUnlockCheck, eventVars, lockVars, listVars, updaterVars,
       objectVars
<1>1. TypeOK'
  BY DEF Inv, TypeOK, Objects, Parities, RCU_GP_LOCKED, RCU_GP_CTR, DepthInv
<1>2. DepthInv'
  BY DEF Inv, TypeOK, DepthInv
<1>3. ReaderInv'
  BY DEF Inv, TypeOK, ReaderInv, Registered
<1>4. WaitInv'
  BY DEF Inv, TypeOK, WaitInv, PhaseInv, LoopLabels, LockInv, LockLabels, ReaderInv,
         ListInv, Registered, Parities, RCU_GP_LOCKED, RCU_GP_CTR
<1>5. LockInv' /\ ListInv' /\ ObjectInv'
  BY DEF Inv, TypeOK, LockInv, LockLabels, ListInv, ListsExact, ObjectInv, NoUseAfterFree
<1> QED
  BY <1>1, <1>2, <1>3, <1>4, <1>5 DEF Inv

LEMMA ReadUnlockClearStep == ASSUME Inv, NEW r \in Readers, ReadUnlockClear(r) PROVE Inv'
<1> USE RCUAssumption DEF ReadUnlockClear, eventVars, lockVars, listVars, updaterVars,
       objectVars
<1>1. TypeOK'
  BY DEF Inv, TypeOK, Objects, Parities, RCU_GP_LOCKED, RCU_GP_CTR, DepthInv
<1>2. DepthInv'
  BY DEF Inv, TypeOK, DepthInv
<1>3. ReaderInv'
  BY DEF Inv, TypeOK, ReaderInv, Registered
<1>4. WaitInv'
  BY DEF Inv, TypeOK, WaitInv, PhaseInv, LoopLabels, LockInv, LockLabels, ReaderInv,
         ListInv, Registered, Parities, RCU_GP_LOCKED, RCU_GP_CTR
<1>5. LockInv' /\ ListInv' /\ ObjectInv'
  BY DEF Inv, TypeOK, LockInv, LockLabels, ListInv, ListsExact, ObjectInv, NoUseAfterFree
<1> QED
  BY <1>1, <1>2, <1>3, <1>4, <1>5 DEF Inv

LEMMA ReadUnlockNotifyStep == ASSUME Inv, NEW r \in Readers, ReadUnlockNotify(r) PROVE Inv'
<1> USE RCUAssumption DEF ReadUnlockNotify, lockVars, listVars, updaterVars, objectVars,
       GpEvent!EventSet
<1>1. TypeOK'
  BY DEF Inv, TypeOK, Objects, Parities, RCU_GP_LOCKED, RCU_GP_CTR, DepthInv
<1>2. DepthInv'
  BY DEF Inv, TypeOK, DepthInv
<1>3. ReaderInv'
  BY DEF Inv, TypeOK, ReaderInv, Registered
<1>4. WaitInv'
  BY DEF Inv, TypeOK, WaitInv, PhaseInv, LoopLabels, LockInv, LockLabels, ReaderInv,
         ListInv, Registered, Parities, RCU_GP_LOCKED, RCU_GP_CTR
<1>5. LockInv' /\ ListInv' /\ ObjectInv'
  BY DEF Inv, TypeOK, LockInv, LockLabels, ListInv, ListsExact, ObjectInv, NoUseAfterFree
<1> QED
  BY <1>1, <1>2, <1>3, <1>4, <1>5 DEF Inv

LEMMA RegisterStep == ASSUME Inv, NEW r \in Readers, Register(r) PROVE Inv'
<1> USE RCUAssumption DEF Register, eventVars, lockVars, readerVars, updaterVars,
       objectVars, Registered
<1>1. TypeOK'
  BY DEF Inv, TypeOK, Objects, Parities, RCU_GP_LOCKED, RCU_GP_CTR, DepthInv
<1>2. ReaderInv'
  BY DEF Inv, TypeOK, ReaderInv
<1>3. ListInv'
  BY DEF Inv, TypeOK, ListInv, ListsExact, LockInv, LockLabels
<1>4. DepthInv' /\ LockInv' /\ WaitInv' /\ ObjectInv'
  BY DEF Inv, TypeOK, DepthInv, LockInv, LockLabels, WaitInv, PhaseInv, LoopLabels,
         ObjectInv, NoUseAfterFree
<1> QED
  BY <1>1, <1>2, <1>3, <1>4 DEF Inv

LEMMA UnregisterStep == ASSUME Inv, NEW r \in Readers, Unregister(r) PROVE Inv'
<1> USE RCUAssumption DEF Unregister, eventVars, lockVars, readerVars, updaterVars,
       objectVars, Registered
<1>1. TypeOK'
  BY DEF Inv, TypeOK, Objects, Parities, RCU_GP_LOCKED, RCU_GP_CTR, DepthInv
<1>2. ReaderInv'
  BY DEF Inv, TypeOK, ReaderInv
<1>3. ListInv'
  BY DEF Inv, TypeOK, ListInv, ListsExact, LockInv, LockLabels
<1>4. WaitInv'
  BY DEF Inv, TypeOK, WaitInv, PhaseInv, LoopLabels, LockInv, LockLabels, ReaderInv,
         ListInv, Parities, RCU_GP_LOCKED, RCU_GP_CTR
<1>5. DepthInv' /\ LockInv' /\ ObjectInv'
  BY DEF Inv, TypeOK, DepthInv, LockInv, LockLabels, ObjectInv, NoUseAfterFree
<1> QED
  BY <1>1, <1>2, <1>3, <1>4, <1>5 DEF Inv

LEMMA ReplaceStep == ASSUME Inv, NEW u \in Updaters, Replace(u) PROVE Inv'
<1> USE RCUAssumption DEF Replace, eventVars, lockVars, listVars, readerVars, UGoto
<1>1. TypeOK'
  BY DEF Inv, TypeOK, Objects, Parities, RCU_GP_LOCKED, RCU_GP_CTR, DepthInv
<1>2. LockInv'
  BY DEF Inv, TypeOK, LockInv, LockLabels
<1>3. ListInv'
  BY DEF Inv, TypeOK, ListInv, ListsExact, LockInv, LockLabels
<1>4. WaitInv'
  BY DEF Inv, TypeOK, WaitInv, PhaseInv, LoopLabels, LockInv, LockLabels, ReaderInv,
         ListInv, Registered, Parities, RCU_GP_LOCKED, RCU_GP_CTR
<1>5. ObjectInv'
  BY DEF Inv, TypeOK, ObjectInv, NoUseAfterFree, WaitInv, ReaderInv, Objects
<1>6. DepthInv' /\ ReaderInv'
  BY DEF Inv, TypeOK, DepthInv, ReaderInv, Registered
<1> QED
  BY <1>1, <1>2, <1>3, <1>4, <1>5, <1>6 DEF Inv

LEMMA SyncLockStep == ASSUME Inv, NEW u \in Updaters, SyncLock(u) PROVE Inv'
<1> USE RCUAssumption DEF SyncLock, eventVars, listVars, readerVars, objectVars, UGoto
<1>1. TypeOK'
  BY DEF Inv, TypeOK, Objects, Parities, RCU_GP_LOCKED, RCU_GP_CTR, DepthInv
<1>2. LockInv'
  BY DEF Inv, TypeOK, LockInv, LockLabels
<1>3. ListInv'
  BY DEF Inv, TypeOK, ListInv, ListsExact, LockInv, LockLabels
<1>4. WaitInv'
  BY DEF Inv, TypeOK, WaitInv, PhaseInv, LoopLabels, LockInv, LockLabels, ReaderInv,
         ListInv, Registered, Parities, RCU_GP_LOCKED, RCU_GP_CTR
<1>5. ObjectInv'
  BY DEF Inv, TypeOK, ObjectInv, NoUseAfterFree, WaitInv, ReaderInv, Objects
<1>6. DepthInv' /\ ReaderInv'
  BY DEF Inv, TypeOK, DepthInv, ReaderInv, Registered
<1> QED
  BY <1>1, <1>2, <1>3, <1>4, <1>5, <1>6 DEF Inv

LEMMA SyncStartStep == ASSUME Inv, NEW u \in Updaters, SyncStart(u) PROVE Inv'
<1> USE RCUAssumption DEF SyncStart, eventVars, listVars, readerVars, objectVars, UGoto,
       FlipParity
<1>1. TypeOK'
  BY DEF Inv, TypeOK, Objects, Parities, RCU_GP_LOCKED, RCU_GP_CTR, DepthInv
<1>2. LockInv'
  BY DEF Inv, TypeOK, LockInv, LockLabels
<1>3. ListInv'
  BY DEF Inv, TypeOK, ListInv, ListsExact, LockInv, LockLabels
<1>4. WaitInv'
  BY DEF Inv, TypeOK, WaitInv, PhaseInv, LoopLabels, LockInv, LockLabels, ReaderInv,
         ListInv, Registered, Parities, RCU_GP_LOCKED, RCU_GP_CTR
<1>5. ObjectInv'
  BY DEF Inv, TypeOK, ObjectInv, NoUseAfterFree, WaitInv, ReaderInv, Objects
<1>6. DepthInv' /\ ReaderInv'
  BY DEF Inv, TypeOK, DepthInv, ReaderInv, Registered
<1> QED
  BY <1>1, <1>2, <1>3, <1>4, <1>5, <1>6 DEF Inv

LEMMA WaitResetStep == ASSUME Inv, NEW u \in Updaters, WaitReset(u) PROVE Inv'
<1> USE RCUAssumption DEF WaitReset, lockVars, listVars, readerVars, objectVars, UGoto,
       GpEvent!EventReset
<1>1. TypeOK'
  BY DEF Inv, TypeOK, Objects, Parities, RCU_GP_LOCKED, RCU_GP_CTR, DepthInv
<1>2. LockInv'
  BY DEF Inv, TypeOK, LockInv, LockLabels
<1>3. ListInv'
  BY DEF Inv, TypeOK, ListInv, ListsExact, LockInv, LockLabels
<1>4. WaitInv'
  BY DEF Inv, TypeOK, WaitInv, PhaseInv, LoopLabels, LockInv, LockLabels, ReaderInv,
         ListInv, Registered, Parities, RCU_GP_LOCKED, RCU_GP_CTR
<1>5. ObjectInv'
  BY DEF Inv, TypeOK, ObjectInv, NoUseAfterFree, WaitInv, ReaderInv, Objects
<1>6. DepthInv' /\ ReaderInv'
  BY DEF Inv, TypeOK, DepthInv, ReaderInv, Registered
<1> QED
  BY <1>1, <1>2, <1>3, <1>4, <1>5, <1>6 DEF Inv

LEMMA WaitFlagStep == ASSUME Inv, NEW u \in Updaters, WaitFlag(u) PROVE Inv'
<1> USE RCUAssumption DEF WaitFlag, eventVars, lockVars, listVars, readerVars, objectVars,
       UGoto
<1>1. TypeOK'
  <2>1. CASE todo[u] = {}
    BY <2>1 DEF Inv, TypeOK
  <2>2. CASE todo[u] # {}
    <3> PICK r \in todo[u] : /\ waiting' = [waiting EXCEPT ![r] = TRUE]
                             /\ todo' = [todo EXCEPT ![u] = @ \ {r}]
                             /\ UNCHANGED upc
      BY <2>2
    <3> QED
      BY <2>2 DEF Inv, TypeOK
  <2> QED
    BY <2>1, <2>2
<1>2. LockInv'
  BY DEF Inv, TypeOK, LockInv, LockLabels
<1>3. ListInv'
  BY DEF Inv, TypeOK, ListInv, ListsExact, LockInv, LockLabels
<1>4. WaitInv'
  BY DEF Inv, TypeOK, WaitInv, PhaseInv, LoopLabels, LockInv, LockLabels, ReaderInv,
         ListInv, Registered, Parities, RCU_GP_LOCKED, RCU_GP_CTR
<1>5. ObjectInv'
  BY DEF Inv, TypeOK, ObjectInv, NoUseAfterFree, WaitInv, ReaderInv, Objects
<1>6. DepthInv' /\ ReaderInv'
  BY DEF Inv, TypeOK, DepthInv, ReaderInv, Registered
<1> QED
  BY <1>1, <1>2, <1>3, <1>4, <1>5, <1>6 DEF Inv

LEMMA WaitScanStep == ASSUME Inv, NEW u \in Updaters, WaitScan(u) PROVE Inv'
<1> USE RCUAssumption DEF WaitScan, eventVars, lockVars, readerVars, objectVars, listVars,
       rcu_gp_ongoing
<1>1. TypeOK'
  <2> PICK r \in todo[u] :
         /\ todo' = [todo EXCEPT ![u] = @ \ {r}]
         /\ IF rcu_gp_ongoing(r)
            THEN UNCHANGED <<listVars, waiting>>
            ELSE /\ registry' = registry \ {r}
                 /\ qsreaders' = qsreaders \cup {r}
                 /\ waiting' = [waiting EXCEPT ![r] = FALSE]
    OBVIOUS
  <2>1. CASE rcu_gp_ongoing(r)
    BY <2>1 DEF Inv, TypeOK
  <2>2. CASE ~ rcu_gp_ongoing(r)
    <3>1. r \in Readers
      BY DEF Inv, TypeOK
    <3>2. waiting' \in [Readers -> BOOLEAN]
      <4>1. waiting \in [Readers -> BOOLEAN] /\ waiting' = [waiting EXCEPT ![r] = FALSE]
        BY <2>2 DEF Inv, TypeOK
      <4> HIDE DEF WaitScan
      <4> QED
        BY <4>1
    <3>3. registry' \in SUBSET Readers /\ qsreaders' \in SUBSET Readers
      BY <2>2, <3>1 DEF Inv, TypeOK
    <3>4. todo' \in [Updaters -> SUBSET Readers]
      BY DEF Inv, TypeOK
    <3> QED
      BY <3>2, <3>3, <3>4 DEF Inv, TypeOK
  <2> QED
    BY <2>1, <2>2
<1>2. ReaderInv'
  BY DEF Inv, TypeOK, ReaderInv, Registered
<1>3. ListInv'
  BY DEF Inv, TypeOK, ListInv, ListsExact, LockInv, LockLabels
<1>4. WaitInv'
  BY DEF Inv, TypeOK, WaitInv, PhaseInv, LoopLabels, LockInv, LockLabels, ReaderInv,
         ListInv, Registered, Parities, RCU_GP_LOCKED, RCU_GP_CTR
<1>5. DepthInv' /\ LockInv' /\ ObjectInv'
  BY DEF Inv, TypeOK, DepthInv, LockInv, LockLabels, ObjectInv, NoUseAfterFree
<1> QED
  BY <1>1, <1>2, <1>3, <1>4, <1>5 DEF Inv

LEMMA WaitOverStep == ASSUME Inv, NEW u \in Updaters, WaitOver(u) PROVE Inv'
<1> USE RCUAssumption DEF WaitOver, eventVars, lockVars, readerVars, objectVars, UGoto,
       FlipParity, SecondPhase, SwapBack
<1>1. TypeOK'
  BY DEF Inv, TypeOK, Objects, Parities, RCU_GP_LOCKED, RCU_GP_CTR, DepthInv
<1>2. ReaderInv'
  BY DEF Inv, TypeOK, ReaderInv, Registered
<1>3. LockInv'
  BY DEF Inv, TypeOK, LockInv, LockLabels
<1>4. ListInv'
  BY DEF Inv, TypeOK, ListInv, ListsExact, LockInv, LockLabels
<1>5. WaitInv'
  BY DEF Inv, TypeOK, WaitInv, PhaseInv, LoopLabels, LockInv, LockLabels, ReaderInv,
         ListInv, Registered, Parities, RCU_GP_LOCKED, RCU_GP_CTR
<1>6. ObjectInv'
  BY DEF Inv, TypeOK, ObjectInv, NoUseAfterFree, WaitInv, ReaderInv, Objects
<1>7. DepthInv'
  BY DEF Inv, TypeOK, DepthInv
<1> QED
  BY <1>1, <1>2, <1>3, <1>4, <1>5, <1>6, <1>7 DEF Inv

LEMMA WaitSleepStep == ASSUME Inv, NEW u \in Updaters, WaitSleep(u) PROVE Inv'
<1> USE RCUAssumption DEF WaitSleep, listVars, readerVars, objectVars, UGoto,
       GpEvent!EventWait
<1>1. TypeOK'
  BY DEF Inv, TypeOK, Objects, Parities, RCU_GP_LOCKED, RCU_GP_CTR, DepthInv
<1>2. LockInv'
  BY DEF Inv, TypeOK, LockInv, LockLabels
<1>3. ListInv'
  BY DEF Inv, TypeOK, ListInv, ListsExact, LockInv, LockLabels
<1>4. WaitInv'
  BY DEF Inv, TypeOK, WaitInv, PhaseInv, LoopLabels, LockInv, LockLabels, ReaderInv,
         ListInv, Registered, Parities, RCU_GP_LOCKED, RCU_GP_CTR
<1>5. ObjectInv'
  BY DEF Inv, TypeOK, ObjectInv, NoUseAfterFree, WaitInv, ReaderInv, Objects
<1>6. DepthInv' /\ ReaderInv'
  BY DEF Inv, TypeOK, DepthInv, ReaderInv, Registered
<1> QED
  BY <1>1, <1>2, <1>3, <1>4, <1>5, <1>6 DEF Inv

LEMMA WaitWakeStep == ASSUME Inv, NEW u \in Updaters, WaitWake(u) PROVE Inv'
<1> USE RCUAssumption DEF WaitWake, lockVars, listVars, readerVars, objectVars, UGoto,
       GpEvent!EventReturn, GpEvent!EventSpurious
<1>1. TypeOK'
  BY DEF Inv, TypeOK, Objects, Parities, RCU_GP_LOCKED, RCU_GP_CTR, DepthInv
<1>2. LockInv'
  BY DEF Inv, TypeOK, LockInv, LockLabels
<1>3. ListInv'
  BY DEF Inv, TypeOK, ListInv, ListsExact, LockInv, LockLabels
<1>4. WaitInv'
  BY DEF Inv, TypeOK, WaitInv, PhaseInv, LoopLabels, LockInv, LockLabels, ReaderInv,
         ListInv, Registered, Parities, RCU_GP_LOCKED, RCU_GP_CTR
<1>5. ObjectInv'
  BY DEF Inv, TypeOK, ObjectInv, NoUseAfterFree, WaitInv, ReaderInv, Objects
<1>6. DepthInv' /\ ReaderInv'
  BY DEF Inv, TypeOK, DepthInv, ReaderInv, Registered
<1> QED
  BY <1>1, <1>2, <1>3, <1>4, <1>5, <1>6 DEF Inv

LEMMA WaitRelockStep == ASSUME Inv, NEW u \in Updaters, WaitRelock(u) PROVE Inv'
<1> USE RCUAssumption DEF WaitRelock, eventVars, listVars, readerVars, objectVars, UGoto
<1>1. TypeOK'
  BY DEF Inv, TypeOK, Objects, Parities, RCU_GP_LOCKED, RCU_GP_CTR, DepthInv
<1>2. LockInv'
  BY DEF Inv, TypeOK, LockInv, LockLabels
<1>3. ListInv'
  BY DEF Inv, TypeOK, ListInv, ListsExact, LockInv, LockLabels
<1>4. WaitInv'
  BY DEF Inv, TypeOK, WaitInv, PhaseInv, LoopLabels, LockInv, LockLabels, ReaderInv,
         ListInv, Registered, Parities, RCU_GP_LOCKED, RCU_GP_CTR
<1>5. ObjectInv'
  BY DEF Inv, TypeOK, ObjectInv, NoUseAfterFree, WaitInv, ReaderInv, Objects
<1>6. DepthInv' /\ ReaderInv'
  BY DEF Inv, TypeOK, DepthInv, ReaderInv, Registered
<1> QED
  BY <1>1, <1>2, <1>3, <1>4, <1>5, <1>6 DEF Inv

LEMMA SyncReturnStep == ASSUME Inv, NEW u \in Updaters, SyncReturn(u) PROVE Inv'
<1> USE RCUAssumption DEF SyncReturn, eventVars, listVars, readerVars, objectVars, UGoto
<1>1. TypeOK'
  BY DEF Inv, TypeOK, Objects, Parities, RCU_GP_LOCKED, RCU_GP_CTR, DepthInv
<1>2. LockInv'
  BY DEF Inv, TypeOK, LockInv, LockLabels
<1>3. ListInv'
  BY DEF Inv, TypeOK, ListInv, ListsExact, LockInv, LockLabels
<1>4. WaitInv'
  BY DEF Inv, TypeOK, WaitInv, PhaseInv, LoopLabels, LockInv, LockLabels, ReaderInv,
         ListInv, Registered, Parities, RCU_GP_LOCKED, RCU_GP_CTR
<1>5. ObjectInv'
  BY DEF Inv, TypeOK, ObjectInv, NoUseAfterFree, WaitInv, ReaderInv, Objects
<1>6. DepthInv' /\ ReaderInv'
  BY DEF Inv, TypeOK, DepthInv, ReaderInv, Registered
<1> QED
  BY <1>1, <1>2, <1>3, <1>4, <1>5, <1>6 DEF Inv

LEMMA FreeStep == ASSUME Inv, NEW u \in Updaters, Free(u) PROVE Inv'
<1> USE RCUAssumption DEF Free, eventVars, lockVars, listVars, readerVars, UGoto
<1>1. TypeOK'
  BY DEF Inv, TypeOK
<1>2. LockInv'
  BY DEF Inv, TypeOK, LockInv, LockLabels
<1>3. ListInv'
  BY DEF Inv, TypeOK, ListInv, ListsExact, LockInv, LockLabels
<1>4. WaitInv'
  BY DEF Inv, TypeOK, WaitInv, PhaseInv, LoopLabels, LockInv, LockLabels, ReaderInv,
         ListInv, Registered, Parities, RCU_GP_LOCKED, RCU_GP_CTR
<1>5. ObjectInv'
  BY DEF Inv, TypeOK, ObjectInv, NoUseAfterFree, WaitInv, ReaderInv, Objects
<1>6. DepthInv' /\ ReaderInv'
  BY DEF Inv, TypeOK, DepthInv, ReaderInv, Registered
<1> QED
  BY <1>1, <1>2, <1>3, <1>4, <1>5, <1>6 DEF Inv

LEMMA InvStutter == Inv /\ UNCHANGED vars => Inv'
BY DEF Inv, vars, readerVars, updaterVars, lockVars, listVars, eventVars, objectVars,
       TypeOK,
       DepthInv, ReaderInv, LockInv, ListInv, ListsExact, WaitInv, PhaseInv, ObjectInv,
       NoUseAfterFree, Registered

LEMMA InvNext == Inv /\ [Next]_vars => Inv'
<1> SUFFICES ASSUME Inv, [Next]_vars PROVE Inv'
  OBVIOUS
<1>1. ASSUME NEW r \in Readers, Reader(r) \/ ReaderChoice(r) PROVE Inv'
  BY <1>1, ReadLockStep, ReadLockPublishStep, ReadLockNestedStep, DereferenceStep,
     ReadUnlockStep, ReadUnlockCheckStep, ReadUnlockClearStep, ReadUnlockNotifyStep,
     RegisterStep, UnregisterStep
     DEF Reader, ReaderChoice
<1>2. ASSUME NEW u \in Updaters, Replace(u) \/ Updater(u) \/ WaitWake(u) PROVE Inv'
  BY <1>2, ReplaceStep, SyncLockStep, SyncStartStep, WaitResetStep, WaitFlagStep,
     WaitScanStep, WaitOverStep, WaitSleepStep, WaitWakeStep, WaitRelockStep,
     SyncReturnStep, FreeStep
     DEF Updater
<1> QED
  BY <1>1, <1>2, InvStutter DEF Next

LEMMA InvAlways == Spec => []Inv
BY InvInit, InvNext, PTL DEF Spec

(* Type correctness of the readers, the updaters and the registry. *)
THEOREM TypeCorrect == Spec => []TypeOK
<1>1. Inv => TypeOK
  BY DEF Inv
<1> QED
  BY <1>1, InvAlways, PTL

(* No reader holds an object that was freed after synchronize_rcu, for any *)
(* number of readers and of concurrent calls of synchronize_rcu.           *)
THEOREM UseAfterFreeExcluded == Spec => []NoUseAfterFree
<1>1. Inv => NoUseAfterFree
  BY DEF Inv, ObjectInv
<1> QED
  BY <1>1, InvAlways, PTL

(* "The invariant is that the node is part of one list when                *)
(* rcu_registry_lock is released": registration while wait_for_readers     *)
(* sleeps with the readers split over two lists.                           *)
THEOREM ListsStayExact == Spec => []ListsExact
<1>1. Inv => ListsExact
  BY DEF Inv, ListInv
<1> QED
  BY <1>1, InvAlways, PTL

-----------------------------------------------------------------------------
(* Refinement.                                                             *)

Inside  == {r \in Readers : rpc[r] = "in"}
Syncing == {u \in Updaters : upc[u] \notin {"idle", "free"}}

LEMMA GPInit == Init => GP!GPInit
BY DEF Init, GP!GPInit

(* The steps that neither enter nor leave a section, nor start or end      *)
(* synchronize_rcu, stutter.                                               *)
LEMMA GPStutter ==
    ASSUME UNCHANGED <<Inside, Syncing, waitsFor>> PROVE UNCHANGED GP!gpVars
BY DEF Inside, Syncing, GP!gpVars

LEMMA GPReader ==
    ASSUME Inv, NEW r \in Readers, Reader(r) \/ ReaderChoice(r) PROVE [GP!GPNext]_(GP!gpVars)
<1> USE DEF Inv, TypeOK
<1>1. CASE ReadLockPublish(r)
  <2>1. GP!Enter(r)
    BY <1>1 DEF ReadLockPublish, updaterVars, GP!Enter
  <2> QED
    BY <2>1 DEF GP!GPNext
<1>2. CASE ReadUnlock(r) /\ depth[r] = 1
  <2>1. GP!Leave(r)
    BY <1>2 DEF ReadUnlock, LastUnlock, updaterVars, GP!Leave
  <2> QED
    BY <2>1 DEF GP!GPNext
<1>3. CASE ReadUnlock(r) /\ depth[r] # 1
  BY <1>3, GPStutter DEF ReadUnlock, LastUnlock, updaterVars, Inside, Syncing
<1>4. CASE ReadLock(r)
  BY <1>4, GPStutter DEF ReadLock, updaterVars, Inside, Syncing
<1>5. CASE ReadLockNested(r)
  BY <1>5, GPStutter DEF ReadLockNested, updaterVars, Inside, Syncing
<1>6. CASE Dereference(r)
  BY <1>6, GPStutter DEF Dereference, readerVars, updaterVars, Inside, Syncing
<1>7. CASE ReadUnlockCheck(r)
  BY <1>7, GPStutter DEF ReadUnlockCheck, updaterVars, Inside, Syncing
<1>8. CASE ReadUnlockClear(r)
  BY <1>8, GPStutter DEF ReadUnlockClear, updaterVars, Inside, Syncing
<1>9. CASE ReadUnlockNotify(r)
  BY <1>9, GPStutter DEF ReadUnlockNotify, updaterVars, Inside, Syncing
<1>10. CASE Register(r) \/ Unregister(r)
  BY <1>10, GPStutter DEF Register, Unregister, readerVars, updaterVars, Inside, Syncing
<1> QED
  BY <1>1, <1>2, <1>3, <1>4, <1>5, <1>6, <1>7, <1>8, <1>9, <1>10 DEF Reader, ReaderChoice

LEMMA GPUpdater ==
    ASSUME Inv, NEW u \in Updaters, Replace(u) \/ Updater(u) \/ WaitWake(u)
    PROVE  [GP!GPNext]_(GP!gpVars)
<1> USE DEF Inv, TypeOK, UGoto
<1>1. CASE Replace(u)
  <2>1. GP!SyncBegin(u)
    BY <1>1 DEF Replace, readerVars, GP!SyncBegin
  <2> QED
    BY <2>1 DEF GP!GPNext
<1>2. CASE SyncReturn(u)
  <2>1. waitsFor[u] = {}
    BY <1>2 DEF SyncReturn, WaitInv
  <2>2. GP!SyncEnd(u)
    BY <1>2, <2>1 DEF SyncReturn, readerVars, GP!SyncEnd
  <2> QED
    BY <2>2 DEF GP!GPNext
<1>3. CASE SyncLock(u)
  BY <1>3, GPStutter DEF SyncLock, readerVars, Inside, Syncing
<1>4. CASE SyncStart(u)
  BY <1>4, GPStutter DEF SyncStart, readerVars, Inside, Syncing
<1>5. CASE WaitReset(u)
  BY <1>5, GPStutter DEF WaitReset, readerVars, Inside, Syncing
<1>6. CASE WaitFlag(u)
  BY <1>6, GPStutter DEF WaitFlag, readerVars, Inside, Syncing
<1>7. CASE WaitScan(u)
  BY <1>7, GPStutter DEF WaitScan, readerVars, Inside, Syncing
<1>8. CASE WaitOver(u)
  BY <1>8, GPStutter DEF WaitOver, readerVars, Inside, Syncing
<1>9. CASE WaitSleep(u)
  BY <1>9, GPStutter DEF WaitSleep, readerVars, Inside, Syncing
<1>10. CASE WaitWake(u)
  BY <1>10, GPStutter DEF WaitWake, readerVars, Inside, Syncing
<1>11. CASE WaitRelock(u)
  BY <1>11, GPStutter DEF WaitRelock, readerVars, Inside, Syncing
<1>12. CASE Free(u)
  BY <1>12, GPStutter DEF Free, readerVars, Inside, Syncing
<1> QED
  BY <1>1, <1>2, <1>3, <1>4, <1>5, <1>6, <1>7, <1>8, <1>9, <1>10, <1>11, <1>12 DEF Updater

(* Every step of synchronize_rcu and of its readers is a step of           *)
(* GracePeriod: it returns only after every section that was running when  *)
(* it was called has ended.                                                *)
THEOREM GracePeriodImplemented == Spec => ImplementsGracePeriod
<1>1. Inv /\ [Next]_vars => [GP!GPNext]_(GP!gpVars)
  <2> SUFFICES ASSUME Inv, [Next]_vars PROVE [GP!GPNext]_(GP!gpVars)
    OBVIOUS
  <2>1. CASE UNCHANGED vars
    BY <2>1 DEF vars, readerVars, updaterVars, GP!gpVars
  <2> QED
    BY <2>1, GPReader, GPUpdater DEF Next
<1> QED
  BY <1>1, GPInit, InvAlways, PTL DEF Spec, ImplementsGracePeriod, GP!GPSpec

-----------------------------------------------------------------------------
(* QemuEvent.                                                              *)

EventLabels == {"idle"} \cup Ev!SetLabels \cup Ev!ResetLabels \cup Ev!WaitLabels

(* The inductive invariant.  Only threads that stopped at the futex are in *)
(* the kernel's queue; the invariant itself is inductive with the types.   *)
EventInv ==
    /\ value \in {Ev!EV_SET, Ev!EV_FREE, Ev!EV_BUSY}
    /\ pc \in [Threads -> EventLabels]
    /\ queue \in SUBSET {t \in Threads : pc[t] = "asleep"}
    /\ Ev!NoLostWakeup

LEMMA EventInvInit == Ev!Init => EventInv
BY DEF Ev!Init, EventInv, Ev!NoLostWakeup, Ev!EV_SET, Ev!EV_FREE, Ev!EV_BUSY, EventLabels

LEMMA EventInvNext == EventInv /\ [Ev!Next]_(Ev!vars) => EventInv'
<1> SUFFICES ASSUME EventInv, [Ev!Next]_(Ev!vars) PROVE EventInv'
  OBVIOUS
<1> USE DEF EventInv, Ev!NoLostWakeup, EventLabels, Ev!SetLabels, Ev!ResetLabels,
            Ev!WaitLabels, Ev!EV_SET, Ev!EV_FREE, Ev!EV_BUSY, Ev!At, Ev!Goto
<1>1. ASSUME NEW t \in Threads, Ev!Call(t) PROVE EventInv'
  BY <1>1 DEF Ev!Call
<1>2. ASSUME NEW t \in Threads, Ev!SetRead(t) PROVE EventInv'
  BY <1>2 DEF Ev!SetRead
<1>3. ASSUME NEW t \in Threads, Ev!SetXchg(t) PROVE EventInv'
  <2>1. CASE value = Ev!EV_BUSY
    BY <1>3, <2>1 DEF Ev!SetXchg, Ev!NeedsWake
  <2>2. CASE value # Ev!EV_BUSY
    BY <1>3, <2>2 DEF Ev!SetXchg, Ev!NeedsWake
  <2> QED
    BY <2>1, <2>2
<1>4. ASSUME NEW t \in Threads, Ev!SetWake(t) PROVE EventInv'
  BY <1>4 DEF Ev!SetWake
<1>5. ASSUME NEW t \in Threads, Ev!ResetRead(t) PROVE EventInv'
  BY <1>5 DEF Ev!ResetRead
<1>6. ASSUME NEW t \in Threads, Ev!ResetOr(t) PROVE EventInv'
  BY <1>6 DEF Ev!ResetOr, Ev!OrFree
<1>7. ASSUME NEW t \in Threads, Ev!WaitRead(t) PROVE EventInv'
  BY <1>7 DEF Ev!WaitRead
<1>8. ASSUME NEW t \in Threads, Ev!WaitCas(t) PROVE EventInv'
  BY <1>8 DEF Ev!WaitCas
<1>9. ASSUME NEW t \in Threads, Ev!FutexWait(t) PROVE EventInv'
  BY <1>9 DEF Ev!FutexWait, Ev!FutexSleeps
<1>10. ASSUME NEW t \in Threads, Ev!Woken(t) PROVE EventInv'
  BY <1>10 DEF Ev!Woken
<1>11. ASSUME NEW t \in Threads, Ev!Interrupted(t) PROVE EventInv'
  BY <1>11 DEF Ev!Interrupted
<1>12. CASE UNCHANGED Ev!vars
  BY <1>12 DEF Ev!vars
<1> QED
  BY <1>1, <1>2, <1>3, <1>4, <1>5, <1>6, <1>7, <1>8, <1>9, <1>10, <1>11, <1>12
     DEF Ev!Next, Ev!Step

LEMMA EventInvAlways == Ev!Spec => []EventInv
BY EventInvInit, EventInvNext, PTL DEF Ev!Spec

(* No sleeper is forgotten, whatever sets, resets and signals interleave. *)
THEOREM WakeupsKept == MCSpec => []NoLostWakeup
<1>1. MCInit => EventInv
  BY EventInvInit DEF MCInit
<1>2. EventInv /\ [MCNext]_<<layer, evVars, vars, callVars>> => EventInv'
  BY EventInvNext DEF MCNext, evVars, Ev!vars
<1>3. EventInv => NoLostWakeup
  BY DEF EventInv, NoLostWakeup
<1> QED
  BY <1>1, <1>2, <1>3, PTL DEF MCSpec

(* "busy->free provably cannot happen": the comment above EV_SET. *)
THEOREM BusyStays == Ev!Spec => Ev!NoBusyToFree
<1>1. EventInv /\ [Ev!Next]_(Ev!vars) => [~ (value = Ev!EV_BUSY /\ value' = Ev!EV_FREE)]_(Ev!vars)
  BY DEF EventInv, Ev!Next, Ev!Step, Ev!Call, Ev!SetRead, Ev!SetXchg, Ev!SetWake,
         Ev!ResetRead, Ev!ResetOr, Ev!OrFree, Ev!WaitRead, Ev!WaitCas, Ev!FutexWait, Ev!Woken,
         Ev!Interrupted, Ev!EV_SET, Ev!EV_FREE, Ev!EV_BUSY, Ev!vars
<1> QED
  BY <1>1, EventInvAlways, PTL DEF Ev!Spec, Ev!NoBusyToFree

(* What ImplementsEvent says of single steps. *)
StepsOfEvent == Ev!E!EventInit /\ [][Ev!E!EventNext]_(Ev!E!eventVars)

LEMMA EventStepRefines == EventInv /\ [Ev!Next]_(Ev!vars) => [Ev!E!EventNext]_(Ev!E!eventVars)
<1> SUFFICES ASSUME EventInv, [Ev!Next]_(Ev!vars) PROVE [Ev!E!EventNext]_(Ev!E!eventVars)
  OBVIOUS
<1> USE DEF EventInv, EventLabels, Ev!SetLabels, Ev!ResetLabels, Ev!WaitLabels, Ev!EV_SET,
            Ev!EV_FREE, Ev!EV_BUSY, Ev!At, Ev!Goto, Ev!E!eventVars
<1>1. ASSUME NEW t \in Threads, Ev!Call(t) PROVE [Ev!E!EventNext]_(Ev!E!eventVars)
  <2>1. PICK label \in {"set", "reset", "wait"} : Ev!Goto(t, label)
    BY <1>1 DEF Ev!Call
  <2>2. CASE label = "wait"
    <3>1. Ev!E!EventWait(t)
      BY <1>1, <2>1, <2>2 DEF Ev!Call, Ev!E!EventWait
    <3> QED
      BY <3>1 DEF Ev!E!EventNext
  <2>3. CASE label # "wait"
    BY <1>1, <2>1, <2>3 DEF Ev!Call
  <2> QED
    BY <2>2, <2>3
<1>2. ASSUME NEW t \in Threads,
             Ev!SetRead(t) \/ Ev!ResetRead(t) \/ Ev!SetWake(t) \/ Ev!Interrupted(t)
      PROVE  UNCHANGED Ev!E!eventVars
  BY <1>2 DEF Ev!SetRead, Ev!ResetRead, Ev!SetWake, Ev!Interrupted
<1>3. ASSUME NEW t \in Threads, Ev!SetXchg(t) PROVE [Ev!E!EventNext]_(Ev!E!eventVars)
  <2>1. Ev!E!EventSet
    BY <1>3 DEF Ev!SetXchg, Ev!E!EventSet
  <2> QED
    BY <2>1 DEF Ev!E!EventNext
<1>4. ASSUME NEW t \in Threads, Ev!ResetOr(t) PROVE [Ev!E!EventNext]_(Ev!E!eventVars)
  <2>1. Ev!E!EventReset
    BY <1>4 DEF Ev!ResetOr, Ev!OrFree, Ev!E!EventReset
  <2> QED
    BY <2>1 DEF Ev!E!EventNext
<1>5. ASSUME NEW t \in Threads, Ev!WaitRead(t) \/ Ev!WaitCas(t) \/ Ev!FutexWait(t) \/ Ev!Woken(t)
      PROVE  [Ev!E!EventNext]_(Ev!E!eventVars)
  <2>1. pc[t] \in Ev!WaitLabels /\ (value' = Ev!EV_SET <=> value = Ev!EV_SET)
    BY <1>5 DEF Ev!WaitRead, Ev!WaitCas, Ev!FutexWait, Ev!FutexSleeps, Ev!Woken
  <2>2. \E label \in Ev!WaitLabels \cup {"idle"} : pc' = [pc EXCEPT ![t] = label]
    BY <1>5 DEF Ev!WaitRead, Ev!WaitCas, Ev!FutexWait, Ev!FutexSleeps, Ev!Woken
  <2>3. CASE pc'[t] = "idle"
    <3>1. Ev!E!EventReturn(t) \/ Ev!E!EventSpurious(t)
      BY <2>1, <2>2, <2>3 DEF Ev!E!EventReturn, Ev!E!EventSpurious
    <3> QED
      BY <3>1 DEF Ev!E!EventNext
  <2>4. CASE pc'[t] # "idle"
    BY <2>1, <2>2, <2>4
  <2> QED
    BY <2>3, <2>4
<1>6. CASE UNCHANGED Ev!vars
  BY <1>6 DEF Ev!vars
<1> QED
  BY <1>1, <1>2, <1>3, <1>4, <1>5, <1>6 DEF Ev!Next, Ev!Step

(* Every step of the futex word, of the threads and of the kernel's queue  *)
(* is a step of the abstract event: its flag changes and waits end only as *)
(* qemu_event_set, qemu_event_reset and qemu_event_wait promise.           *)
THEOREM EventImplemented == Ev!Spec => StepsOfEvent
<1>1. Ev!Init => Ev!E!EventInit
  BY DEF Ev!Init, Ev!E!EventInit, Ev!EV_SET, Ev!WaitLabels
<1> QED
  BY <1>1, EventStepRefines, EventInvAlways, PTL DEF Ev!Spec, StepsOfEvent

-----------------------------------------------------------------------------
(* call_rcu.                                                               *)

Cells == Nodes \cup {dummy}

(* Where the thread is: gathering callbacks, having taken n of them off    *)
(* the counter, and dequeuing them after the grace period.                 *)
Gathering  == {"loop", "sleep", "recheck", "wait", "reread", "sub"}
Dequeuing  == {"empty", "next", "relink", "reset", "event", "run"}
Subtracted == {"sync", "synced"} \cup Dequeuing

(* "abort" is not among the labels. *)
CallTypes ==
    /\ inside \subseteq QueueReaders
    /\ callWaitsFor \in [{CallThread} -> SUBSET QueueReaders]
    /\ next \in [Cells -> Cells \cup {NULL}]
    /\ rcu_call_count \in Nat /\ n \in Nat
    /\ ppc \in [Producers -> {"idle", "link", "inc", "set"}]
    /\ node \in [Producers -> Cells] /\ old_tail \in [Producers -> Cells]
    /\ cpc \in {"off", "count"} \cup Gathering \cup Subtracted
    /\ removed \in Cells
    /\ live \subseteq Nodes /\ callHeld \in [QueueReaders -> SUBSET Nodes]
    /\ runs \in [Nodes -> {0, 1}]

(* The queue from head to tail is at[lo] .. at[hi], the dummy at place d.  *)
(* A link may be missing, but none is wrong.                               *)
QueueAt(at, lo, hi, d) ==
    /\ lo <= d /\ d <= hi /\ at[d] = dummy
    /\ head = at[lo] /\ tail = at[hi]
    /\ \A i, j \in lo .. hi : at[i] = at[j] => i = j
    /\ \A i \in lo .. hi : i # hi => next[at[i]] \in {NULL, at[i + 1]}
    /\ next[at[hi]] = NULL

(* The links that producers, and the thread with its dummy, have yet to    *)
(* make: each is a missing link of the queue, and no two are the same.     *)
PendingLinks(at, lo, hi) ==
    /\ \A p \in Producers : ppc[p] = "link" =>
          /\ node[p] \in Nodes /\ next[old_tail[p]] = NULL
          /\ \E i \in lo .. hi : i # hi /\ at[i] = old_tail[p] /\ at[i + 1] = node[p]
    /\ \A p, q \in Producers :
          ppc[p] = "link" /\ ppc[q] = "link" /\ p # q => node[p] # node[q]
    /\ cpc = "relink" =>
          /\ next[removed] = NULL
          /\ \E i \in lo .. hi : i # hi /\ at[i] = removed /\ at[i + 1] = dummy

(* Producers that have enqueued a node and not counted it. *)
Uncounted == {p \in Producers : ppc[p] \in {"link", "inc"}}

Taken == IF cpc \in Subtracted THEN n ELSE 0

(* The node whose callback is about to run has left the queue. *)
Running == IF cpc = "run" THEN 1 ELSE 0

(* Every node of the queue is counted, taken off the counter or about to   *)
(* be counted.                                                             *)
Counts(lo, hi) ==
    /\ rcu_call_count + Taken + Cardinality(Uncounted) = hi - lo + Running
    /\ cpc \in Gathering => n <= rcu_call_count
    /\ cpc \in {"sub"} \cup Subtracted => n > 0

(* Only readers that the grace period waits for can hold x. *)
Retired(x) ==
    /\ x \notin live
    /\ \A r \in QueueReaders : x \in callHeld[r] => r \in callWaitsFor[CallThread]

(* The nodes up to place b were in the queue when the grace period began,  *)
(* and they are at least as many as the thread is going to dequeue.        *)
GraceCovers(at, lo, hi, d, b) ==
    cpc \in {"synced"} \cup Dequeuing =>
        /\ b <= hi
        /\ \A i \in lo .. hi : i <= b /\ at[i] # dummy => Retired(at[i])
        /\ n <= b - lo + 1 + Running - (IF d <= b THEN 1 ELSE 0)

(* Nodes of the queue are not live, and their callbacks have not run. *)
Fresh(at, lo, hi) ==
    \A i \in lo .. hi : at[i] \in Nodes =>
        at[i] \notin live /\ runs[at[i]] = 0 /\ (cpc = "run" => at[i] # removed)

Queue(at, lo, hi, d, b) ==
    /\ QueueAt(at, lo, hi, d) /\ PendingLinks(at, lo, hi) /\ Counts(lo, hi)
    /\ GraceCovers(at, lo, hi, d, b) /\ Fresh(at, lo, hi)

(* Readers hold nothing outside their sections, and nothing that was freed. *)
ObjectsSafe ==
    /\ \A r \in QueueReaders : callHeld[r] # {} => r \in inside
    /\ cpc \in Dequeuing => callWaitsFor[CallThread] = {}
    /\ cpc = "run" => removed \in Nodes /\ Retired(removed) /\ runs[removed] = 0
    /\ \A x \in live : runs[x] = 0
    /\ \A x \in Nodes : runs[x] # 0 => \A r \in QueueReaders : x \notin callHeld[r]

Places == [Int -> Cells]

(* The inductive invariant.  Places are never reused: enqueue takes the    *)
(* next one up, and dequeuing moves lo up.                                 *)
CallInv ==
    /\ CallTypes /\ ObjectsSafe
    /\ \E at \in Places : \E lo, hi, d, b \in Int : Queue(at, lo, hi, d, b)

LEMMA CallInit == Call!Init => CallInv
<1> SUFFICES ASSUME Call!Init PROVE CallInv
  OBVIOUS
<1> USE CallAssumption DEF Call!Init, Call!GPInit
<1>1. CallTypes
  BY DEF CallTypes, Cells, Gathering, Subtracted, Dequeuing
<1>2. ObjectsSafe
  BY DEF ObjectsSafe, Dequeuing
<1> DEFINE at == [i \in Int |-> dummy]
<1>3. at \in Places
  BY DEF Places, Cells
<1>4. Uncounted = {}
  BY DEF Uncounted
<1>5. Cardinality(Uncounted) = 0
  BY <1>4, FS_EmptySet
<1>6. Queue(at, 0, 0, 0, 0)
  <2>1. QueueAt(at, 0, 0, 0)
    BY DEF QueueAt, Cells
  <2>2. PendingLinks(at, 0, 0)
    BY DEF PendingLinks
  <2>3. Counts(0, 0)
    BY <1>5 DEF Counts, Taken, Running, Gathering, Subtracted, Dequeuing
  <2>4. GraceCovers(at, 0, 0, 0, 0)
    BY DEF GraceCovers, Dequeuing
  <2>5. Fresh(at, 0, 0)
    BY DEF Fresh
  <2> QED
    BY <2>1, <2>2, <2>3, <2>4, <2>5 DEF Queue
<1> QED
  BY <1>1, <1>2, <1>3, <1>6 DEF CallInv

(* The node is new in the queue, and the missing link to it is pending. *)
LEMMA CallRcuStep ==
    ASSUME CallTypes, ObjectsSafe, NEW at \in Places, NEW lo \in Int, NEW hi \in Int,
           NEW d \in Int, NEW b \in Int, Queue(at, lo, hi, d, b),
           NEW p \in Producers, Call!CallRcu(p)
    PROVE  CallInv'
<1> USE CallAssumption
<1>1. PICK x \in live : /\ live' = live \ {x}
                        /\ tail' = x
                        /\ next' = [next EXCEPT ![x] = NULL]
                        /\ node' = [node EXCEPT ![p] = x]
  BY DEF Call!CallRcu, Call!SwingTail
<1>2. /\ ppc[p] = "idle"
      /\ old_tail' = [old_tail EXCEPT ![p] = tail]
      /\ ppc' = [ppc EXCEPT ![p] = "link"]
      /\ UNCHANGED <<inside, syncing, callWaitsFor, head, rcu_call_count, cpc, n, removed,
                     callHeld, runs>>
  BY DEF Call!CallRcu, Call!gpVars, Call!consVars
<1>3. x \in Nodes /\ x \in Cells /\ x # dummy
  BY DEF CallTypes, Cells
<1> DEFINE at2 == [at EXCEPT ![hi + 1] = x]
<1>4. at2 \in Places /\ at2[hi + 1] = x /\ \A i \in lo .. hi : at2[i] = at[i]
  BY <1>3 DEF Places
<1>5. \A i \in lo .. hi : at[i] # x /\ at[i] \in Cells
  BY <1>3 DEF Queue, Fresh, CallTypes, Places
<1>6. tail = at[hi] /\ lo \in lo .. hi /\ hi \in lo .. hi /\ d \in lo .. hi
  BY DEF Queue, QueueAt
<1> HIDE DEF at2
<1>7. CallTypes'
  BY <1>1, <1>2, <1>3, <1>5, <1>6 DEF CallTypes, Cells
<1>8. ObjectsSafe'
  BY <1>1, <1>2, <1>3 DEF ObjectsSafe, CallTypes, Retired
<1>9. QueueAt(at2, lo, hi + 1, d)'
  <2>1. \A i \in lo .. hi + 1 : i = hi + 1 \/ i \in lo .. hi
    OBVIOUS
  <2>2. \A i, j \in lo .. hi + 1 : at2[i] = at2[j] => i = j
    BY <1>4, <1>5, <2>1 DEF Queue, QueueAt
  <2>3. \A i \in lo .. hi + 1 : i # hi + 1 => next'[at2[i]] \in {NULL, at2[i + 1]}
    <3> SUFFICES ASSUME NEW i \in lo .. hi PROVE next'[at2[i]] \in {NULL, at2[i + 1]}
      BY <2>1
    <3>1. next'[at2[i]] = next[at[i]]
      BY <1>1, <1>3, <1>4, <1>5 DEF CallTypes
    <3>2. CASE i = hi
      BY <3>1, <3>2 DEF Queue, QueueAt
    <3>3. CASE i # hi
      <4>1. i + 1 \in lo .. hi
        BY <3>3
      <4> QED
        BY <3>1, <3>3, <4>1, <1>4 DEF Queue, QueueAt
    <3> QED
      BY <3>2, <3>3
  <2>4. next'[x] = NULL
    BY <1>1, <1>3 DEF CallTypes
  <2> QED
    BY <1>1, <1>2, <1>4, <1>6, <2>2, <2>3, <2>4 DEF Queue, QueueAt
<1>10. PendingLinks(at2, lo, hi + 1)'
  <2>1. ASSUME NEW q \in Producers, ppc'[q] = "link"
        PROVE  /\ node'[q] \in Nodes /\ next'[old_tail'[q]] = NULL
               /\ \E i \in lo .. hi + 1 :
                     i # hi + 1 /\ at2[i] = old_tail'[q] /\ at2[i + 1] = node'[q]
    <3>1. CASE q = p
      <4>1. node'[q] = x /\ old_tail'[q] = at[hi]
        BY <1>1, <1>2, <1>6, <3>1 DEF CallTypes
      <4>2. next'[at[hi]] = NULL
        BY <1>1, <1>3, <1>5, <1>6 DEF CallTypes, Queue, QueueAt
      <4>3. at2[hi] = at[hi] /\ at2[hi + 1] = x /\ hi \in lo .. hi + 1 /\ hi # hi + 1
        BY <1>4, <1>6
      <4> QED
        BY <4>1, <4>2, <4>3, <1>3
    <3>2. CASE q # p
      <4>1. ppc[q] = "link" /\ node'[q] = node[q] /\ old_tail'[q] = old_tail[q]
        BY <1>1, <1>2, <2>1, <3>2 DEF CallTypes
      <4>2. PICK i \in lo .. hi : i # hi /\ at[i] = old_tail[q] /\ at[i + 1] = node[q]
        BY <4>1 DEF Queue, PendingLinks
      <4>3. i \in lo .. hi + 1 /\ i + 1 \in lo .. hi /\ i # hi + 1
        BY <4>2
      <4>4. at2[i] = old_tail[q] /\ at2[i + 1] = node[q]
        BY <4>2, <4>3, <1>4
      <4>5. node[q] \in Nodes /\ next[old_tail[q]] = NULL /\ old_tail[q] \in Cells
        BY <4>1 DEF Queue, PendingLinks, CallTypes
      <4>6. next'[old_tail[q]] = NULL
        BY <1>1, <1>3, <4>5 DEF CallTypes
      <4> QED
        BY <4>1, <4>3, <4>4, <4>5, <4>6
    <3> QED
      BY <3>1, <3>2
  <2>2. ASSUME NEW q \in Producers, ppc[q] = "link" PROVE node[q] # x
    <3>1. PICK i \in lo .. hi : i # hi /\ at[i + 1] = node[q]
      BY <2>2 DEF Queue, PendingLinks
    <3>2. i + 1 \in lo .. hi
      BY <3>1
    <3> QED
      BY <3>1, <3>2, <1>5
  <2>3. ASSUME NEW q1 \in Producers, NEW q2 \in Producers,
               ppc'[q1] = "link", ppc'[q2] = "link", q1 # q2
        PROVE  node'[q1] # node'[q2]
    BY <1>1, <1>2, <2>2, <2>3 DEF CallTypes, Queue, PendingLinks
  <2>4. ASSUME cpc' = "relink"
        PROVE  /\ next'[removed'] = NULL
               /\ \E i \in lo .. hi + 1 :
                     i # hi + 1 /\ at2[i] = removed' /\ at2[i + 1] = dummy
    <3>1. cpc = "relink" /\ removed' = removed /\ removed \in Cells
      BY <1>2, <2>4 DEF CallTypes
    <3>2. PICK i \in lo .. hi : i # hi /\ at[i] = removed /\ at[i + 1] = dummy
      BY <3>1 DEF Queue, PendingLinks
    <3>3. i \in lo .. hi + 1 /\ i + 1 \in lo .. hi /\ i # hi + 1
      BY <3>2
    <3>4. at2[i] = removed /\ at2[i + 1] = dummy
      BY <3>2, <3>3, <1>4
    <3>5. next'[removed] = NULL
      BY <3>1, <1>1, <1>3 DEF CallTypes, Queue, PendingLinks
    <3> QED
      BY <3>1, <3>3, <3>4, <3>5
  <2> QED
    BY <2>1, <2>3, <2>4 DEF PendingLinks
<1>11. Counts(lo, hi + 1)'
  <2>1. Uncounted' = Uncounted \cup {p} /\ p \notin Uncounted
    BY <1>2 DEF Uncounted, CallTypes
  <2>2. IsFiniteSet(Uncounted)
    BY FS_Subset DEF Uncounted
  <2>3. Cardinality(Uncounted') = Cardinality(Uncounted) + 1 /\ Cardinality(Uncounted) \in Nat
    BY <2>1, <2>2, FS_AddElement, FS_CardinalityType
  <2>4. Taken' = Taken /\ Running' = Running /\ Taken \in Nat /\ Running \in Nat
    BY <1>2 DEF Taken, Running, CallTypes
  <2> QED
    BY <1>2, <2>3, <2>4 DEF Queue, Counts, CallTypes
<1>12. GraceCovers(at2, lo, hi + 1, d, b)'
  <2> SUFFICES ASSUME cpc \in {"synced"} \cup Dequeuing PROVE GraceCovers(at2, lo, hi + 1, d, b)'
    BY <1>2 DEF GraceCovers
  <2>1. b <= hi /\ n <= b - lo + 1 + Running - (IF d <= b THEN 1 ELSE 0)
    BY DEF Queue, GraceCovers
  <2>2. ASSUME NEW i \in lo .. hi + 1, i <= b, at2[i] # dummy PROVE Retired(at2[i])'
    <3>1. i \in lo .. hi
      BY <2>1, <2>2
    <3>2. Retired(at[i])
      BY <3>1, <2>2, <1>4 DEF Queue, GraceCovers
    <3> QED
      BY <3>1, <3>2, <1>1, <1>2, <1>4 DEF Retired
  <2>3. Running' = Running
    BY <1>2 DEF Running
  <2>4. b <= hi + 1
    BY <2>1
  <2> QED
    BY <1>2, <2>1, <2>2, <2>3, <2>4 DEF GraceCovers
<1>13. Fresh(at2, lo, hi + 1)'
  <2>1. ASSUME NEW i \in lo .. hi + 1, at2[i] \in Nodes
        PROVE  at2[i] \notin live' /\ runs'[at2[i]] = 0 /\ (cpc' = "run" => at2[i] # removed')
    <3>1. CASE i = hi + 1
      BY <1>1, <1>2, <1>4, <3>1 DEF ObjectsSafe, Retired
    <3>2. CASE i # hi + 1
      <4>1. i \in lo .. hi
        BY <3>2
      <4> QED
        BY <4>1, <2>1, <1>1, <1>2, <1>4 DEF Queue, Fresh
    <3> QED
      BY <3>1, <3>2
  <2> QED
    BY <2>1 DEF Fresh
<1>14. Queue(at2, lo, hi + 1, d, b)'
  BY <1>9, <1>10, <1>11, <1>12, <1>13 DEF Queue
<1>15. hi + 1 \in Int
  OBVIOUS
<1> QED
  BY <1>4, <1>7, <1>8, <1>14, <1>15 DEF CallInv

(* The link that is made is the missing one of this producer alone. *)
LEMMA EnqueueLinkStep ==
    ASSUME CallTypes, ObjectsSafe, NEW at \in Places, NEW lo \in Int, NEW hi \in Int,
           NEW d \in Int, NEW b \in Int, Queue(at, lo, hi, d, b),
           NEW p \in Producers, Call!EnqueueLink(p)
    PROVE  CallInv'
<1> USE CallAssumption
<1>1. /\ ppc[p] = "link"
      /\ next' = [next EXCEPT ![old_tail[p]] = node[p]]
      /\ ppc' = [ppc EXCEPT ![p] = "inc"]
      /\ UNCHANGED <<inside, syncing, callWaitsFor, head, tail, rcu_call_count, node, old_tail,
                     cpc, n, removed, live, callHeld, runs>>
  BY DEF Call!EnqueueLink, Call!gpVars, Call!consVars, Call!objVars
<1>2. PICK k \in lo .. hi : k # hi /\ at[k] = old_tail[p] /\ at[k + 1] = node[p]
  BY <1>1 DEF Queue, PendingLinks
<1>3. node[p] \in Nodes /\ next[old_tail[p]] = NULL
  BY <1>1 DEF Queue, PendingLinks
<1>4. k + 1 \in lo .. hi /\ hi \in lo .. hi
  BY <1>2
<1>5. \A i \in lo .. hi : at[i] \in Cells
  BY DEF Places
<1>6. \A i \in lo .. hi : i # k => next'[at[i]] = next[at[i]]
  BY <1>1, <1>2, <1>5 DEF CallTypes, Queue, QueueAt
<1>7. next'[at[k]] = at[k + 1]
  BY <1>1, <1>2, <1>5 DEF CallTypes
<1>8. CallTypes' /\ ObjectsSafe'
  BY <1>1 DEF CallTypes, ObjectsSafe, Retired, Cells
<1>9. QueueAt(at, lo, hi, d)'
  BY <1>1, <1>2, <1>4, <1>6, <1>7 DEF Queue, QueueAt
<1>10. PendingLinks(at, lo, hi)'
  <2>1. ASSUME NEW q \in Producers, ppc'[q] = "link"
        PROVE  /\ node[q] \in Nodes /\ next'[old_tail[q]] = NULL
               /\ \E i \in lo .. hi : i # hi /\ at[i] = old_tail[q] /\ at[i + 1] = node[q]
    <3>1. q # p /\ ppc[q] = "link"
      BY <1>1, <2>1 DEF CallTypes
    <3>2. PICK i \in lo .. hi : i # hi /\ at[i] = old_tail[q] /\ at[i + 1] = node[q]
      BY <3>1 DEF Queue, PendingLinks
    <3>3. node[q] # node[p] /\ node[q] \in Nodes /\ next[old_tail[q]] = NULL
      BY <1>1, <3>1 DEF Queue, PendingLinks
    <3>4. i # k
      BY <1>2, <3>2, <3>3
    <3> QED
      BY <1>6, <3>2, <3>3, <3>4
  <2>2. ASSUME NEW q1 \in Producers, NEW q2 \in Producers,
               ppc'[q1] = "link", ppc'[q2] = "link", q1 # q2
        PROVE  node[q1] # node[q2]
    BY <1>1, <2>2 DEF CallTypes, Queue, PendingLinks
  <2>3. ASSUME cpc = "relink"
        PROVE  /\ next'[removed] = NULL
               /\ \E i \in lo .. hi : i # hi /\ at[i] = removed /\ at[i + 1] = dummy
    <3>1. PICK i \in lo .. hi : i # hi /\ at[i] = removed /\ at[i + 1] = dummy
      BY <2>3 DEF Queue, PendingLinks
    <3>2. i # k
      BY <1>2, <1>3, <3>1
    <3> QED
      BY <1>6, <2>3, <3>1, <3>2 DEF Queue, PendingLinks
  <2> QED
    BY <1>1, <2>1, <2>2, <2>3 DEF PendingLinks
<1>11. Counts(lo, hi)'
  <2>1. Uncounted' = Uncounted
    BY <1>1 DEF Uncounted, CallTypes
  <2> QED
    BY <1>1, <2>1 DEF Queue, Counts, Taken, Running
<1>12. GraceCovers(at, lo, hi, d, b)' /\ Fresh(at, lo, hi)'
  BY <1>1 DEF Queue, GraceCovers, Fresh, Retired, Running
<1>13. Queue(at, lo, hi, d, b)'
  BY <1>9, <1>10, <1>11, <1>12 DEF Queue
<1> QED
  BY <1>8, <1>13 DEF CallInv

(* The producer is no longer among the uncounted. *)
LEMMA CountUpStep ==
    ASSUME CallTypes, ObjectsSafe, NEW at \in Places, NEW lo \in Int, NEW hi \in Int,
           NEW d \in Int, NEW b \in Int, Queue(at, lo, hi, d, b),
           NEW p \in Producers, Call!CountUp(p)
    PROVE  CallInv'
<1> USE CallAssumption
<1>1. /\ ppc[p] = "inc"
      /\ rcu_call_count' = rcu_call_count + 1
      /\ ppc' = [ppc EXCEPT ![p] = "set"]
      /\ UNCHANGED <<inside, syncing, callWaitsFor, next, head, tail, node, old_tail,
                     cpc, n, removed, live, callHeld, runs>>
  BY DEF Call!CountUp, Call!gpVars, Call!queueVars, Call!consVars, Call!objVars
<1>2. CallTypes' /\ ObjectsSafe'
  BY <1>1 DEF CallTypes, ObjectsSafe, Retired, Cells
<1>3. QueueAt(at, lo, hi, d)'
  BY <1>1 DEF Queue, QueueAt
<1>4. PendingLinks(at, lo, hi)'
  <2>1. \A q \in Producers : ppc'[q] = "link" => ppc[q] = "link"
    BY <1>1 DEF CallTypes
  <2> QED
    BY <1>1, <2>1 DEF Queue, PendingLinks
<1>5. Counts(lo, hi)'
  <2>1. Uncounted' = Uncounted \ {p} /\ p \in Uncounted
    BY <1>1 DEF Uncounted, CallTypes
  <2>2. IsFiniteSet(Uncounted)
    BY FS_Subset DEF Uncounted
  <2>3. Cardinality(Uncounted') = Cardinality(Uncounted) - 1 /\ Cardinality(Uncounted) \in Nat
    BY <2>1, <2>2, FS_RemoveElement, FS_CardinalityType
  <2>4. Taken' = Taken /\ Running' = Running /\ Taken \in Nat /\ Running \in Nat
    BY <1>1 DEF Taken, Running, CallTypes
  <2> QED
    BY <1>1, <2>3, <2>4 DEF Queue, Counts, CallTypes
<1>6. GraceCovers(at, lo, hi, d, b)' /\ Fresh(at, lo, hi)'
  BY <1>1 DEF Queue, GraceCovers, Fresh, Retired, Running
<1>7. Queue(at, lo, hi, d, b)'
  BY <1>3, <1>4, <1>5, <1>6 DEF Queue
<1> QED
  BY <1>2, <1>7 DEF CallInv

LEMMA SetReadyStep ==
    ASSUME CallTypes, ObjectsSafe, NEW at \in Places, NEW lo \in Int, NEW hi \in Int,
           NEW d \in Int, NEW b \in Int, Queue(at, lo, hi, d, b),
           NEW p \in Producers, Call!SetReady(p)
    PROVE  CallInv'
<1> USE CallAssumption
<1>1. /\ ppc[p] = "set"
      /\ ppc' = [ppc EXCEPT ![p] = "idle"]
      /\ UNCHANGED <<inside, syncing, callWaitsFor, next, head, tail, rcu_call_count, node,
                     old_tail, cpc, n, removed, live, callHeld, runs>>
  BY DEF Call!SetReady, Call!gpVars, Call!queueVars, Call!consVars, Call!objVars
<1>2. CallTypes' /\ ObjectsSafe'
  BY <1>1 DEF CallTypes, ObjectsSafe, Retired, Cells
<1>3. \A q \in Producers : ppc'[q] = "link" => ppc[q] = "link"
  BY <1>1 DEF CallTypes
<1>4. Uncounted' = Uncounted
  BY <1>1 DEF Uncounted, CallTypes
<1>5. QueueAt(at, lo, hi, d)' /\ PendingLinks(at, lo, hi)'
  BY <1>1, <1>3 DEF Queue, QueueAt, PendingLinks
<1>6. Counts(lo, hi)'
  BY <1>1, <1>4 DEF Queue, Counts, Taken, Running
<1>7. GraceCovers(at, lo, hi, d, b)' /\ Fresh(at, lo, hi)'
  BY <1>1 DEF Queue, GraceCovers, Fresh, Retired, Running
<1>8. Queue(at, lo, hi, d, b)'
  BY <1>5, <1>6, <1>7 DEF Queue
<1> QED
  BY <1>2, <1>8 DEF CallInv

-----------------------------------------------------------------------------
(* Readers.                                                                *)

LEMMA CallReaderStep ==
    ASSUME CallTypes, ObjectsSafe, NEW at \in Places, NEW lo \in Int, NEW hi \in Int,
           NEW d \in Int, NEW b \in Int, Queue(at, lo, hi, d, b),
           NEW r \in QueueReaders,
           Call!ReadLock(r) \/ Call!Dereference(r) \/ Call!ReadUnlock(r)
    PROVE  CallInv'
<1> USE CallAssumption
<1>1. UNCHANGED <<next, head, tail, rcu_call_count, ppc, node, old_tail, cpc, n, removed, live,
                  runs>>
  BY DEF Call!ReadLock, Call!Dereference, Call!ReadUnlock, Call!queueVars, Call!prodVars,
         Call!consVars, Call!objVars
<1>2. /\ inside' \subseteq QueueReaders
      /\ callHeld' \in [QueueReaders -> SUBSET Nodes]
      /\ callWaitsFor' \in [{CallThread} -> SUBSET QueueReaders]
      /\ \A s \in QueueReaders : callHeld'[s] # {} => s \in inside'
      /\ \A s \in QueueReaders : callHeld'[s] \subseteq callHeld[s] \cup live
      /\ \A s \in QueueReaders : s \in callWaitsFor[CallThread] =>
            s \in callWaitsFor'[CallThread] \/ callHeld'[s] = {}
      /\ callWaitsFor'[CallThread] \subseteq callWaitsFor[CallThread]
  <2>1. CASE Call!ReadLock(r)
    BY <2>1 DEF Call!ReadLock, Call!Enter, Call!objVars, CallTypes, ObjectsSafe
  <2>2. CASE Call!Dereference(r)
    BY <2>2 DEF Call!Dereference, Call!gpVars, CallTypes, ObjectsSafe
  <2>3. CASE Call!ReadUnlock(r)
    BY <2>3 DEF Call!ReadUnlock, Call!Leave, CallTypes, ObjectsSafe
  <2> QED
    BY <2>1, <2>2, <2>3
<1>3. ASSUME NEW x \in Nodes, Retired(x) PROVE Retired(x)'
  BY <1>1, <1>2, <1>3 DEF Retired
<1>4. CallTypes'
  BY <1>1, <1>2 DEF CallTypes
<1>5. ObjectsSafe'
  BY <1>1, <1>2, <1>3 DEF ObjectsSafe, CallTypes
<1>6. QueueAt(at, lo, hi, d)' /\ PendingLinks(at, lo, hi)' /\ Fresh(at, lo, hi)'
  BY <1>1 DEF Queue, QueueAt, PendingLinks, Fresh
<1>7. Counts(lo, hi)'
  BY <1>1 DEF Queue, Counts, Taken, Running, Uncounted
<1>8. GraceCovers(at, lo, hi, d, b)'
  <2>1. \A i \in lo .. hi : at[i] # dummy => at[i] \in Nodes
    BY DEF Places, Cells
  <2> QED
    BY <1>1, <1>3, <2>1 DEF Queue, GraceCovers, Running
<1>9. Queue(at, lo, hi, d, b)'
  BY <1>6, <1>7, <1>8 DEF Queue
<1> QED
  BY <1>4, <1>5, <1>9 DEF CallInv

-----------------------------------------------------------------------------
(* The thread, before the grace period.                                    *)

(* Only this thread takes callbacks off the counter, so that what it has   *)
(* read stays a lower bound.                                               *)
LEMMA GatherStep ==
    ASSUME CallTypes, ObjectsSafe, NEW at \in Places, NEW lo \in Int, NEW hi \in Int,
           NEW d \in Int, NEW b \in Int, Queue(at, lo, hi, d, b),
           \/ Call!ReadCount \/ Call!LoopTest \/ Call!Sleep \/ Call!Recheck
           \/ Call!WaitReady \/ Call!Reread \/ (Call!EarlyReturn /\ cpc = "wait")
    PROVE  CallInv'
<1> USE CallAssumption
<1>1. UNCHANGED <<inside, syncing, callWaitsFor, next, head, tail, rcu_call_count, ppc, node,
                  old_tail, removed, live, callHeld, runs>>
  BY DEF Call!ReadCount, Call!LoopTest, Call!Sleep, Call!Recheck, Call!WaitReady, Call!Reread,
         Call!EarlyReturn, Call!gpVars, Call!queueVars, Call!prodVars, Call!objVars
<1>2. /\ cpc \in {"count"} \cup Gathering /\ cpc' \in Gathering
      /\ n' \in Nat /\ n' <= rcu_call_count
      /\ cpc' = "sub" => n' > 0
  <2> USE DEF CallTypes, Queue, Counts, Gathering, Call!CGoto
  <2>1. CASE Call!ReadCount
    BY <2>1 DEF Call!ReadCount
  <2>2. CASE Call!LoopTest
    BY <2>2 DEF Call!LoopTest
  <2>3. CASE Call!Sleep
    BY <2>3 DEF Call!Sleep
  <2>4. CASE Call!Recheck
    BY <2>4 DEF Call!Recheck
  <2>5. CASE Call!WaitReady
    BY <2>5 DEF Call!WaitReady
  <2>6. CASE Call!Reread
    BY <2>6 DEF Call!Reread
  <2>7. CASE Call!EarlyReturn /\ cpc = "wait"
    BY <2>7 DEF Call!EarlyReturn
  <2> QED
    BY <2>1, <2>2, <2>3, <2>4, <2>5, <2>6, <2>7
<1>3. /\ cpc \notin Subtracted /\ cpc' \notin Subtracted
      /\ cpc' \notin {"synced", "relink", "run"} \cup Dequeuing
      /\ cpc # "run"
  BY <1>2 DEF Gathering, Subtracted, Dequeuing
<1>4. CallTypes'
  BY <1>1, <1>2 DEF CallTypes
<1>5. ObjectsSafe'
  BY <1>1, <1>3 DEF ObjectsSafe
<1>6. QueueAt(at, lo, hi, d)' /\ PendingLinks(at, lo, hi)' /\ Fresh(at, lo, hi)'
  BY <1>1, <1>3 DEF Queue, QueueAt, PendingLinks, Fresh
<1>7. Counts(lo, hi)'
  BY <1>1, <1>2, <1>3 DEF Queue, Counts, Taken, Running, Uncounted
<1>8. GraceCovers(at, lo, hi, d, b)'
  BY <1>3 DEF GraceCovers
<1>9. Queue(at, lo, hi, d, b)'
  BY <1>6, <1>7, <1>8 DEF Queue
<1> QED
  BY <1>4, <1>5, <1>9 DEF CallInv

LEMMA SubtractStep ==
    ASSUME CallTypes, ObjectsSafe, NEW at \in Places, NEW lo \in Int, NEW hi \in Int,
           NEW d \in Int, NEW b \in Int, Queue(at, lo, hi, d, b), Call!Subtract
    PROVE  CallInv'
<1> USE CallAssumption
<1>1. /\ cpc = "sub" /\ cpc' = "sync" /\ rcu_call_count' = rcu_call_count - n
      /\ UNCHANGED <<inside, syncing, callWaitsFor, next, head, tail, ppc, node, old_tail,
                     n, removed, live, callHeld, runs>>
  BY DEF Call!Subtract, Call!CountDown, Call!CGoto, Call!gpVars, Call!queueVars,
         Call!prodVars, Call!objVars
<1>2. n \in Nat /\ rcu_call_count \in Nat /\ n <= rcu_call_count /\ n > 0
  BY <1>1 DEF CallTypes, Queue, Counts, Gathering
<1>3. CallTypes'
  BY <1>1, <1>2 DEF CallTypes, Subtracted
<1>4. ObjectsSafe'
  BY <1>1 DEF ObjectsSafe, Dequeuing
<1>5. QueueAt(at, lo, hi, d)' /\ PendingLinks(at, lo, hi)' /\ Fresh(at, lo, hi)'
  BY <1>1 DEF Queue, QueueAt, PendingLinks, Fresh
<1>6. Counts(lo, hi)'
  <2>1. Uncounted' = Uncounted
    BY <1>1 DEF Uncounted
  <2>2. IsFiniteSet(Uncounted)
    BY FS_Subset DEF Uncounted
  <2>3. Cardinality(Uncounted) \in Nat
    BY <2>2, FS_CardinalityType
  <2> QED
    BY <1>1, <1>2, <2>1, <2>3
    DEF Queue, Counts, Taken, Running, Gathering, Subtracted, Dequeuing
<1>7. GraceCovers(at, lo, hi, d, b)'
  BY <1>1 DEF GraceCovers, Dequeuing
<1>8. Queue(at, lo, hi, d, b)'
  BY <1>5, <1>6, <1>7 DEF Queue
<1> QED
  BY <1>3, <1>4, <1>8 DEF CallInv

(* The whole queue is covered by the grace period that begins, and there   *)
(* are as many nodes in it as were taken off the counter.                  *)
LEMMA SyncCallStep ==
    ASSUME CallTypes, ObjectsSafe, NEW at \in Places, NEW lo \in Int, NEW hi \in Int,
           NEW d \in Int, NEW b \in Int, Queue(at, lo, hi, d, b), Call!SyncCall
    PROVE  CallInv'
<1> USE CallAssumption
<1>1. /\ cpc = "sync" /\ cpc' = "synced"
      /\ callWaitsFor' = [callWaitsFor EXCEPT ![CallThread] = inside]
      /\ UNCHANGED <<inside, next, head, tail, rcu_call_count, ppc, node, old_tail,
                     n, removed, live, callHeld, runs>>
  BY DEF Call!SyncCall, Call!SyncBegin, Call!CGoto, Call!queueVars, Call!prodVars, Call!objVars
<1>2. CallTypes'
  BY <1>1 DEF CallTypes, Subtracted
<1>3. ObjectsSafe'
  BY <1>1 DEF ObjectsSafe, Dequeuing
<1>4. QueueAt(at, lo, hi, d)' /\ PendingLinks(at, lo, hi)' /\ Fresh(at, lo, hi)'
  BY <1>1 DEF Queue, QueueAt, PendingLinks, Fresh
<1>5. Counts(lo, hi)'
  BY <1>1 DEF Queue, Counts, Taken, Running, Uncounted, Gathering, Subtracted
<1>6. GraceCovers(at, lo, hi, d, hi)'
  <2>1. ASSUME NEW i \in lo .. hi, at[i] # dummy PROVE Retired(at[i])'
    <3>1. at[i] \in Nodes /\ at[i] \notin live
      BY <2>1 DEF Queue, Fresh, Places, Cells
    <3> QED
      BY <1>1, <3>1 DEF Retired, ObjectsSafe, CallTypes
  <2>2. n <= hi - lo
    <3>1. IsFiniteSet(Uncounted)
      BY FS_Subset DEF Uncounted
    <3>2. Cardinality(Uncounted) \in Nat
      BY <3>1, FS_CardinalityType
    <3> QED
      BY <1>1, <3>2 DEF CallTypes, Queue, Counts, Taken, Running, Subtracted
  <2> QED
    BY <1>1, <2>1, <2>2 DEF GraceCovers, Running, Queue, QueueAt, CallTypes
<1>7. Queue(at, lo, hi, d, hi)'
  BY <1>4, <1>5, <1>6 DEF Queue
<1> QED
  BY <1>2, <1>3, <1>7 DEF CallInv

LEMMA SyncReturnCallStep ==
    ASSUME CallTypes, ObjectsSafe, NEW at \in Places, NEW lo \in Int, NEW hi \in Int,
           NEW d \in Int, NEW b \in Int, Queue(at, lo, hi, d, b), Call!SyncReturn
    PROVE  CallInv'
<1> USE CallAssumption
<1>1. /\ cpc = "synced" /\ cpc' = "empty" /\ callWaitsFor[CallThread] = {}
      /\ UNCHANGED <<inside, callWaitsFor, next, head, tail, rcu_call_count, ppc, node, old_tail,
                     n, removed, live, callHeld, runs>>
  BY DEF Call!SyncReturn, Call!SyncEnd, Call!CGoto, Call!queueVars, Call!prodVars, Call!objVars
<1>2. CallTypes'
  BY <1>1 DEF CallTypes, Subtracted, Dequeuing
<1>3. ObjectsSafe'
  BY <1>1 DEF ObjectsSafe, Dequeuing
<1>4. QueueAt(at, lo, hi, d)' /\ PendingLinks(at, lo, hi)' /\ Fresh(at, lo, hi)'
  BY <1>1 DEF Queue, QueueAt, PendingLinks, Fresh
<1>5. Counts(lo, hi)'
  BY <1>1 DEF Queue, Counts, Taken, Running, Uncounted, Gathering, Subtracted, Dequeuing
<1>6. GraceCovers(at, lo, hi, d, b)'
  BY <1>1 DEF Queue, GraceCovers, Running, Retired
<1>7. Queue(at, lo, hi, d, b)'
  BY <1>4, <1>5, <1>6 DEF Queue
<1> QED
  BY <1>2, <1>3, <1>7 DEF CallInv

-----------------------------------------------------------------------------
(* try_dequeue.                                                            *)

(* The queue holds a node that the grace period covers as long as one is   *)
(* to be dequeued.                                                         *)
LEMMA NodeLeft ==
    ASSUME CallTypes, NEW at \in Places, NEW lo \in Int, NEW hi \in Int,
           NEW d \in Int, NEW b \in Int, Queue(at, lo, hi, d, b),
           cpc \in Dequeuing, cpc # "run"
    PROVE  lo <= b /\ (d = lo => lo < b)
<1>1. n > 0 /\ n \in Nat
  BY DEF CallTypes, Queue, Counts, Subtracted
<1>2. n <= b - lo + 1 - (IF d <= b THEN 1 ELSE 0)
  BY DEF Queue, GraceCovers, Running
<1>3. lo <= d
  BY DEF Queue, QueueAt
<1> QED
  BY <1>1, <1>2, <1>3

(* abort() is not reached: the queue is never found empty. *)
LEMMA QueueNotEmpty ==
    ASSUME CallTypes, NEW at \in Places, NEW lo \in Int, NEW hi \in Int,
           NEW d \in Int, NEW b \in Int, Queue(at, lo, hi, d, b),
           cpc \in Dequeuing, cpc # "run"
    PROVE  ~ (head = dummy /\ tail = dummy)
<1> SUFFICES ASSUME head = dummy, tail = dummy PROVE FALSE
  OBVIOUS
<1>1. lo \in lo .. hi /\ hi \in lo .. hi /\ d \in lo .. hi
  BY DEF Queue, QueueAt
<1>2. d = lo /\ d = hi
  BY <1>1 DEF Queue, QueueAt
<1>3. b <= hi
  BY DEF Queue, GraceCovers
<1> QED
  BY <1>2, <1>3, NodeLeft

LEMMA LookStep ==
    ASSUME CallTypes, ObjectsSafe, NEW at \in Places, NEW lo \in Int, NEW hi \in Int,
           NEW d \in Int, NEW b \in Int, Queue(at, lo, hi, d, b),
           \/ Call!TestEmpty \/ Call!DequeueNull \/ Call!ResetAndRetry \/ Call!WaitCall
           \/ Call!WaitAndRetry \/ (Call!EarlyReturn /\ cpc # "wait")
    PROVE  CallInv'
<1> USE CallAssumption
<1> DEFINE Looks == {"empty", "next", "reset", "event"}
<1>1. UNCHANGED <<inside, syncing, callWaitsFor, next, head, tail, rcu_call_count, ppc, node,
                  old_tail, n, removed, live, callHeld, runs>>
  BY DEF Call!TestEmpty, Call!DequeueNull, Call!ResetAndRetry, Call!WaitCall,
         Call!WaitAndRetry, Call!EarlyReturn, Call!gpVars, Call!queueVars, Call!prodVars,
         Call!consVars, Call!objVars
<1>2. cpc \in Looks /\ cpc' \in Looks
  <2> USE DEF Call!CGoto
  <2>1. CASE Call!TestEmpty
    <3>1. cpc = "empty"
      BY <2>1 DEF Call!TestEmpty
    <3>2. ~ (head = dummy /\ tail = dummy)
      BY <3>1, QueueNotEmpty DEF Dequeuing
    <3> QED
      BY <2>1, <3>2 DEF Call!TestEmpty
  <2>2. CASE Call!DequeueNull
    BY <2>2 DEF Call!DequeueNull
  <2>3. CASE Call!ResetAndRetry
    BY <2>3 DEF Call!ResetAndRetry
  <2>4. CASE Call!WaitCall
    BY <2>4 DEF Call!WaitCall, Call!consVars
  <2>5. CASE Call!WaitAndRetry
    BY <2>5 DEF Call!WaitAndRetry
  <2>6. CASE Call!EarlyReturn /\ cpc # "wait"
    BY <2>6 DEF Call!EarlyReturn
  <2> QED
    BY <2>1, <2>2, <2>3, <2>4, <2>5, <2>6
<1>3. /\ cpc \in Dequeuing /\ cpc' \in Dequeuing /\ cpc' \in Subtracted /\ cpc \in Subtracted
      /\ cpc \notin {"run", "relink"} /\ cpc' \notin Gathering \cup {"run", "relink"}
  BY <1>2 DEF Dequeuing, Subtracted, Gathering
<1>4. CallTypes'
  BY <1>1, <1>3 DEF CallTypes
<1>5. ObjectsSafe'
  BY <1>1, <1>3 DEF ObjectsSafe
<1>6. QueueAt(at, lo, hi, d)' /\ PendingLinks(at, lo, hi)' /\ Fresh(at, lo, hi)'
  BY <1>1, <1>3 DEF Queue, QueueAt, PendingLinks, Fresh
<1>7. Counts(lo, hi)'
  BY <1>1, <1>3 DEF Queue, Counts, Taken, Running, Uncounted
<1>8. GraceCovers(at, lo, hi, d, b)'
  BY <1>1, <1>3 DEF Queue, GraceCovers, Running, Retired
<1>9. Queue(at, lo, hi, d, b)'
  BY <1>6, <1>7, <1>8 DEF Queue
<1> QED
  BY <1>4, <1>5, <1>9 DEF CallInv

(* The dummy moves from the head to the end; the nodes that the grace      *)
(* period covers stay where they are.                                      *)
LEMMA DequeueDummyStep ==
    ASSUME CallTypes, ObjectsSafe, NEW at \in Places, NEW lo \in Int, NEW hi \in Int,
           NEW d \in Int, NEW b \in Int, Queue(at, lo, hi, d, b), Call!DequeueDummy
    PROVE  CallInv'
<1> USE CallAssumption
<1>1. /\ cpc = "next" /\ cpc' = "relink" /\ next[head] # NULL /\ head = dummy
      /\ head' = next[head] /\ tail' = dummy /\ removed' = tail
      /\ next' = [next EXCEPT ![dummy] = NULL]
      /\ UNCHANGED <<inside, syncing, callWaitsFor, rcu_call_count, ppc, node, old_tail, n,
                     live, callHeld, runs>>
  BY DEF Call!DequeueDummy, Call!SwingTail, Call!CGoto, Call!gpVars, Call!prodVars, Call!objVars
<1>2. lo \in lo .. hi /\ hi \in lo .. hi /\ d \in lo .. hi
  BY DEF Queue, QueueAt
<1>3. d = lo /\ lo # hi /\ next[head] = at[lo + 1]
  BY <1>1, <1>2 DEF Queue, QueueAt
<1>4. lo < hi /\ lo + 1 \in lo .. hi
  BY <1>2, <1>3
<1> DEFINE at2 == [at EXCEPT ![hi + 1] = dummy]
<1>5. at2 \in Places /\ at2[hi + 1] = dummy /\ \A i \in lo .. hi : at2[i] = at[i]
  BY DEF Places, Cells
<1>6. \A i \in lo + 1 .. hi : i \in lo .. hi /\ at[i] # dummy /\ at[i] \in Cells
  BY <1>2, <1>3 DEF Queue, QueueAt, Places
<1>7. \A i \in lo + 1 .. hi + 1 : i = hi + 1 \/ i \in lo + 1 .. hi
  OBVIOUS
<1>8. \A x \in Cells : x # dummy => next'[x] = next[x]
  BY <1>1 DEF CallTypes
<1>9. next'[dummy] = NULL
  BY <1>1 DEF CallTypes, Cells
<1> HIDE DEF at2
<1>10. CallTypes'
  <2>1. tail \in Cells
    BY <1>2 DEF Queue, QueueAt, Places
  <2> QED
    BY <1>1, <2>1 DEF CallTypes, Cells, Subtracted, Dequeuing
<1>11. ObjectsSafe'
  BY <1>1 DEF ObjectsSafe, Dequeuing
<1>12. QueueAt(at2, lo + 1, hi + 1, hi + 1)'
  <2>1. \A i, j \in lo + 1 .. hi + 1 : at2[i] = at2[j] => i = j
    <3> SUFFICES ASSUME NEW i \in lo + 1 .. hi + 1, NEW j \in lo + 1 .. hi + 1, at2[i] = at2[j]
                 PROVE  i = j
      OBVIOUS
    <3>1. CASE i = hi + 1 \/ j = hi + 1
      BY <3>1, <1>5, <1>6, <1>7
    <3>2. CASE i \in lo + 1 .. hi /\ j \in lo + 1 .. hi
      <4>1. at[i] = at[j] /\ i \in lo .. hi /\ j \in lo .. hi
        BY <3>2, <1>5, <1>6
      <4> QED
        BY <4>1 DEF Queue, QueueAt
    <3> QED
      BY <3>1, <3>2, <1>7
  <2>2. \A i \in lo + 1 .. hi + 1 : i # hi + 1 => next'[at2[i]] \in {NULL, at2[i + 1]}
    <3> SUFFICES ASSUME NEW i \in lo + 1 .. hi PROVE next'[at2[i]] \in {NULL, at2[i + 1]}
      BY <1>7
    <3>1. i \in lo .. hi /\ at2[i] = at[i] /\ next'[at[i]] = next[at[i]]
      BY <1>5, <1>6, <1>8
    <3>2. CASE i = hi
      BY <3>1, <3>2 DEF Queue, QueueAt
    <3>3. CASE i # hi
      <4>1. i + 1 \in lo .. hi
        BY <3>1, <3>3
      <4> QED
        BY <3>1, <3>3, <4>1, <1>5 DEF Queue, QueueAt
    <3> QED
      BY <3>2, <3>3
  <2>3. head' = at2[lo + 1] /\ tail' = at2[hi + 1] /\ next'[at2[hi + 1]] = NULL
    BY <1>1, <1>3, <1>4, <1>5, <1>9
  <2> QED
    BY <1>4, <1>5, <2>1, <2>2, <2>3 DEF QueueAt
<1>13. PendingLinks(at2, lo + 1, hi + 1)'
  <2>1. ASSUME NEW q \in Producers, ppc[q] = "link"
        PROVE  /\ node[q] \in Nodes /\ next'[old_tail[q]] = NULL
               /\ \E i \in lo + 1 .. hi + 1 :
                     i # hi + 1 /\ at2[i] = old_tail[q] /\ at2[i + 1] = node[q]
    <3>1. PICK i \in lo .. hi : i # hi /\ at[i] = old_tail[q] /\ at[i + 1] = node[q]
      BY <2>1 DEF Queue, PendingLinks
    <3>2. node[q] \in Nodes /\ next[old_tail[q]] = NULL /\ old_tail[q] \in Cells
      BY <2>1 DEF Queue, PendingLinks, CallTypes
    <3>3. old_tail[q] # dummy
      BY <1>1, <3>2
    <3>4. i # lo
      BY <3>1, <3>3, <1>1 DEF Queue, QueueAt
    <3>5. i \in lo + 1 .. hi + 1 /\ i # hi + 1 /\ i + 1 \in lo .. hi
      BY <3>1, <3>4
    <3>6. at2[i] = old_tail[q] /\ at2[i + 1] = node[q]
      BY <3>1, <3>5, <1>5
    <3> QED
      BY <3>2, <3>3, <3>5, <3>6, <1>8
  <2>2. \A p, q \in Producers :
           ppc[p] = "link" /\ ppc[q] = "link" /\ p # q => node[p] # node[q]
    BY DEF Queue, PendingLinks
  <2>3. /\ next'[tail] = NULL
        /\ \E i \in lo + 1 .. hi + 1 : i # hi + 1 /\ at2[i] = tail /\ at2[i + 1] = dummy
    <3>1. tail = at[hi] /\ at2[hi] = at[hi] /\ at2[hi + 1] = dummy
      BY <1>2, <1>5 DEF Queue, QueueAt
    <3>2. hi \in lo + 1 .. hi /\ hi \in lo + 1 .. hi + 1 /\ hi # hi + 1
      BY <1>4
    <3>3. next'[at[hi]] = NULL
      BY <3>2, <1>6, <1>8 DEF Queue, QueueAt
    <3> QED
      BY <3>1, <3>2, <3>3
  <2> QED
    BY <1>1, <2>1, <2>2, <2>3 DEF PendingLinks
<1>14. Counts(lo + 1, hi + 1)'
  <2>1. Uncounted' = Uncounted
    BY <1>1 DEF Uncounted
  <2>2. (hi + 1) - (lo + 1) = hi - lo
    OBVIOUS
  <2> QED
    BY <1>1, <2>1, <2>2 DEF Queue, Counts, Taken, Running, Gathering, Subtracted, Dequeuing
<1>15. GraceCovers(at2, lo + 1, hi + 1, hi + 1, b)'
  <2>1. b <= hi /\ n <= b - lo + 1 - (IF d <= b THEN 1 ELSE 0)
    BY <1>1 DEF Queue, GraceCovers, Running, Dequeuing
  <2>2. lo < b
    BY <1>1, <1>3, NodeLeft DEF Dequeuing
  <2>3. ASSUME NEW i \in lo + 1 .. hi + 1, i <= b PROVE Retired(at2[i])'
    <3>1. i \in lo + 1 .. hi
      BY <2>1, <2>3
    <3>2. i \in lo .. hi /\ at[i] # dummy /\ at2[i] = at[i]
      BY <3>1, <1>5, <1>6
    <3>3. Retired(at[i])
      BY <3>2, <2>3, <1>1 DEF Queue, GraceCovers, Dequeuing
    <3> QED
      BY <3>2, <3>3, <1>1 DEF Retired
  <2>4. n <= b - (lo + 1) + 1 + 0 - 0
    BY <2>1, <2>2, <1>3 DEF CallTypes
  <2> QED
    BY <1>1, <2>1, <2>3, <2>4 DEF GraceCovers, Running
<1>16. Fresh(at2, lo + 1, hi + 1)'
  <2>1. ASSUME NEW i \in lo + 1 .. hi + 1, at2[i] \in Nodes
        PROVE  at2[i] \notin live /\ runs[at2[i]] = 0
    <3>1. i \in lo .. hi /\ at2[i] = at[i]
      BY <2>1, <1>5, <1>6, <1>7
    <3> QED
      BY <2>1, <3>1 DEF Queue, Fresh
  <2> QED
    BY <1>1, <2>1 DEF Fresh
<1>17. Queue(at2, lo + 1, hi + 1, hi + 1, b)'
  BY <1>12, <1>13, <1>14, <1>15, <1>16 DEF Queue
<1>18. lo + 1 \in Int /\ hi + 1 \in Int
  OBVIOUS
<1> QED
  BY <1>5, <1>10, <1>11, <1>17, <1>18 DEF CallInv

LEMMA RelinkDummyStep ==
    ASSUME CallTypes, ObjectsSafe, NEW at \in Places, NEW lo \in Int, NEW hi \in Int,
           NEW d \in Int, NEW b \in Int, Queue(at, lo, hi, d, b), Call!RelinkDummy
    PROVE  CallInv'
<1> USE CallAssumption
<1>1. /\ cpc = "relink" /\ cpc' = "empty"
      /\ next' = [next EXCEPT ![removed] = dummy]
      /\ UNCHANGED <<inside, syncing, callWaitsFor, head, tail, rcu_call_count, ppc, node,
                     old_tail, n, removed, live, callHeld, runs>>
  BY DEF Call!RelinkDummy, Call!CGoto, Call!gpVars, Call!prodVars, Call!objVars
<1>2. PICK k \in lo .. hi : k # hi /\ at[k] = removed /\ at[k + 1] = dummy
  BY <1>1 DEF Queue, PendingLinks
<1>3. hi \in lo .. hi
  BY <1>2
<1>4. \A i \in lo .. hi : at[i] \in Cells
  BY DEF Places
<1>5. \A i \in lo .. hi : i # k => next'[at[i]] = next[at[i]]
  BY <1>1, <1>2, <1>4 DEF CallTypes, Queue, QueueAt
<1>6. next'[at[k]] = at[k + 1]
  BY <1>1, <1>2, <1>4 DEF CallTypes
<1>7. CallTypes'
  BY <1>1 DEF CallTypes, Cells, Subtracted, Dequeuing
<1>8. ObjectsSafe'
  BY <1>1 DEF ObjectsSafe, Retired, Dequeuing
<1>9. QueueAt(at, lo, hi, d)'
  BY <1>1, <1>2, <1>3, <1>5, <1>6 DEF Queue, QueueAt
<1>10. PendingLinks(at, lo, hi)'
  <2>1. ASSUME NEW q \in Producers, ppc[q] = "link"
        PROVE  /\ node[q] \in Nodes /\ next'[old_tail[q]] = NULL
               /\ \E i \in lo .. hi : i # hi /\ at[i] = old_tail[q] /\ at[i + 1] = node[q]
    <3>1. PICK i \in lo .. hi : i # hi /\ at[i] = old_tail[q] /\ at[i + 1] = node[q]
      BY <2>1 DEF Queue, PendingLinks
    <3>2. node[q] \in Nodes /\ next[old_tail[q]] = NULL
      BY <2>1 DEF Queue, PendingLinks
    <3>3. i # k
      BY <1>2, <3>1, <3>2
    <3> QED
      BY <1>5, <3>1, <3>2, <3>3
  <2> QED
    BY <1>1, <2>1 DEF Queue, PendingLinks
<1>11. Counts(lo, hi)'
  BY <1>1 DEF Queue, Counts, Taken, Running, Uncounted, Gathering, Subtracted, Dequeuing
<1>12. GraceCovers(at, lo, hi, d, b)' /\ Fresh(at, lo, hi)'
  BY <1>1 DEF Queue, GraceCovers, Fresh, Retired, Running, Dequeuing
<1>13. Queue(at, lo, hi, d, b)'
  BY <1>9, <1>10, <1>11, <1>12 DEF Queue
<1> QED
  BY <1>7, <1>8, <1>13 DEF CallInv

(* The node at the head is one that the grace period covers, whatever was  *)
(* enqueued meanwhile.                                                     *)
LEMMA DequeueNodeStep ==
    ASSUME CallTypes, ObjectsSafe, NEW at \in Places, NEW lo \in Int, NEW hi \in Int,
           NEW d \in Int, NEW b \in Int, Queue(at, lo, hi, d, b), Call!DequeueNode
    PROVE  CallInv'
<1> USE CallAssumption
<1>1. /\ cpc = "next" /\ cpc' = "run" /\ next[head] # NULL /\ head # dummy
      /\ head' = next[head] /\ removed' = head
      /\ UNCHANGED <<inside, syncing, callWaitsFor, next, tail, rcu_call_count, ppc, node,
                     old_tail, n, live, callHeld, runs>>
  BY DEF Call!DequeueNode, Call!CGoto, Call!gpVars, Call!prodVars, Call!objVars
<1>2. lo \in lo .. hi /\ hi \in lo .. hi /\ d \in lo .. hi
  BY DEF Queue, QueueAt
<1>3. head = at[lo] /\ d # lo /\ lo # hi /\ next[head] = at[lo + 1]
  BY <1>1, <1>2 DEF Queue, QueueAt
<1>4. head \in Nodes
  BY <1>1, <1>3 DEF Places, Cells
<1>5. \A i \in lo + 1 .. hi : i \in lo .. hi /\ at[i] # head
  BY <1>2, <1>3 DEF Queue, QueueAt
<1>6. lo <= b
  BY <1>1, NodeLeft DEF Dequeuing
<1>7. Retired(head) /\ runs[head] = 0
  <2>1. Retired(at[lo])
    BY <1>1, <1>2, <1>3, <1>6 DEF Queue, GraceCovers, Dequeuing
  <2>2. runs[at[lo]] = 0
    BY <1>2, <1>3, <1>4 DEF Queue, Fresh
  <2> QED
    BY <2>1, <2>2, <1>3
<1>8. CallTypes'
  BY <1>1, <1>4 DEF CallTypes, Cells, Subtracted, Dequeuing
<1>9. ObjectsSafe'
  BY <1>1, <1>4, <1>7 DEF ObjectsSafe, Dequeuing, Retired
<1>10. QueueAt(at, lo + 1, hi, d)'
  <2>1. lo + 1 <= d /\ d <= hi
    BY <1>2, <1>3
  <2> QED
    BY <1>1, <1>3, <1>5, <2>1 DEF Queue, QueueAt
<1>11. PendingLinks(at, lo + 1, hi)'
  <2>1. ASSUME NEW q \in Producers, ppc[q] = "link"
        PROVE  /\ node[q] \in Nodes /\ next[old_tail[q]] = NULL
               /\ \E i \in lo + 1 .. hi : i # hi /\ at[i] = old_tail[q] /\ at[i + 1] = node[q]
    <3>1. PICK i \in lo .. hi : i # hi /\ at[i] = old_tail[q] /\ at[i + 1] = node[q]
      BY <2>1 DEF Queue, PendingLinks
    <3>2. node[q] \in Nodes /\ next[old_tail[q]] = NULL
      BY <2>1 DEF Queue, PendingLinks
    <3>3. i # lo
      BY <1>1, <1>3, <3>1, <3>2
    <3>4. i \in lo + 1 .. hi
      BY <3>3
    <3> QED
      BY <3>1, <3>2, <3>4
  <2> QED
    BY <1>1, <2>1 DEF Queue, PendingLinks
<1>12. Counts(lo + 1, hi)'
  <2>1. Uncounted' = Uncounted
    BY <1>1 DEF Uncounted
  <2>2. hi - (lo + 1) + 1 = hi - lo + 0
    OBVIOUS
  <2> QED
    BY <1>1, <2>1, <2>2 DEF Queue, Counts, Taken, Running, Gathering, Subtracted, Dequeuing
<1>13. GraceCovers(at, lo + 1, hi, d, b)'
  <2>1. b <= hi /\ n <= b - lo + 1 - (IF d <= b THEN 1 ELSE 0)
    BY <1>1 DEF Queue, GraceCovers, Running, Dequeuing
  <2>2. ASSUME NEW i \in lo + 1 .. hi, i <= b, at[i] # dummy PROVE Retired(at[i])'
    <3>1. Retired(at[i])
      BY <1>1, <1>5, <2>2 DEF Queue, GraceCovers, Dequeuing
    <3> QED
      BY <1>1, <3>1 DEF Retired
  <2>3. n <= b - (lo + 1) + 1 + 1 - (IF d <= b THEN 1 ELSE 0)
    BY <2>1 DEF CallTypes
  <2> QED
    BY <1>1, <2>1, <2>2, <2>3 DEF GraceCovers, Running
<1>14. Fresh(at, lo + 1, hi)'
  BY <1>1, <1>5 DEF Queue, Fresh
<1>15. Queue(at, lo + 1, hi, d, b)'
  BY <1>10, <1>11, <1>12, <1>13, <1>14 DEF Queue
<1>16. lo + 1 \in Int
  OBVIOUS
<1> QED
  BY <1>8, <1>9, <1>15, <1>16 DEF CallInv

(* The callback runs on an object that no reader holds any more. *)
LEMMA RunCallbackStep ==
    ASSUME CallTypes, ObjectsSafe, NEW at \in Places, NEW lo \in Int, NEW hi \in Int,
           NEW d \in Int, NEW b \in Int, Queue(at, lo, hi, d, b), Call!RunCallback
    PROVE  CallInv'
<1> USE CallAssumption
<1>1. /\ cpc = "run" /\ n' = n - 1 /\ cpc' = (IF n > 1 THEN "empty" ELSE "count")
      /\ runs' = [runs EXCEPT ![removed] = @ + 1]
      /\ UNCHANGED <<inside, syncing, callWaitsFor, next, head, tail, rcu_call_count, ppc, node,
                     old_tail, removed, live, callHeld>>
  BY DEF Call!RunCallback, Call!CGoto, Call!gpVars, Call!queueVars, Call!prodVars
<1>2. n \in Nat /\ n > 0
  BY <1>1 DEF CallTypes, Queue, Counts, Subtracted, Dequeuing
<1>3. removed \in Nodes /\ runs[removed] = 0 /\ removed \notin live
  BY <1>1 DEF ObjectsSafe, Retired
<1>4. \A r \in QueueReaders : removed \notin callHeld[r]
  BY <1>1 DEF ObjectsSafe, Retired, Dequeuing
<1>5. \A x \in Nodes : runs'[x] = IF x = removed THEN 1 ELSE runs[x]
  BY <1>1, <1>3 DEF CallTypes
<1>6. CallTypes'
  BY <1>1, <1>2, <1>3 DEF CallTypes, Cells, Subtracted, Dequeuing
<1>7. ObjectsSafe'
  BY <1>1, <1>3, <1>4, <1>5 DEF ObjectsSafe, CallTypes, Dequeuing
<1>8. QueueAt(at, lo, hi, d)' /\ PendingLinks(at, lo, hi)'
  BY <1>1 DEF Queue, QueueAt, PendingLinks
<1>9. Counts(lo, hi)'
  <2>1. Uncounted' = Uncounted
    BY <1>1 DEF Uncounted
  <2>2. IsFiniteSet(Uncounted)
    BY FS_Subset DEF Uncounted
  <2>3. Cardinality(Uncounted) \in Nat
    BY <2>2, FS_CardinalityType
  <2>4. rcu_call_count \in Nat /\ rcu_call_count + n + Cardinality(Uncounted) = hi - lo + 1
    BY <1>1 DEF CallTypes, Queue, Counts, Taken, Running, Subtracted, Dequeuing
  <2> QED
    BY <1>1, <1>2, <2>1, <2>3, <2>4
    DEF Counts, Taken, Running, Gathering, Subtracted, Dequeuing
<1>10. GraceCovers(at, lo, hi, d, b)'
  <2>1. b <= hi /\ n <= b - lo + 1 + 1 - (IF d <= b THEN 1 ELSE 0)
    BY <1>1 DEF Queue, GraceCovers, Running, Dequeuing
  <2>2. \A i \in lo .. hi : i <= b /\ at[i] # dummy => Retired(at[i])'
    BY <1>1 DEF Queue, GraceCovers, Dequeuing, Retired
  <2>3. n - 1 <= b - lo + 1 + 0 - (IF d <= b THEN 1 ELSE 0)
    BY <1>2, <2>1
  <2> QED
    BY <1>1, <2>1, <2>2, <2>3 DEF GraceCovers, Running
<1>11. Fresh(at, lo, hi)'
  BY <1>1, <1>5 DEF Queue, Fresh
<1>12. Queue(at, lo, hi, d, b)'
  BY <1>8, <1>9, <1>10, <1>11 DEF Queue
<1> QED
  BY <1>6, <1>7, <1>12 DEF CallInv

LEMMA CallStutter == CallInv /\ UNCHANGED callVars => CallInv'
<1> SUFFICES ASSUME CallInv, UNCHANGED callVars PROVE CallInv'
  OBVIOUS
<1> USE DEF callVars
<1>1. CallTypes' /\ ObjectsSafe'
  BY DEF CallInv, CallTypes, ObjectsSafe, Retired
<1>2. Uncounted' = Uncounted
  BY DEF Uncounted
<1>3. ASSUME NEW at, NEW lo, NEW hi, NEW d, NEW b, Queue(at, lo, hi, d, b)
      PROVE  Queue(at, lo, hi, d, b)'
  BY <1>2, <1>3 DEF Queue, QueueAt, PendingLinks, Counts, Taken, Running, GraceCovers, Retired,
                    Fresh
<1> QED
  BY <1>1, <1>3 DEF CallInv

LEMMA CallNext == CallInv /\ [Call!Next]_(Call!vars) => CallInv'
<1> SUFFICES ASSUME CallInv, [Call!Next]_(Call!vars) PROVE CallInv'
  OBVIOUS
<1>1. CASE UNCHANGED Call!vars
  BY <1>1, CallStutter
  DEF Call!vars, Call!gpVars, Call!queueVars, Call!eventVars, Call!prodVars, Call!consVars,
      Call!objVars, callVars
<1>2. CASE Call!Next
  <2>1. CallTypes /\ ObjectsSafe
    BY DEF CallInv
  <2>2. PICK at \in Places, lo \in Int, hi \in Int, d \in Int, b \in Int :
            Queue(at, lo, hi, d, b)
    BY DEF CallInv
  <2>3. ASSUME NEW r \in QueueReaders,
               Call!ReadLock(r) \/ Call!Dereference(r) \/ Call!ReadUnlock(r)
        PROVE  CallInv'
    BY <2>1, <2>2, <2>3, CallReaderStep
  <2>4. ASSUME NEW p \in Producers, Call!CallRcu(p) \/ Call!Producer(p) PROVE CallInv'
    BY <2>1, <2>2, <2>4, CallRcuStep, EnqueueLinkStep, CountUpStep, SetReadyStep
    DEF Call!Producer
  <2>5. CASE \/ Call!ReadCount \/ Call!LoopTest \/ Call!Sleep \/ Call!Recheck
             \/ Call!WaitReady \/ Call!Reread \/ (Call!EarlyReturn /\ cpc = "wait")
    BY <2>1, <2>2, <2>5, GatherStep
  <2>6. CASE \/ Call!TestEmpty \/ Call!DequeueNull \/ Call!ResetAndRetry \/ Call!WaitCall
             \/ Call!WaitAndRetry \/ (Call!EarlyReturn /\ cpc # "wait")
    BY <2>1, <2>2, <2>6, LookStep
  <2>7. CASE Call!Subtract \/ Call!SyncCall \/ Call!SyncReturn
    BY <2>1, <2>2, <2>7, SubtractStep, SyncCallStep, SyncReturnCallStep
  <2>8. CASE \/ Call!DequeueDummy \/ Call!RelinkDummy \/ Call!DequeueNode
             \/ Call!RunCallback
    BY <2>1, <2>2, <2>8, DequeueDummyStep, RelinkDummyStep, DequeueNodeStep, RunCallbackStep
  <2>9. CASE \E r \in QueueReaders :
                Call!ReadLock(r) \/ Call!Dereference(r) \/ Call!ReadUnlock(r)
    BY <2>3, <2>9
  <2>10. CASE \E p \in Producers : Call!CallRcu(p) \/ Call!Producer(p)
    BY <2>4, <2>10
  <2>11. CASE Call!EarlyReturn
    BY <2>5, <2>6, <2>11
  <2>12. CASE Call!call_rcu_thread
    BY <2>5, <2>6, <2>7, <2>8, <2>12 DEF Call!call_rcu_thread
  <2> QED
    BY <1>2, <2>9, <2>10, <2>11, <2>12 DEF Call!Next
<1> QED
  BY <1>1, <1>2

LEMMA CallInvAlways == Call!Spec => []CallInv
BY CallInit, CallNext, PTL DEF Call!Spec

(* No callback of call_rcu1 frees an object that a reader holds, although  *)
(* the nodes that call_rcu_thread dequeues after synchronize_rcu need not  *)
(* be those whose callbacks it took off rcu_call_count before.             *)
THEOREM CallbacksWait == MCSpec => []NoEarlyCallback
<1>1. MCInit => CallInv
  BY CallInit DEF MCInit
<1>2. CallInv /\ [MCNext]_<<layer, evVars, vars, callVars>> => CallInv'
  BY CallNext, CallStutter DEF MCNext
<1>3. CallInv => NoEarlyCallback
  BY DEF CallInv, ObjectsSafe, CallTypes, NoEarlyCallback, Call!NoUseAfterFree
<1> QED
  BY <1>1, <1>2, <1>3, PTL DEF MCSpec

(* "Test for an empty list, which we do not expect" (try_dequeue), before  *)
(* its abort(): whenever the thread looks, the queue holds a node.         *)
THEOREM AbortNotReached == Call!Spec => [](cpc # "abort")
<1>1. CallInv => cpc # "abort"
  BY DEF CallInv, CallTypes, Gathering, Subtracted, Dequeuing
<1> QED
  BY <1>1, CallInvAlways, PTL

(* The callback of a node runs at most once (what CallbackRuns says beyond *)
(* its liveness): a node leaves the queue for good.                        *)
THEOREM CalledOnce == Call!Spec => [](\A x \in Nodes : runs[x] <= 1)
<1>1. CallInv => \A x \in Nodes : runs[x] <= 1
  BY DEF CallInv, CallTypes
<1> QED
  BY <1>1, CallInvAlways, PTL
==============================================================================
