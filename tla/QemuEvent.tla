------------------------------ MODULE QemuEvent ------------------------------
(***************************************************************************)
(* QemuEvent of util/qemu-thread-posix.c on Linux: an event made of one    *)
(* word and a futex, set, reset and waited for by any number of threads.   *)
(* Every atomic access of the word is a step.                              *)
(*                                                                         *)
(* pc[t] names the next step of thread t:                                  *)
(*   idle                       outside                                    *)
(*   set, set_xchg, set_wake    qemu_event_set                             *)
(*   reset, reset_or            qemu_event_reset                           *)
(*   wait, wait_cas, futex      qemu_event_wait; futex_wait's system call  *)
(*   asleep                     in the kernel's queue, or taken off it     *)
(***************************************************************************)
EXTENDS Naturals

CONSTANTS
    Threads,
    MaxCalls    \* bound: calls a thread makes

VARIABLES value, pc, calls,
    queue       \* threads the kernel holds in FUTEX_WAIT

vars == <<value, pc, calls, queue>>

EV_SET == 0
EV_FREE == 1
EV_BUSY == 2    \* -1 in the code

(* Or-ing EV_FREE into the word changes EV_SET only. *)
OrFree(v) == IF v = EV_SET THEN EV_FREE ELSE v

SetLabels   == {"set", "set_xchg", "set_wake"}
ResetLabels == {"reset", "reset_or"}
WaitLabels  == {"wait", "wait_cas", "futex", "asleep"}

(* The word, the program counters and the kernel's queue. *)
TypeOK ==
    /\ value \in {EV_SET, EV_FREE, EV_BUSY}
    /\ pc \in [Threads -> {"idle"} \cup SetLabels \cup ResetLabels \cup WaitLabels]
    /\ calls \in [Threads -> 0 .. MaxCalls]
    /\ queue \in SUBSET {t \in Threads : pc[t] = "asleep"}

(* qemu_event_init, with either value of init. *)
Init ==
    /\ value \in {EV_SET, EV_FREE}
    /\ pc = [t \in Threads |-> "idle"]
    /\ calls = [t \in Threads |-> 0]
    /\ queue = {}

Goto(t, label) == pc' = [pc EXCEPT ![t] = label]
At(t, label) == pc[t] = label /\ UNCHANGED calls

(* A thread enters one of the three operations. *)
Call(t) ==
    /\ pc[t] = "idle"
    /\ calls[t] < MaxCalls
    /\ calls' = [calls EXCEPT ![t] = @ + 1]
    /\ \E label \in {"set", "reset", "wait"} : Goto(t, label)
    /\ UNCHANGED <<value, queue>>

-----------------------------------------------------------------------------
(* qemu_event_set *)

SetRead(t) ==
    /\ At(t, "set")
    /\ Goto(t, IF value = EV_SET THEN "idle" ELSE "set_xchg")
    /\ UNCHANGED <<value, queue>>

MutNeedsWake(v) == FALSE
(* A waiter announced itself in the word that the exchange replaced. *)
NeedsWake(v) == v = EV_BUSY

SetXchg(t) ==
    /\ At(t, "set_xchg")
    /\ value' = EV_SET
    /\ Goto(t, IF NeedsWake(value) THEN "set_wake" ELSE "idle")
    /\ UNCHANGED queue

(* futex_wake(ev, INT_MAX) *)
SetWake(t) ==
    /\ At(t, "set_wake")
    /\ queue' = {}
    /\ Goto(t, "idle")
    /\ UNCHANGED value

-----------------------------------------------------------------------------
(* qemu_event_reset *)

ResetRead(t) ==
    /\ At(t, "reset")
    /\ Goto(t, IF value = EV_SET THEN "reset_or" ELSE "idle")
    /\ UNCHANGED <<value, queue>>

ResetOr(t) ==
    /\ At(t, "reset_or")
    /\ value' = OrFree(value)
    /\ Goto(t, "idle")
    /\ UNCHANGED queue

-----------------------------------------------------------------------------
(* qemu_event_wait *)

WaitRead(t) ==
    /\ At(t, "wait")
    /\ Goto(t, CASE value = EV_SET  -> "idle"
                 [] value = EV_FREE -> "wait_cas"
                 [] value = EV_BUSY -> "futex")
    /\ UNCHANGED <<value, queue>>

WaitCas(t) ==
    /\ At(t, "wait_cas")
    /\ value' = IF value = EV_FREE THEN EV_BUSY ELSE value
    /\ Goto(t, IF value = EV_SET THEN "idle" ELSE "futex")
    /\ UNCHANGED queue

MutFutexSleeps == TRUE
(* The value with which the kernel lets a thread sleep. *)
FutexSleeps == value = EV_BUSY

(* FUTEX_WAIT compares and queues in one step; otherwise EWOULDBLOCK. *)
FutexWait(t) ==
    /\ At(t, "futex")
    /\ IF FutexSleeps
       THEN queue' = queue \cup {t} /\ Goto(t, "asleep")
       ELSE UNCHANGED queue /\ Goto(t, "idle")
    /\ UNCHANGED value

(* Woken by a futex_wake: FUTEX_WAIT returns 0 and the wait is over. *)
Woken(t) ==
    /\ At(t, "asleep")
    /\ t \notin queue
    /\ Goto(t, "idle")
    /\ UNCHANGED <<value, queue>>

(* A signal interrupts the sleep: EINTR, and FUTEX_WAIT again. *)
Interrupted(t) ==
    /\ At(t, "asleep")
    /\ t \in queue
    /\ queue' = queue \ {t}
    /\ Goto(t, "futex")
    /\ UNCHANGED value

-----------------------------------------------------------------------------
(* What a thread does by itself once inside. *)
Step(t) ==
    \/ SetRead(t) \/ SetXchg(t) \/ SetWake(t)
    \/ ResetRead(t) \/ ResetOr(t)
    \/ WaitRead(t) \/ WaitCas(t) \/ FutexWait(t) \/ Woken(t)

Next == \E t \in Threads : Call(t) \/ Step(t) \/ Interrupted(t)

Spec == Init /\ [][Next]_vars

(* A thread that is not asleep goes on. *)
FairSpec == Spec /\ \A t \in Threads : WF_vars(Step(t))

-----------------------------------------------------------------------------
(* Properties.                                                             *)

(* No sleeper is forgotten: whenever a thread sleeps, either the word      *)
(* still tells the next qemu_event_set to wake it, or the wake-up is       *)
(* under way.                                                              *)
NoLostWakeup ==
    queue # {} => value = EV_BUSY \/ \E t \in Threads : pc[t] = "set_wake"

(* "busy->free provably cannot happen" (comment above EV_SET): a           *)
(* qemu_event_reset that was overtaken by a set, another reset and a wait  *)
(* does not wipe out the announcement of the waiter.                       *)
NoBusyToFree == [][~ (value = EV_BUSY /\ value' = EV_FREE)]_vars

(* The event as its users see it: one flag, and waits that end once it is  *)
(* set and stays set, whatever sets, resets and signals come in between.   *)
E == INSTANCE Event WITH
        Waiters   <- Threads,
        signalled <- value = EV_SET,
        waiting   <- {t \in Threads : pc[t] \in WaitLabels}
ImplementsEvent == E!EventSpec
==============================================================================
