-------------------------------- MODULE MCRCU --------------------------------
(***************************************************************************)
(* The three layers of RCU for TLC: the futex event that its threads sleep *)
(* on (QemuEvent), grace periods (RCU) and the queue of call_rcu           *)
(* (RcuCall).  The upper layers use the lower ones through what modules    *)
(* Event and GracePeriod promise, and the layers share no variable.  A     *)
(* behaviour therefore takes the steps of one layer, and the other two     *)
(* stay in their initial states: moving all three would multiply the       *)
(* states and show nothing more.                                           *)
(***************************************************************************)
EXTENDS RCU, TLC

CONSTANTS
    Threads, MaxCalls,                                   \* of QemuEvent
    QueueReaders, Producers, Nodes, dummy, CallThread,   \* of RcuCall
    ThreadStarted, RCU_CALL_MIN_SIZE, RCU_CALL_TRIES

(* Finitely many threads call call_rcu1, and the dummy is a node apart. *)
ASSUME CallAssumption ==
    /\ IsFiniteSet(Producers)
    /\ dummy \notin Nodes /\ NULL \notin Nodes \cup {dummy}
    /\ RCU_CALL_MIN_SIZE \in Nat /\ RCU_CALL_TRIES \in Nat

VARIABLES
    layer,
    value, pc, calls, queue,
    inside, syncing, callWaitsFor, next, head, tail, rcu_call_count,
    ready, ready_waiters, ppc, node, old_tail, cpc, n, tries, site, removed,
    live, callHeld, runs

Ev == INSTANCE QemuEvent
Call == INSTANCE RcuCall WITH
            Readers <- QueueReaders, Updaters <- {CallThread},
            waitsFor <- callWaitsFor, held <- callHeld

evVars == <<value, pc, calls, queue>>
callVars ==
    <<inside, syncing, callWaitsFor, next, head, tail, rcu_call_count, ready, ready_waiters,
      ppc, node, old_tail, cpc, n, tries, site, removed, live, callHeld, runs>>

MCInit ==
    /\ layer \in {"event", "grace", "call"}
    /\ Ev!Init /\ (layer # "event" => value = Ev!EV_SET)
    /\ Init /\ (layer # "grace" => registry = {})
    /\ Call!Init

MCNext ==
    \/ layer = "event" /\ Ev!Next /\ UNCHANGED <<layer, vars, callVars>>
    \/ layer = "grace" /\ Next /\ UNCHANGED <<layer, evVars, callVars>>
    \/ layer = "call" /\ Call!Next /\ UNCHANGED <<layer, evVars, vars>>

(* The fairness of each layer, where its steps are taken.  With one        *)
(* updater nobody competes for rcu_registry_lock, and weak fairness of its *)
(* steps is enough.                                                        *)
MCSpec ==
    /\ MCInit /\ [][MCNext]_<<layer, evVars, vars, callVars>>
    /\ \A t \in Threads : WF_evVars(layer = "event" /\ Ev!Step(t))
    /\ \A r \in Readers : WF_vars(layer = "grace" /\ Reader(r))
    /\ \A u \in Updaters : WF_vars(layer = "grace" /\ Updater(u))
    /\ WF_callVars(layer = "call" /\ Call!call_rcu_thread)
    /\ \A p \in Producers : WF_callVars(layer = "call" /\ Call!Producer(p))
    /\ \A r \in QueueReaders : WF_callVars(layer = "call" /\ Call!ReadUnlock(r))

-----------------------------------------------------------------------------
(* What the layers promise: see the modules for the properties. *)

(* QemuEvent: no thread that sleeps in qemu_event_wait is forgotten. *)
NoLostWakeup == Ev!NoLostWakeup
(* QemuEvent implements Event. *)
ImplementsEvent == Ev!ImplementsEvent

(* RcuCall: no callback frees an object that a reader holds. *)
NoEarlyCallback == Call!NoUseAfterFree
(* RcuCall: the callback of every node runs in the end, and once. *)
CallbackRuns == Call!CallbackRuns
==============================================================================
