------------------------------- MODULE RcuCall -------------------------------
(***************************************************************************)
(* call_rcu of util/rcu.c: a queue with many producers and one consumer,   *)
(* the call_rcu thread, which takes what has piled up, waits for a grace   *)
(* period and runs the callbacks.  synchronize_rcu is used through what    *)
(* module GracePeriod promises, rcu_call_ready_event through module Event. *)
(*                                                                         *)
(* Every node stands for an object with an rcu_head; readers get hold of   *)
(* objects until these are handed to call_rcu1, whose callback frees them. *)
(*                                                                         *)
(* ppc[p], a producer: idle; link, inc, set (call_rcu1).                   *)
(* cpc, the thread: off (not started); count, loop, sleep, recheck, wait,  *)
(*   reread (gathering); sub, sync, synced; empty, next, relink            *)
(*   (try_dequeue); reset, event (queue inconsistent); run; abort.         *)
(***************************************************************************)
EXTENDS GracePeriod, Integers, FiniteSets

CONSTANTS
    Producers, Nodes, dummy, NULL,
    CallThread,             \* the call_rcu thread
    ThreadStarted,          \* rcu_init has called rcu_init_complete
    RCU_CALL_MIN_SIZE,
    RCU_CALL_TRIES          \* how often the thread waits for more: 5

VARIABLES
    next, head, tail,       \* the queue; tail names the node whose next it points to
    rcu_call_count, ready, ready_waiters,
    ppc, node, old_tail,    \* producers
    cpc, n, tries, site,    \* the thread; site: which call of try_dequeue
    removed,                \* node that try_dequeue took off the head
    live,                   \* objects readers can still find
    held,                   \* objects each reader has got hold of
    runs                    \* how often the callback of each node ran

queueVars == <<next, head, tail>>
eventVars == <<ready, ready_waiters>>
prodVars  == <<ppc, node, old_tail>>
consVars  == <<cpc, n, tries, site, removed>>
objVars   == <<live, held, runs>>
vars == <<gpVars, queueVars, rcu_call_count, eventVars, prodVars, consVars, objVars>>

Ready == INSTANCE Event WITH
    Waiters <- {CallThread}, signalled <- ready, waiting <- ready_waiters

(* The types of the variables. *)
TypeOK ==
    /\ inside \subseteq Readers /\ syncing \subseteq Updaters
    /\ next \in [Nodes \cup {dummy} -> Nodes \cup {dummy, NULL}]
    /\ head \in Nodes \cup {dummy} /\ tail \in Nodes \cup {dummy}
    /\ rcu_call_count \in 0 .. Cardinality(Nodes)
    /\ ready \in BOOLEAN /\ ready_waiters \subseteq {CallThread}
    /\ ppc \in [Producers -> {"idle", "link", "inc", "set"}]
    /\ n \in 0 .. Cardinality(Nodes) /\ tries \in 0 .. RCU_CALL_TRIES + 1
    /\ live \subseteq Nodes /\ held \in [Readers -> SUBSET Nodes]
    /\ runs \in [Nodes -> Nat]

Init ==
    /\ GPInit
    /\ next = [x \in Nodes \cup {dummy} |-> NULL]
    /\ head = dummy /\ tail = dummy
    /\ rcu_call_count = 0
    /\ ready = ~ ThreadStarted /\ ready_waiters = {}  \* all zeroes is EV_SET
    /\ ppc = [p \in Producers |-> "idle"]
    /\ node = [p \in Producers |-> dummy]
    /\ old_tail = [p \in Producers |-> dummy]
    /\ cpc = IF ThreadStarted THEN "count" ELSE "off"
    /\ n = 0 /\ tries = 0 /\ site = 1 /\ removed = dummy
    /\ live = Nodes
    /\ held = [r \in Readers |-> {}]
    /\ runs = [x \in Nodes |-> 0]

-----------------------------------------------------------------------------
(* Readers.                                                                *)

ReadLock(r) ==
    /\ Enter(r)
    /\ UNCHANGED <<queueVars, rcu_call_count, eventVars, prodVars, consVars, objVars>>

Dereference(r) ==
    /\ r \in inside
    /\ \E x \in live : held' = [held EXCEPT ![r] = @ \cup {x}]
    /\ UNCHANGED <<gpVars, queueVars, rcu_call_count, eventVars, prodVars, consVars, live, runs>>

ReadUnlock(r) ==
    /\ Leave(r)
    /\ held' = [held EXCEPT ![r] = {}]
    /\ UNCHANGED <<queueVars, rcu_call_count, eventVars, prodVars, consVars, live, runs>>

-----------------------------------------------------------------------------
(* enqueue: swing the tail, then link the predecessor; in between the      *)
(* queue is inconsistent.                                                  *)

SwingTail(x) ==
    /\ tail' = x
    /\ next' = [next EXCEPT ![x] = NULL]

(* call_rcu1 of an object that readers no longer find. *)
CallRcu(p) ==
    /\ ppc[p] = "idle"
    /\ \E x \in live :
          /\ live' = live \ {x}
          /\ SwingTail(x)
          /\ node' = [node EXCEPT ![p] = x]
    /\ old_tail' = [old_tail EXCEPT ![p] = tail]
    /\ ppc' = [ppc EXCEPT ![p] = "link"]
    /\ UNCHANGED <<gpVars, head, rcu_call_count, eventVars, consVars, held, runs>>

EnqueueLink(p) ==
    /\ ppc[p] = "link"
    /\ next' = [next EXCEPT ![old_tail[p]] = node[p]]
    /\ ppc' = [ppc EXCEPT ![p] = "inc"]
    /\ UNCHANGED <<gpVars, head, tail, rcu_call_count, eventVars, node, old_tail, consVars, objVars>>

CountUp(p) ==
    /\ ppc[p] = "inc"
    /\ rcu_call_count' = rcu_call_count + 1
    /\ ppc' = [ppc EXCEPT ![p] = "set"]
    /\ UNCHANGED <<gpVars, queueVars, eventVars, node, old_tail, consVars, objVars>>

SetReady(p) ==
    /\ ppc[p] = "set"
    /\ Ready!EventSet
    /\ ppc' = [ppc EXCEPT ![p] = "idle"]
    /\ UNCHANGED <<gpVars, queueVars, rcu_call_count, node, old_tail, consVars, objVars>>

Producer(p) == EnqueueLink(p) \/ CountUp(p) \/ SetReady(p)

-----------------------------------------------------------------------------
(* call_rcu_thread: gather callbacks.                                      *)

CGoto(label) == cpc' = label

ReadCount ==
    /\ cpc = "count"
    /\ n' = rcu_call_count /\ tries' = 0
    /\ CGoto("loop")
    /\ UNCHANGED <<gpVars, queueVars, rcu_call_count, eventVars, prodVars, site, removed, objVars>>

(* while (n == 0 || (n < RCU_CALL_MIN_SIZE && ++tries <= 5)) *)
LoopTest ==
    /\ cpc = "loop"
    /\ tries' = IF n # 0 /\ n < RCU_CALL_MIN_SIZE THEN tries + 1 ELSE tries
    /\ CGoto(IF n = 0 \/ (n < RCU_CALL_MIN_SIZE /\ tries' <= RCU_CALL_TRIES)
             THEN "sleep" ELSE "sub")
    /\ UNCHANGED <<gpVars, queueVars, rcu_call_count, eventVars, prodVars, n, site, removed,
                   objVars>>

(* Sleep; without callbacks, get ready to wait for the event ... *)
Sleep ==
    /\ cpc = "sleep"
    /\ IF n = 0
       THEN Ready!EventReset /\ CGoto("recheck")
       ELSE UNCHANGED eventVars /\ CGoto("reread")
    /\ UNCHANGED <<gpVars, queueVars, rcu_call_count, prodVars, n, tries, site, removed, objVars>>

(* ... which is not necessary when one has come in meanwhile. *)
Recheck ==
    /\ cpc = "recheck"
    /\ n' = rcu_call_count
    /\ IF rcu_call_count = 0
       THEN Ready!EventWait(CallThread) /\ CGoto("wait")
       ELSE UNCHANGED eventVars /\ CGoto("reread")
    /\ UNCHANGED <<gpVars, queueVars, rcu_call_count, prodVars, tries, site, removed, objVars>>

WaitReady ==
    /\ cpc = "wait"
    /\ Ready!EventReturn(CallThread)
    /\ CGoto("reread")
    /\ UNCHANGED <<gpVars, queueVars, rcu_call_count, prodVars, n, tries, site, removed, objVars>>

Reread ==
    /\ cpc = "reread"
    /\ n' = rcu_call_count
    /\ CGoto("loop")
    /\ UNCHANGED <<gpVars, queueVars, rcu_call_count, eventVars, prodVars, tries, site, removed,
                   objVars>>

MutCountDown == 0
(* atomic_sub(&rcu_call_count, n): more may have come in since. *)
CountDown == rcu_call_count - n

Subtract ==
    /\ cpc = "sub"
    /\ rcu_call_count' = CountDown
    /\ CGoto("sync")
    /\ UNCHANGED <<gpVars, queueVars, eventVars, prodVars, n, tries, site, removed, objVars>>

MutSyncCall ==
    /\ cpc = "sync"
    /\ CGoto("empty")
    /\ site' = 1
    /\ UNCHANGED <<gpVars, queueVars, rcu_call_count, eventVars, prodVars, n, tries, removed,
                   objVars>>
(* synchronize_rcu *)
SyncCall ==
    /\ cpc = "sync"
    /\ SyncBegin(CallThread)
    /\ CGoto("synced")
    /\ UNCHANGED <<queueVars, rcu_call_count, eventVars, prodVars, n, tries, site, removed,
                   objVars>>

SyncReturn ==
    /\ cpc = "synced"
    /\ SyncEnd(CallThread)
    /\ CGoto("empty")
    /\ site' = 1
    /\ UNCHANGED <<queueVars, rcu_call_count, eventVars, prodVars, n, tries, removed, objVars>>

-----------------------------------------------------------------------------
(* call_rcu_thread: dequeue n nodes and run their callbacks.               *)

(* try_dequeue is not expected to find the queue empty. *)
TestEmpty ==
    /\ cpc = "empty"
    /\ CGoto(IF head = dummy /\ tail = dummy THEN "abort" ELSE "next")
    /\ UNCHANGED <<gpVars, queueVars, rcu_call_count, eventVars, prodVars, n, tries, site,
                   removed, objVars>>

(* A node whose successor is not linked yet stays: try_dequeue returns NULL *)
(* to the first call, the one after resetting the event, or the one after  *)
(* waiting for it.                                                         *)
DequeueNull ==
    /\ cpc = "next" /\ next[head] = NULL
    /\ CGoto(IF site = 2 THEN "event" ELSE "reset")
    /\ UNCHANGED <<gpVars, queueVars, rcu_call_count, eventVars, prodVars, n, tries, site,
                   removed, objVars>>

(* The dummy goes back to the end, and the walk starts again. *)
DequeueDummy ==
    /\ cpc = "next" /\ next[head] # NULL /\ head = dummy
    /\ head' = next[head]
    /\ SwingTail(dummy)
    /\ removed' = tail      \* old_tail of this enqueue
    /\ CGoto("relink")
    /\ UNCHANGED <<gpVars, rcu_call_count, eventVars, prodVars, n, tries, site, objVars>>

RelinkDummy ==
    /\ cpc = "relink"
    /\ next' = [next EXCEPT ![removed] = dummy]
    /\ CGoto("empty")
    /\ UNCHANGED <<gpVars, head, tail, rcu_call_count, eventVars, prodVars, n, tries, site,
                   removed, objVars>>

DequeueNode ==
    /\ cpc = "next" /\ next[head] # NULL /\ head # dummy
    /\ head' = next[head]
    /\ removed' = head
    /\ CGoto("run")
    /\ UNCHANGED <<gpVars, next, tail, rcu_call_count, eventVars, prodVars, n, tries, site,
                   objVars>>

ResetAndRetry ==
    /\ cpc = "reset"
    /\ Ready!EventReset
    /\ site' = 2
    /\ CGoto("empty")
    /\ UNCHANGED <<gpVars, queueVars, rcu_call_count, prodVars, n, tries, removed, objVars>>

WaitCall ==
    /\ cpc = "event" /\ ready_waiters = {}
    /\ Ready!EventWait(CallThread)
    /\ UNCHANGED <<gpVars, queueVars, rcu_call_count, prodVars, consVars, objVars>>

WaitAndRetry ==
    /\ cpc = "event"
    /\ Ready!EventReturn(CallThread)
    /\ site' = 3
    /\ CGoto("empty")
    /\ UNCHANGED <<gpVars, queueVars, rcu_call_count, prodVars, n, tries, removed, objVars>>

(* node->func(node) *)
RunCallback ==
    /\ cpc = "run"
    /\ runs' = [runs EXCEPT ![removed] = @ + 1]
    /\ n' = n - 1
    /\ site' = 1
    /\ CGoto(IF n > 1 THEN "empty" ELSE "count")
    /\ UNCHANGED <<gpVars, queueVars, rcu_call_count, eventVars, prodVars, tries, removed,
                   live, held>>

(* The event may also let the thread go early. *)
EarlyReturn ==
    /\ cpc \in {"wait", "event"}
    /\ Ready!EventSpurious(CallThread)
    /\ IF cpc = "wait" THEN CGoto("reread") /\ UNCHANGED site
       ELSE CGoto("empty") /\ site' = 3
    /\ UNCHANGED <<gpVars, queueVars, rcu_call_count, prodVars, n, tries, removed, objVars>>

call_rcu_thread ==
    \/ ReadCount \/ LoopTest \/ Sleep \/ Recheck \/ WaitReady \/ Reread
    \/ Subtract \/ SyncCall \/ SyncReturn
    \/ TestEmpty \/ DequeueNull \/ DequeueDummy \/ RelinkDummy \/ DequeueNode
    \/ ResetAndRetry \/ WaitCall \/ WaitAndRetry \/ RunCallback

Next ==
    \/ \E r \in Readers : ReadLock(r) \/ Dereference(r) \/ ReadUnlock(r)
    \/ \E p \in Producers : CallRcu(p) \/ Producer(p)
    \/ call_rcu_thread \/ EarlyReturn

Spec == Init /\ [][Next]_vars

(* Threads run, and readers leave their sections. *)
FairSpec ==
    /\ Spec
    /\ WF_vars(call_rcu_thread)
    /\ \A p \in Producers : WF_vars(Producer(p))
    /\ \A r \in Readers : WF_vars(ReadUnlock(r))

-----------------------------------------------------------------------------
(* Properties.                                                             *)

(* A callback frees its object only once no reader holds it, although the  *)
(* nodes that are dequeued need not be those that were counted.            *)
NoUseAfterFree == \A r \in Readers : \A x \in held[r] : runs[x] = 0

(* "This function invokes func(head) after all pre-existing RCU read-side  *)
(* critical sections on all threads have completed" (docs/rcu.txt): the    *)
(* callback of every node given to call_rcu1 runs in the end, and once.    *)
CallbackRuns == \A x \in Nodes : x \notin live ~> [](runs[x] = 1)
==============================================================================
