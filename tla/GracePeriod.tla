----------------------------- MODULE GracePeriod -----------------------------
(***************************************************************************)
(* What synchronize_rcu promises (docs/rcu.txt): it returns only after     *)
(* every critical section that was running when it was called has ended.   *)
(***************************************************************************)
CONSTANTS Readers, Updaters

VARIABLES
    inside,     \* readers inside a critical section
    syncing,    \* updaters inside synchronize_rcu
    waitsFor    \* per updater, the readers it has to wait for

gpVars == <<inside, syncing, waitsFor>>

GPInit ==
    /\ inside = {}
    /\ syncing = {}
    /\ waitsFor = [u \in Updaters |-> {}]

Enter(r) ==
    /\ r \notin inside
    /\ inside' = inside \cup {r}
    /\ UNCHANGED <<syncing, waitsFor>>

Leave(r) ==
    /\ r \in inside
    /\ inside' = inside \ {r}
    /\ waitsFor' = [u \in Updaters |-> waitsFor[u] \ {r}]
    /\ UNCHANGED syncing

SyncBegin(u) ==
    /\ u \notin syncing
    /\ syncing' = syncing \cup {u}
    /\ waitsFor' = [waitsFor EXCEPT ![u] = inside]
    /\ UNCHANGED inside

SyncEnd(u) ==
    /\ u \in syncing
    /\ waitsFor[u] = {}
    /\ syncing' = syncing \ {u}
    /\ UNCHANGED <<inside, waitsFor>>

GPNext ==
    \/ \E r \in Readers : Enter(r) \/ Leave(r)
    \/ \E u \in Updaters : SyncBegin(u) \/ SyncEnd(u)

GPSpec == GPInit /\ [][GPNext]_gpVars
==============================================================================
