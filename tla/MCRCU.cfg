SPECIFICATION MCSpec
CONSTANTS
    NULL = NULL
    Threads = {t1, t2, t3}
    MaxCalls = 2
    Readers = {r1, r2}
    Updaters = {u1}
    MaxLocks = 3
    MaxUpdates = 2
    QueueReaders = {r1}
    Producers = {q1, q2}
    Nodes = {n1, n2}
    dummy = dummy
    CallThread = call_rcu
    ThreadStarted = TRUE
    RCU_CALL_MIN_SIZE = 2
    RCU_CALL_TRIES = 1
INVARIANTS
    NoLostWakeup
    NoUseAfterFree
    NoEarlyCallback
PROPERTIES
    ImplementsEvent
    ImplementsGracePeriod
    SynchronizeReturns
    CallbackRuns
CHECK_DEADLOCK FALSE
