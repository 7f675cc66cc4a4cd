-------------------------------- MODULE Event --------------------------------
(***************************************************************************)
(* What a QemuEvent promises: a flag that threads set, reset and wait for. *)
(* qemu_event_wait may return early, so that its callers look at what they *)
(* wait for again; but it does return once the flag is set and stays set.  *)
(***************************************************************************)
CONSTANT Waiters

VARIABLES
    signalled,   \* the event is set
    waiting      \* threads inside qemu_event_wait

eventVars == <<signalled, waiting>>

EventInit ==
    /\ signalled \in BOOLEAN
    /\ waiting = {}

EventSet ==
    /\ signalled' = TRUE
    /\ UNCHANGED waiting

EventReset ==
    /\ signalled' = FALSE
    /\ UNCHANGED waiting

EventWait(t) ==
    /\ waiting' = waiting \cup {t}
    /\ UNCHANGED signalled

(* The flag is set: the wait is over. *)
EventReturn(t) ==
    /\ t \in waiting
    /\ signalled
    /\ waiting' = waiting \ {t}
    /\ UNCHANGED signalled

(* The wait ends although the flag is not set (or not any more). *)
EventSpurious(t) ==
    /\ t \in waiting
    /\ ~ signalled
    /\ waiting' = waiting \ {t}
    /\ UNCHANGED signalled

EventNext ==
    \/ EventSet \/ EventReset
    \/ \E t \in Waiters : EventWait(t) \/ EventReturn(t) \/ EventSpurious(t)

EventSpec ==
    /\ EventInit /\ [][EventNext]_eventVars
    /\ \A t \in Waiters : WF_eventVars(EventReturn(t))
==============================================================================
