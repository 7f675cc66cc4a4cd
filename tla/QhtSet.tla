-------------------------------- MODULE QhtSet --------------------------------
(***************************************************************************)
(* What the hash table of util/qht.c promises: a set of pointers.          *)
(* Insertions and removals take effect at one instant and answer whether   *)
(* they changed the set; a lookup or an iteration answers with the set at  *)
(* some instant while it was running.  A reset removes the pointers in     *)
(* several instants.                                                       *)
(***************************************************************************)
CONSTANTS Threads, Pointers, NULL

VARIABLES
    contents,
    reading,    \* the pointers a thread asks about, or NULL
    seen,       \* the contents at the instants since it began
    result      \* the pointers a thread has found, inserted or removed

setVars == <<contents, reading, seen, result>>

SetInit ==
    /\ contents \in SUBSET Pointers
    /\ reading = [t \in Threads |-> NULL]
    /\ seen = [t \in Threads |-> {}]
    /\ result = [t \in Threads |-> NULL]

ReadBegin(t, what) ==
    /\ reading[t] = NULL
    /\ reading' = [reading EXCEPT ![t] = what]
    /\ seen' = [seen EXCEPT ![t] = {contents}]
    /\ result' = [result EXCEPT ![t] = NULL]
    /\ UNCHANGED contents

ReadEnd(t) ==
    /\ reading[t] # NULL
    /\ \E s \in seen[t] : result' = [result EXCEPT ![t] = s \cap reading[t]]
    /\ reading' = [reading EXCEPT ![t] = NULL]
    /\ seen' = [seen EXCEPT ![t] = {}]
    /\ UNCHANGED contents

(* The set becomes s; whoever is reading may see it. *)
Become(s) ==
    /\ contents' = s
    /\ seen' = [t \in Threads |-> IF reading[t] = NULL THEN {} ELSE seen[t] \cup {s}]
    /\ UNCHANGED reading

Insert(t, p) ==
    /\ Become(contents \cup {p})
    /\ result' = [result EXCEPT ![t] = {p} \ contents]

Remove(t, p) ==
    /\ Become(contents \ {p})
    /\ result' = [result EXCEPT ![t] = {p} \cap contents]

ResetSome ==
    /\ \E s \in SUBSET contents : Become(s)
    /\ UNCHANGED result

Forget(t) ==
    /\ result' = [result EXCEPT ![t] = NULL]
    /\ UNCHANGED <<contents, reading, seen>>

SetNext ==
    \/ \E t \in Threads :
          \/ ReadEnd(t) \/ Forget(t)
          \/ \E p \in Pointers : Insert(t, p) \/ Remove(t, p)
          \/ \E what \in {{p} : p \in Pointers} \cup {Pointers} : ReadBegin(t, what)
    \/ ResetSome

SetSpec == SetInit /\ [][SetNext]_setVars
==============================================================================
