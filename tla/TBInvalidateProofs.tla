-------------------------- MODULE TBInvalidateProofs --------------------------
(***************************************************************************)
(* The lists of the translation cache stay exact, and an invalidation      *)
(* misses nothing, for every guest program and every size of the cache.    *)
(*                                                                         *)
(* A circular list is a ring: a function that is injective on its members  *)
(* and does not lead out of them, and no proper part of the members with   *)
(* the head in it is closed under the function.  The last clause says that *)
(* everything can be reached from the head, without counting steps.  A     *)
(* page list is a ring too, with NULL as its head.                         *)
(***************************************************************************)
EXTENDS TBInvalidate, TBCacheProofs

Closed(j, S) == \A f \in S : j[f] \in S

IsRing(j, M, h) ==
    /\ h \in M
    /\ Closed(j, M)
    /\ \A f, g \in M : j[f] = j[g] => f = g
    /\ \A S \in SUBSET M : h \in S /\ Closed(j, S) => S = M

LEMMA RingNew == ASSUME NEW j, NEW h, j[h] = h PROVE IsRing(j, {h}, h)
BY DEF IsRing, Closed

LEMMA RingFrame ==
    ASSUME NEW j, NEW k, NEW M, NEW h, IsRing(j, M, h), \A f \in M : k[f] = j[f]
    PROVE  IsRing(k, M, h)
BY DEF IsRing, Closed

(* A new member after the head. *)
LEMMA RingInsert ==
    ASSUME NEW j, NEW k, NEW M, NEW h, NEW f, IsRing(j, M, h), f \notin M,
           k[h] = f, k[f] = j[h], \A g \in M \ {h} : k[g] = j[g]
    PROVE  IsRing(k, M \cup {f}, h)
<1>1. Closed(k, M \cup {f})
  BY DEF IsRing, Closed
<1>2. \A x, y \in M \cup {f} : k[x] = k[y] => x = y
  BY DEF IsRing, Closed
<1>3. ASSUME NEW S \in SUBSET (M \cup {f}), h \in S, Closed(k, S) PROVE S = M \cup {f}
  <2>1. f \in S
    BY <1>3 DEF Closed
  <2>2. ASSUME NEW x \in S \ {f} PROVE j[x] \in S \ {f}
    BY <1>3, <2>1 DEF IsRing, Closed
  <2>3. S \ {f} = M
    BY <1>3, <2>2 DEF IsRing, Closed
  <2> QED
    BY <2>1, <2>3
<1> QED
  BY <1>1, <1>2, <1>3 DEF IsRing

(* Every member other than the head has a predecessor. *)
LEMMA RingPredecessor ==
    ASSUME NEW j, NEW M, NEW h, IsRing(j, M, h), NEW f \in M, f # h
    PROVE  \E p \in M : j[p] = f
<1> SUFFICES ASSUME \A p \in M : j[p] # f PROVE FALSE
  OBVIOUS
<1>1. Closed(j, M \ {f})
  BY DEF IsRing, Closed
<1> QED
  BY <1>1 DEF IsRing

(* A member other than the head does not lead to itself. *)
LEMMA RingMoves ==
    ASSUME NEW j, NEW M, NEW h, IsRing(j, M, h), NEW f \in M, f # h
    PROVE  j[f] # f
<1> SUFFICES ASSUME j[f] = f PROVE FALSE
  OBVIOUS
<1>1. Closed(j, M \ {f})
  BY DEF IsRing, Closed
<1> QED
  BY <1>1 DEF IsRing

(* A member other than the head is taken off. *)
LEMMA RingRemove ==
    ASSUME NEW j, NEW k, NEW M, NEW h, NEW f \in M, NEW p \in M, IsRing(j, M, h), f # h,
           j[p] = f, k[p] = j[f], \A g \in M \ {f, p} : k[g] = j[g]
    PROVE  p # f /\ IsRing(k, M \ {f}, h)
<1>1. p # f
  BY RingMoves
<1>2. Closed(k, M \ {f})
  BY <1>1 DEF IsRing, Closed
<1>3. \A x, y \in M \ {f} : k[x] = k[y] => x = y
  BY <1>1 DEF IsRing, Closed
<1>4. ASSUME NEW S \in SUBSET (M \ {f}), h \in S, Closed(k, S) PROVE S = M \ {f}
  <2> DEFINE R == IF p \in S THEN S \cup {f} ELSE S
  <2>1. R \in SUBSET M /\ h \in R
    BY <1>4
  <2>2. Closed(j, R)
    BY <1>1, <1>4 DEF IsRing, Closed
  <2>3. R = M
    BY <2>1, <2>2 DEF IsRing
  <2> QED
    BY <2>3
<1> QED
  BY <1>1, <1>2, <1>3, <1>4 DEF IsRing

-----------------------------------------------------------------------------
(* Walks along a list. *)

(* The sequence that starts at a and goes on by step. *)
Iterated(g, K, V, step, a) ==
    g \in [0 .. K -> V] /\ g[0] = a /\ \A i \in 1 .. K : g[i] = step[g[i - 1]]

LEMMA Iterate ==
    ASSUME NEW V, NEW step, NEW a, NEW K, step \in [V -> V], a \in V, K \in Nat
    PROVE  \E g : Iterated(g, K, V, step, a)
<1> USE DEF Iterated
<1> DEFINE Good(n, g) == Iterated(g, n, V, step, a)
           B == {n \in Nat : ~ \E g : Good(n, g)}
<1>1. CASE B = {}
  <2>1. \E g : Good(K, g)
    BY <1>1
  <2> QED
    BY <2>1
<1>2. CASE B # {}
  <2>1. PICK m \in B : \A n \in B : m <= n
    <3>1. B \in SUBSET Nat
      OBVIOUS
    <3> HIDE DEF B
    <3> QED
      BY <1>2, <3>1, LeastNatural
  <2>2. m \in Nat /\ ~ \E g : Good(m, g)
    BY <2>1
  <2>3. Good(0, [i \in 0 .. 0 |-> a])
    OBVIOUS
  <2>4. m # 0
    BY <2>2, <2>3
  <2>5. m - 1 \in Nat /\ m - 1 \notin B
    <3>1. m - 1 \in Nat /\ ~ (m <= m - 1)
      BY <2>2, <2>4
    <3> HIDE DEF B
    <3> QED
      BY <2>1, <3>1
  <2>6. PICK g : Good(m - 1, g)
    BY <2>5
  <2> DEFINE h == [i \in 0 .. m |-> IF i < m THEN g[i] ELSE step[g[m - 1]]]
  <2>7. Good(m, h)
    <3>1. h \in [0 .. m -> V] /\ h[0] = a
      BY <2>2, <2>4, <2>6
    <3>2. ASSUME NEW i \in 1 .. m PROVE h[i] = step[h[i - 1]]
      <4>1. h[i - 1] = g[i - 1]
        BY <2>2, <2>4
      <4>2. CASE i < m
        BY <2>2, <2>4, <2>6, <4>1, <4>2
      <4>3. CASE i = m
        BY <2>2, <2>4, <2>6, <4>1, <4>3
      <4> QED
        BY <2>2, <4>2, <4>3
    <3> HIDE DEF h
    <3> QED
      BY <3>1, <3>2
  <2> QED
    BY <2>2, <2>7
<1> QED
  BY <1>1, <1>2

(* A property of the steps of a walk that holds at the first one and goes  *)
(* from each to the next holds of all: T is the set of steps that have it. *)
LEMMA AllSteps ==
    ASSUME NEW K \in Nat, NEW T, 0 \in T, \A i \in 1 .. K : i - 1 \in T => i \in T
    PROVE  \A i \in 0 .. K : i \in T
<1> DEFINE B == {i \in 0 .. K : i \notin T}
<1> SUFFICES B = {}
  OBVIOUS
<1> SUFFICES ASSUME B # {} PROVE FALSE
  OBVIOUS
<1>1. PICK m \in B : \A n \in B : m <= n
  <2>1. B \in SUBSET Nat
    OBVIOUS
  <2> HIDE DEF B
  <2> QED
    BY <2>1, LeastNatural
<1>2. m \in 0 .. K /\ m # 0 /\ m \notin T
  BY <1>1
<1>3. m \in 1 .. K /\ m - 1 \in 0 .. K /\ ~ (m <= m - 1)
  BY <1>2
<1>4. m - 1 \in T
  BY <1>1, <1>3
<1> QED
  BY <1>2, <1>3, <1>4

(* The walk along a ring from its head is back at the head after as many   *)
(* steps as there can be members, and has met each of them.                *)
RingStep(j, h, f) == IF f = h THEN h ELSE j[f]
IsWalk(w, K, M, j, h) ==
    /\ w \in [0 .. K -> M]
    /\ w[0] = j[h]
    /\ \A i \in 1 .. K : w[i] = RingStep(j, h, w[i - 1])
WalkExact(w, K, M, h) == w[K] = h /\ {w[i] : i \in 0 .. K} \ {h} = M \ {h}

LEMMA RingWalk ==
    ASSUME NEW j, NEW M, NEW h, IsRing(j, M, h), NEW K \in Nat, NEW X, IsFiniteSet(X),
           M \ {h} \subseteq X, Cardinality(X) <= K
    PROVE  \E w : IsWalk(w, K, M, j, h) /\ WalkExact(w, K, M, h)
<1>1. h \in M /\ Closed(j, M)
  BY DEF IsRing
<1> DEFINE st == [f \in M |-> RingStep(j, h, f)]
<1>2. st \in [M -> M] /\ j[h] \in M
  BY <1>1 DEF RingStep, Closed
<1> HIDE DEF st
<1>0. PICK w : Iterated(w, K, M, st, j[h])
  BY <1>2, Iterate
<1>3. w \in [0 .. K -> M] /\ w[0] = j[h] /\ \A i \in 1 .. K : w[i] = st[w[i - 1]]
  BY <1>0 DEF Iterated
<1>4. ASSUME NEW i \in 1 .. K
      PROVE  i - 1 \in 0 .. K /\ w[i - 1] \in M /\ w[i] = RingStep(j, h, w[i - 1])
  <2>1. i - 1 \in 0 .. K
    OBVIOUS
  <2>2. w[i - 1] \in M /\ w[i] = st[w[i - 1]]
    BY <1>3, <2>1
  <2> QED
    BY <2>1, <2>2 DEF st
<1>5. IsWalk(w, K, M, j, h)
  BY <1>3, <1>4 DEF IsWalk
<1> HIDE DEF st
<1>6. ASSUME w[K] # h PROVE \A i \in 0 .. K : w[i] # h
  <2> DEFINE T == {i \in 0 .. K : w[K - i] # h}
  <2>1. 0 \in T
    BY <1>6
  <2>2. ASSUME NEW i \in 1 .. K, i - 1 \in T PROVE i \in T
    <3>1. /\ K - i \in 0 .. K /\ K - (i - 1) \in 1 .. K
          /\ (K - (i - 1)) - 1 = K - i /\ w[K - (i - 1)] # h
      BY <2>2
    <3>2. w[K - i] # h
      BY <3>1, <1>4 DEF RingStep
    <3> QED
      BY <3>1, <3>2
  <2> HIDE DEF T
  <2>3. \A i \in 0 .. K : i \in T
    BY <2>1, <2>2, AllSteps
  <2>4. ASSUME NEW i \in 0 .. K PROVE w[i] # h
    <3>1. K - i \in 0 .. K /\ K - (K - i) = i
      OBVIOUS
    <3> QED
      BY <2>3, <3>1 DEF T
  <2> QED
    BY <2>4
<1>7. w[K] = h
  <2> SUFFICES ASSUME w[K] # h PROVE FALSE
    OBVIOUS
  <2>1. \A i \in 0 .. K : w[i] \in M /\ w[i] # h
    BY <1>3, <1>6
  <2>2. \A i \in 1 .. K : w[i] = j[w[i - 1]]
    BY <1>4, <2>1 DEF RingStep
  <2>3. w \in [0 .. K -> X]
    BY <1>3, <2>1
  <2>4. IsFiniteSet(0 .. K) /\ Cardinality(0 .. K) = K + 1
    BY FS_Interval
  <2>5. Cardinality(X) < Cardinality(0 .. K)
    <3>1. Cardinality(X) \in Nat
      BY FS_CardinalityType
    <3> QED
      BY <2>4, <3>1
  <2>6. PICK x, y \in 0 .. K : x # y /\ w[x] = w[y]
    BY <2>3, <2>4, <2>5, FS_PigeonHole
  <2> DEFINE T == {i \in 0 .. K : \A k \in 0 .. K : i < k => w[i] # w[k]}
  <2>7. 0 \in T
    <3> SUFFICES ASSUME NEW k \in 0 .. K, 0 < k, w[0] = w[k] PROVE FALSE
      OBVIOUS
    <3>1. k \in 1 .. K /\ k - 1 \in 0 .. K
      OBVIOUS
    <3>2. j[w[k - 1]] = j[h]
      BY <1>3, <2>2, <3>1
    <3> QED
      BY <1>1, <2>1, <3>1, <3>2 DEF IsRing
  <2>8. ASSUME NEW i \in 1 .. K, i - 1 \in T PROVE i \in T
    <3> SUFFICES ASSUME NEW k \in 0 .. K, i < k, w[i] = w[k] PROVE FALSE
      OBVIOUS
    <3>1. k \in 1 .. K /\ k - 1 \in 0 .. K /\ i - 1 \in 0 .. K /\ i - 1 < k - 1
      OBVIOUS
    <3>2. j[w[k - 1]] = j[w[i - 1]]
      BY <2>2, <3>1
    <3>3. w[k - 1] = w[i - 1]
      BY <2>1, <3>1, <3>2 DEF IsRing
    <3> QED
      BY <2>8, <3>1, <3>3
  <2> HIDE DEF T
  <2>9. \A i \in 0 .. K : i \in T
    BY <2>7, <2>8, AllSteps
  <2> QED
    BY <2>6, <2>9 DEF T
<1>8. {w[i] : i \in 0 .. K} \ {h} = M \ {h}
  <2> DEFINE S == {w[i] : i \in 0 .. K} \cup {h}
  <2>1. S \in SUBSET M /\ h \in S
    BY <1>1, <1>3
  <2>2. ASSUME NEW f \in S PROVE j[f] \in S
    <3>1. CASE f = h
      <4>1. w[0] = j[h] /\ 0 \in 0 .. K
        BY <1>3
      <4> QED
        BY <3>1, <4>1
    <3>2. CASE f # h
      <4>1. PICK i \in 0 .. K : f = w[i]
        BY <3>2
      <4>2. i # K
        BY <1>7, <3>2, <4>1
      <4>3. i + 1 \in 1 .. K /\ (i + 1) - 1 = i /\ i + 1 \in 0 .. K
        BY <4>2
      <4>4. w[i + 1] = j[f]
        BY <1>4, <3>2, <4>1, <4>3 DEF RingStep
      <4> QED
        BY <4>3, <4>4
    <3> QED
      BY <3>1, <3>2
  <2>3. S = M
    <3> HIDE DEF S
    <3>1. Closed(j, S)
      BY <2>2 DEF Closed
    <3> QED
      BY <2>1, <3>1 DEF IsRing
  <2> QED
    BY <2>3
<1> QED
  BY <1>5, <1>7, <1>8 DEF WalkExact

-----------------------------------------------------------------------------
(* The invariant. *)

Alloc == 0 .. nb_tbs - 1

(* The TB whose jumps tb_jmp_unlink is resetting, if any. *)
Unlinking == {x \in Alloc : ~ Idle /\ op.unlink = x}

(* The entries handed out have been written, and are laid out in order. *)
LayoutInv == CodeLayout /\ \A x \in Alloc : Written(x)

(* The slots of TBs of A on the circular list of d, in lists j with the    *)
(* jumps patched to tg.                                                    *)
Jumpers(A, j, tg, d) == {f \in A \X Slots : j[f] # NULL /\ tg[f] = d}
Members(A, j, tg, d) == {First(d)} \cup Jumpers(A, j, tg, d)
Rings(A, j, tg) ==
    /\ \A d \in A : IsRing(j, Members(A, j, tg, d), First(d))
    /\ \A f \in A \X Slots : j[f] # NULL => tg[f] \in A

(* The circular lists are rings; a slot is on one if and only if its TB is *)
(* live and its jump is patched; no jump leads to an invalidated TB, apart *)
(* from the one whose list is being emptied.                               *)
RingsInv == Rings(Alloc, jmp, target)
JumpsInv ==
    /\ \A f \in Alloc \X Slots :
          jmp[f] # NULL => f[1] \in htable /\ target[f] \in htable \cup Unlinking
    /\ \A f \in htable \X Slots : target[f] # NULL => jmp[f] # NULL

(* The entries of the list of page p; a page list as a function on them    *)
(* and on NULL, which stands for the head.                                 *)
OnPage(p) == {f \in htable \X Slots : page_addr(tbs[f[1]], f[2]) = p}
PageLink(head, nexts) ==
    [f \in JmpSlots \cup {NULL} |-> IF f = NULL THEN head ELSE nexts[f]]
IsPageList(head, nexts, S) == IsRing(PageLink(head, nexts), S \cup {NULL}, NULL)

(* Where the list of page p starts: the part that tb_invalidate_phys_page  *)
(* has already visited is not on it any more.                              *)
HeadOf(p) == IF ~ Idle /\ op.kind = "page" /\ op.page = p THEN op.tb ELSE first_tb[p]
PagesInv == \A p \in Pages : IsPageList(HeadOf(p), page_next, OnPage(p))

(* The loop of tb_invalidate_phys_range has dropped what it has passed:    *)
(* the code in the range that is left is on this page or a later one, and  *)
(* on this page in the part of the list still to come.                     *)
InCode(b, x) == b.key.pc <= x /\ x <= LastByte(b)
Reached(head, nexts, M, f) ==
    \A S \in SUBSET (M \cup {NULL}) : NULL \in S /\ Closed(PageLink(head, nexts), S) => f \in S
LeftFor(t, b, x, p, head, nexts, M) ==
    /\ p <= PageOf(x)
    /\ PageOf(x) = p =>
          \E n \in Slots : page_addr(b, n) = PageOf(x) /\ Reached(head, nexts, M, <<t, n>>)
Passed ==
    \A t \in htable, x \in op.from .. op.end - 1 : InCode(tbs[t], x) =>
        LeftFor(t, tbs[t], x, PageOf(op.start), op.tb, page_next, OnPage(PageOf(op.start)))
LoopInv ==
    ~ Idle =>
        /\ op.kind = "one" => op.unlink # NULL
        /\ op.unlink # NULL => op.unlink \in Alloc \ htable
        /\ op.kind = "page" => op.page \in Pages
        /\ op.kind = "range" =>
              /\ op.from <= op.start /\ op.start < op.end
              /\ op.start = op.from \/ op.start = PageOf(op.start) * PageSize
              /\ op.tb \in OnPage(PageOf(op.start)) \cup {NULL}
              /\ Passed

Inv ==
    /\ CacheInv /\ op \in OpRecord \cup {NULL} /\ JmpCacheCoherent
    /\ LayoutInv /\ RingsInv /\ JumpsInv /\ PagesInv /\ LoopInv

-----------------------------------------------------------------------------
(* The circular lists. *)

JmpFunction == [JmpFields -> JmpFields \cup {NULL}]

LEMMA FieldFacts ==
    /\ \A A, d : First(d) \notin A \X Slots
    /\ \A A \in SUBSET TBs : A \X Slots \subseteq JmpFields
    /\ \A A \in SUBSET TBs : A \X Slots \subseteq JmpSlots
    /\ \A d \in TBs : First(d) \in JmpFields
    /\ \A d, e : First(d) = First(e) => d = e
    /\ NULL \notin JmpFields /\ NULL \notin JmpSlots
<1>1. NULL \notin JmpFields /\ NULL \notin JmpSlots
  BY CacheAssumption DEF JmpFields, JmpSlots, Slots
<1> QED
  BY <1>1 DEF First, Slots, JmpFields, JmpSlots

(* No field of a list is NULL. *)
LEMMA MembersNotNull ==
    ASSUME NEW A \in SUBSET TBs, NEW j, NEW tg, Rings(A, j, tg), NEW d \in A,
           NEW f \in Members(A, j, tg, d)
    PROVE  /\ f \in JmpFields /\ j[f] \in Members(A, j, tg, d)
           /\ j[f] \in JmpFields /\ j[f] # NULL
<1>1. j[f] \in Members(A, j, tg, d)
  BY DEF Rings, IsRing, Closed
<1>2. \A g \in Members(A, j, tg, d) : g \in JmpFields
  BY FieldFacts DEF Members, Jumpers
<1> QED
  BY <1>1, <1>2, FieldFacts

(* In k, field f has been pushed on the list of j that starts at h. *)
Pushed(j, k, f, h) == k = [j EXCEPT ![f] = j[h], ![h] = f]

(* In k, field f has been taken off the list of j, where it came after p. *)
Dropped(j, k, f, p) == k = [j EXCEPT ![p] = j[f], ![f] = NULL]

(* The jumps of slots other than f go where they went. *)
SameTargets(A, tg, tk, f) == \A g \in A \X Slots : g # f => tk[g] = tg[g]

(* The slots other than f are chained as before. *)
SameChained(A, j, k, f) == \A g \in A \X Slots : g # f => (k[g] = NULL <=> j[g] = NULL)

(* Pushing an unchained slot f on the list of d. *)
LEMMA RingsInsert ==
    ASSUME NEW A \in SUBSET TBs, NEW j \in JmpFunction, NEW tg, NEW k, NEW tk,
           Rings(A, j, tg), NEW f \in A \X Slots, NEW d \in A, j[f] = NULL,
           Pushed(j, k, f, First(d)), tk[f] = d, SameTargets(A, tg, tk, f)
    PROVE  /\ k \in JmpFunction
           /\ Rings(A, k, tk)
           /\ SameChained(A, j, k, f)
<1> USE DEF SameTargets, SameChained
<1>0. /\ f \in JmpFields /\ First(d) \in JmpFields /\ f # First(d) /\ d \in TBs
      /\ A \X Slots \subseteq JmpFields
  BY FieldFacts
<1>1. j[First(d)] # NULL /\ j[First(d)] \in JmpFields
  <2>1. First(d) \in Members(A, j, tg, d)
    BY DEF Members
  <2> QED
    BY <2>1, MembersNotNull
<1>2. /\ k \in JmpFunction /\ k[f] = j[First(d)] /\ k[First(d)] = f
      /\ \A g \in JmpFields : g # f /\ g # First(d) => k[g] = j[g]
  BY <1>0, <1>1 DEF JmpFunction, Pushed
<1>3. \A g \in A \X Slots : g # f => g \in JmpFields /\ g # First(d) /\ k[g] = j[g]
  BY <1>0, <1>2, FieldFacts
<1>4. k[f] # NULL /\ f \notin Members(A, j, tg, d)
  BY <1>0, <1>1, <1>2 DEF Members, Jumpers
<1>5. IsRing(k, Members(A, k, tk, d), First(d))
  <2>1. IsRing(j, Members(A, j, tg, d), First(d))
    BY DEF Rings
  <2>2. \A g \in Members(A, j, tg, d) \ {First(d)} : k[g] = j[g]
    BY <1>2, <1>4, MembersNotNull
  <2>3. Jumpers(A, k, tk, d) = Jumpers(A, j, tg, d) \cup {f}
    BY <1>3, <1>4 DEF Jumpers
  <2>4. Members(A, k, tk, d) = Members(A, j, tg, d) \cup {f}
    BY <2>3 DEF Members
  <2> QED
    BY <1>2, <1>4, <2>1, <2>2, <2>4, RingInsert
<1>6. ASSUME NEW e \in A, e # d PROVE IsRing(k, Members(A, k, tk, e), First(e))
  <2>1. Jumpers(A, k, tk, e) = Jumpers(A, j, tg, e)
    BY <1>3, <1>6 DEF Jumpers
  <2>2. Members(A, k, tk, e) = Members(A, j, tg, e)
    BY <2>1 DEF Members
  <2>3. First(e) # First(d) /\ First(e) # f /\ First(e) \in JmpFields
    BY <1>6, FieldFacts
  <2>4. \A g \in Members(A, j, tg, e) : k[g] = j[g]
    BY <1>2, <1>3, <2>3 DEF Members, Jumpers
  <2>5. IsRing(j, Members(A, j, tg, e), First(e))
    BY DEF Rings
  <2> QED
    BY <2>2, <2>4, <2>5, RingFrame
<1>7. \A g \in A \X Slots : g # f => (k[g] = NULL <=> j[g] = NULL)
  BY <1>3
<1>8. \A g \in A \X Slots : k[g] # NULL => tk[g] \in A
  <2>1. \A g \in A \X Slots : j[g] # NULL => tg[g] \in A
    BY DEF Rings
  <2> QED
    BY <1>7, <2>1
<1> QED
  BY <1>2, <1>5, <1>6, <1>7, <1>8 DEF Rings

(* Taking slot f, which p leads to, off the list it is on. *)
LEMMA RingsRemove ==
    ASSUME NEW A \in SUBSET TBs, NEW j \in JmpFunction, NEW tg, NEW k, NEW tk,
           Rings(A, j, tg), NEW f \in A \X Slots, NEW p \in A \X (0 .. 2),
           j[f] # NULL, j[p] = f, Dropped(j, k, f, p),
           SameTargets(A, tg, tk, f)
    PROVE  /\ k \in JmpFunction /\ k[f] = NULL
           /\ Rings(A, k, tk)
           /\ SameChained(A, j, k, f)
<1> USE DEF SameTargets, SameChained
<1> DEFINE d == tg[f]
<1>0. /\ f \in JmpFields /\ p \in JmpFields /\ A \X Slots \subseteq JmpFields
      /\ d \in A /\ f \in Members(A, j, tg, d) /\ f # First(d)
  BY FieldFacts DEF JmpFields, Rings, Members, Jumpers
<1>1. p \in Members(A, j, tg, d)
  <2>1. CASE p[2] = 2
    <3>1. p = First(p[1]) /\ p[1] \in A
      BY <2>1 DEF First
    <3>2. f \in Members(A, j, tg, p[1])
      BY <3>1, MembersNotNull DEF Members
    <3>3. p[1] = d
      BY <3>2, FieldFacts DEF Members, Jumpers
    <3> QED
      BY <3>1, <3>3 DEF Members
  <2>2. CASE p[2] # 2
    <3>1. p \in A \X Slots /\ j[p] # NULL
      BY <2>2, <1>0, FieldFacts DEF Slots
    <3>2. tg[p] \in A /\ p \in Members(A, j, tg, tg[p])
      BY <3>1 DEF Rings, Members, Jumpers
    <3>3. f \in Members(A, j, tg, tg[p])
      BY <3>2, MembersNotNull
    <3>4. tg[p] = d
      BY <3>3, FieldFacts DEF Members, Jumpers
    <3> QED
      BY <3>2, <3>4
  <2> QED
    BY <2>1, <2>2
<1>2. j[f] \in JmpFields /\ IsRing(j, Members(A, j, tg, d), First(d))
  BY <1>0, MembersNotNull DEF Rings
<1> HIDE DEF d
<1>3. p # f /\ IsRing([j EXCEPT ![p] = j[f]], Members(A, j, tg, d) \ {f}, First(d))
  <2> DEFINE i == [j EXCEPT ![p] = j[f]]
  <2>1. i[p] = j[f] /\ \A g \in Members(A, j, tg, d) \ {f, p} : i[g] = j[g]
    BY <1>0, MembersNotNull DEF JmpFunction
  <2> HIDE DEF i
  <2>2. p # f /\ IsRing(i, Members(A, j, tg, d) \ {f}, First(d))
    BY <1>0, <1>1, <1>2, <2>1, RingRemove
  <2> QED
    BY <2>2 DEF i
<1>4. /\ k \in JmpFunction /\ k[f] = NULL /\ k[p] = j[f]
      /\ \A g \in JmpFields : g # f /\ g # p => k[g] = j[g]
  BY <1>0, <1>2, <1>3 DEF JmpFunction, Dropped
<1>5. \A g \in A \X Slots : g # f => (k[g] = NULL <=> j[g] = NULL)
  BY <1>0, <1>2, <1>4, FieldFacts
<1>6. Members(A, k, tk, d) = Members(A, j, tg, d) \ {f}
  <2>1. Jumpers(A, k, tk, d) = Jumpers(A, j, tg, d) \ {f}
    BY <1>4, <1>5 DEF Jumpers
  <2> QED
    BY <1>0, <2>1 DEF Members
<1>7. IsRing(k, Members(A, k, tk, d), First(d))
  <2>1. \A g \in Members(A, j, tg, d) : g \in JmpFields
    BY <1>0, MembersNotNull
  <2>2. \A g \in Members(A, j, tg, d) \ {f} : k[g] = [j EXCEPT ![p] = j[f]][g]
    BY <1>0, <1>4, <2>1 DEF JmpFunction
  <2> DEFINE i == [j EXCEPT ![p] = j[f]]
             M == Members(A, j, tg, d) \ {f}
  <2>3. IsRing(i, M, First(d)) /\ \A g \in M : k[g] = i[g]
    BY <1>3, <2>2
  <2> HIDE DEF i, M
  <2>4. IsRing(k, M, First(d))
    BY <2>3, RingFrame
  <2> QED
    BY <1>6, <2>4 DEF M
<1>8. ASSUME NEW e \in A, e # d PROVE IsRing(k, Members(A, k, tk, e), First(e))
  <2>0. tg[f] = d
    BY DEF d
  <2>1. Jumpers(A, k, tk, e) = Jumpers(A, j, tg, e)
    BY <1>4, <1>5, <1>8, <2>0 DEF Jumpers
  <2>2. Members(A, k, tk, e) = Members(A, j, tg, e)
    BY <2>1 DEF Members
  <2>3. f \notin Members(A, j, tg, e) /\ p \notin Members(A, j, tg, e)
    BY <1>0, <1>1, <1>8, <2>0, FieldFacts DEF Members, Jumpers
  <2>4. \A g \in Members(A, j, tg, e) : k[g] = j[g]
    BY <1>4, <2>3, MembersNotNull
  <2>5. IsRing(j, Members(A, j, tg, e), First(e))
    BY DEF Rings
  <2> QED
    BY <2>2, <2>4, <2>5, RingFrame
<1>9. \A g \in A \X Slots : k[g] # NULL => tk[g] \in A
  <2>1. \A g \in A \X Slots : j[g] # NULL => tg[g] \in A
    BY DEF Rings
  <2> QED
    BY <1>4, <1>5, <2>1
<1> QED
  BY <1>4, <1>5, <1>7, <1>8, <1>9 DEF Rings, d

-----------------------------------------------------------------------------
(* The jumps, action by action. *)

LEMMA AllocFacts ==
    ASSUME Inv
    PROVE  /\ nb_tbs \in Nat /\ nb_tbs <= MaxBlocks /\ MaxBlocks \in Nat
           /\ Alloc \in SUBSET TBs /\ htable \subseteq Alloc
           /\ \A x \in Alloc : Written(x)
           /\ jmp \in JmpFunction
           /\ target \in [JmpSlots -> TBs \cup {NULL}]
           /\ op \in OpRecord \cup {NULL} /\ NULL \notin OpRecord
<1>1. /\ nb_tbs \in Nat /\ nb_tbs <= MaxBlocks /\ MaxBlocks \in Nat
      /\ jmp \in JmpFunction /\ target \in [JmpSlots -> TBs \cup {NULL}]
      /\ op \in OpRecord \cup {NULL}
  BY CacheAssumption DEF Inv, CacheInv, CacheTypeOK, JmpFunction
<1>2. Alloc \in SUBSET TBs
  BY <1>1 DEF Alloc, TBs
<1>3. htable \subseteq Alloc /\ \A x \in Alloc : Written(x)
  BY DEF Inv, LayoutInv, CodeLayout, Alloc
<1> QED
  BY <1>1, <1>2, <1>3, OpAssumption

(* tb_remove_from_jmp_list finds the slot before the one it removes. *)
LEMMA RemoveFromJmpListRings ==
    ASSUME Alloc \in SUBSET TBs, NEW j \in JmpFunction, NEW tg, Rings(Alloc, j, tg),
           NEW t \in Alloc, NEW n \in Slots
    PROVE  LET k == RemoveFromJmpList(j, t, n)
           IN  /\ k \in JmpFunction /\ Rings(Alloc, k, tg) /\ k[<<t, n>>] = NULL
               /\ \A g \in Alloc \X Slots : g # <<t, n>> => (k[g] = NULL <=> j[g] = NULL)
<1> DEFINE f == <<t, n>>
           k == RemoveFromJmpList(j, t, n)
<1>0. f \in Alloc \X Slots
  OBVIOUS
<1>1. CASE j[f] = NULL
  <2>1. k = j
    BY <1>1 DEF RemoveFromJmpList
  <2> QED
    BY <1>1, <2>1
<1>2. CASE j[f] # NULL
  <2> DEFINE p == CHOOSE q \in (0 .. nb_tbs - 1) \X (0 .. 2) : j[q] = f
  <2>1. Dropped(j, k, f, p)
    BY <1>2 DEF RemoveFromJmpList, Dropped
  <2> HIDE DEF k, f
  <2>2. tg[f] \in Alloc /\ f \in Members(Alloc, j, tg, tg[f]) /\ f # First(tg[f])
    BY <1>0, <1>2, FieldFacts DEF Rings, Members, Jumpers
  <2>3. IsRing(j, Members(Alloc, j, tg, tg[f]), First(tg[f]))
    BY <2>2 DEF Rings
  <2>4. PICK q \in Members(Alloc, j, tg, tg[f]) : j[q] = f
    BY <2>2, <2>3, RingPredecessor
  <2>5. q \in Alloc \X (0 .. 2)
    BY <2>2, <2>4 DEF Members, Jumpers, First, Slots
  <2>6. p \in Alloc \X (0 .. 2) /\ j[p] = f
    BY <2>4, <2>5 DEF Alloc
  <2> HIDE DEF p
  <2>7. SameTargets(Alloc, tg, tg, f)
    BY DEF SameTargets
  <2>8. /\ k \in JmpFunction /\ k[f] = NULL /\ Rings(Alloc, k, tg)
        /\ SameChained(Alloc, j, k, f)
    BY <1>0, <1>2, <2>1, <2>6, <2>7, RingsRemove
  <2> QED
    BY <2>8 DEF f, k, SameChained
<1> QED
  BY <1>1, <1>2

(* No slot jumps to a TB whose list is empty. *)
LEMMA EmptyRing ==
    ASSUME NEW A \in SUBSET TBs, NEW j, NEW tg, Rings(A, j, tg), NEW d \in A, j[First(d)][2] = 2
    PROVE  \A f \in A \X Slots : j[f] # NULL => tg[f] # d
<1>1. First(d) \in Members(A, j, tg, d)
  BY DEF Members
<1>2. j[First(d)] \in Members(A, j, tg, d)
  BY <1>1, MembersNotNull
<1>3. j[First(d)] = First(d)
  BY <1>2 DEF Members, Jumpers, Slots
<1>4. Closed(j, {First(d)})
  BY <1>3 DEF Closed
<1>5. {First(d)} = Members(A, j, tg, d)
  BY <1>1, <1>4 DEF Rings, IsRing
<1> QED
  BY <1>5, FieldFacts DEF Members, Jumpers

LEMMA ChainJumps ==
    ASSUME Inv, NEW t \in htable, NEW d \in htable, NEW n \in Slots, Chain(t, n, d)
    PROVE  RingsInv' /\ JumpsInv'
<1>0. /\ Alloc' = Alloc /\ Unlinking' = Unlinking /\ htable' = htable
      /\ TbAddJump(t, n, d)
  BY DEF Chain, Alloc, Unlinking, Idle
<1>1. CASE Chained(t, n)
  <2>1. jmp' = jmp /\ target' = target
    BY <1>0, <1>1 DEF TbAddJump, jmpVars
  <2> QED
    BY <1>0, <2>1 DEF Inv, RingsInv, JumpsInv
<1>2. CASE ~ Chained(t, n)
  <2> DEFINE f == <<t, n>>
  <2>1. /\ Pushed(jmp, jmp', f, First(d)) /\ target' = [target EXCEPT ![f] = d]
        /\ jmp[f] = NULL
    BY <1>0, <1>2 DEF TbAddJump, TbSetJmpTarget, Pushed, Chained
  <2>2. /\ Alloc \in SUBSET TBs /\ t \in Alloc /\ d \in Alloc /\ jmp \in JmpFunction
        /\ f \in Alloc \X Slots /\ f[1] = t
    BY AllocFacts
  <2> HIDE DEF f
  <2>3. /\ target'[f] = d
        /\ \A g \in Alloc \X Slots : g # f => target'[g] = target[g]
    BY <2>1, <2>2, AllocFacts, FieldFacts
  <2>4. Rings(Alloc, jmp, target)
    BY DEF Inv, RingsInv
  <2>5. /\ Rings(Alloc, jmp', target')
        /\ \A g \in Alloc \X Slots : g # f => (jmp'[g] = NULL <=> jmp[g] = NULL)
    <3>1. SameTargets(Alloc, target, target', f) /\ target'[f] = d
      BY <2>3 DEF SameTargets
    <3>2. Rings(Alloc, jmp', target') /\ SameChained(Alloc, jmp, jmp', f)
      BY <2>1, <2>2, <3>1, <2>4, RingsInsert
    <3> QED
      BY <3>2 DEF SameChained
  <2>6. jmp'[f] # NULL
    <3>1. First(d) \in Members(Alloc, jmp, target, d)
      BY DEF Members
    <3>2. jmp[First(d)] # NULL
      BY <2>2, <2>4, <3>1, MembersNotNull
    <3>3. f \in JmpFields /\ f # First(d) /\ First(d) \in JmpFields
      BY <2>2, FieldFacts
    <3> QED
      BY <2>1, <2>2, <3>2, <3>3 DEF Pushed, JmpFunction
  <2>7. htable \subseteq Alloc
    BY AllocFacts
  <2>8. JumpsInv'
    BY <1>0, <2>2, <2>3, <2>5, <2>6, <2>7 DEF Inv, JumpsInv
  <2> QED
    BY <1>0, <2>5, <2>8 DEF RingsInv
<1> QED
  BY <1>1, <1>2

(* tb_phys_invalidate takes the slots of t off the lists; those of the     *)
(* others stay, and the ones that lead to t are left to tb_jmp_unlink.     *)
LEMMA TbPhysInvalidateJumps ==
    ASSUME Inv, NEW t \in htable, NEW skip, TbPhysInvalidate(t, skip),
           Unlinking = {}, op' # NULL, op'.unlink = t
    PROVE  RingsInv' /\ JumpsInv' /\ jmp' \in JmpFunction
<1> DEFINE i == RemoveFromJmpList(jmp, t, 0)
<1>0. /\ Alloc \in SUBSET TBs /\ t \in Alloc /\ jmp \in JmpFunction /\ 0 \in Slots /\ 1 \in Slots
      /\ htable \subseteq Alloc
  BY AllocFacts DEF Slots
<1>1. /\ Alloc' = Alloc /\ htable' = htable \ {t} /\ target' = target
      /\ jmp' = RemoveFromJmpList(i, t, 1)
  BY DEF TbPhysInvalidate, Alloc
<1>2. Unlinking' = {t}
  BY <1>0, <1>1 DEF Unlinking, Idle
<1>3. Rings(Alloc, jmp, target)
  BY DEF Inv, RingsInv
<1>4. /\ i \in JmpFunction /\ Rings(Alloc, i, target) /\ i[<<t, 0>>] = NULL
      /\ \A g \in Alloc \X Slots : g # <<t, 0>> => (i[g] = NULL <=> jmp[g] = NULL)
  BY <1>0, <1>3, RemoveFromJmpListRings
<1> HIDE DEF i
<1>5. /\ Rings(Alloc, jmp', target) /\ jmp'[<<t, 1>>] = NULL /\ jmp' \in JmpFunction
      /\ \A g \in Alloc \X Slots : g # <<t, 1>> => (jmp'[g] = NULL <=> i[g] = NULL)
  BY <1>0, <1>1, <1>4, RemoveFromJmpListRings
<1>6. ASSUME NEW f \in Alloc \X Slots
      PROVE  IF f[1] = t THEN jmp'[f] = NULL ELSE jmp'[f] = NULL <=> jmp[f] = NULL
  <2>1. f[1] = t => f = <<t, 0>> \/ f = <<t, 1>>
    BY DEF Slots
  <2>2. <<t, 0>> # <<t, 1>> /\ <<t, 0>> \in Alloc \X Slots
    BY <1>0
  <2>3. f[1] # t => f # <<t, 0>> /\ f # <<t, 1>>
    OBVIOUS
  <2> QED
    BY <1>4, <1>5, <2>1, <2>2, <2>3
<1>7. JumpsInv'
  <2>1. ASSUME NEW f \in Alloc \X Slots, jmp'[f] # NULL
        PROVE  f[1] \in htable \ {t} /\ target[f] \in (htable \ {t}) \cup {t}
    BY <1>6, <2>1 DEF Inv, JumpsInv
  <2>2. ASSUME NEW f \in (htable \ {t}) \X Slots, target[f] # NULL PROVE jmp'[f] # NULL
    <3>1. f \in htable \X Slots /\ f \in Alloc \X Slots /\ f[1] # t
      BY <1>0
    <3> QED
      BY <1>6, <2>2, <3>1 DEF Inv, JumpsInv
  <2> QED
    BY <1>1, <1>2, <2>1, <2>2 DEF JumpsInv
<1> QED
  BY <1>1, <1>5, <1>7 DEF RingsInv

LEMMA UnlinkJumpJumps ==
    ASSUME Inv, UnlinkJump
    PROVE  /\ RingsInv' /\ JumpsInv' /\ jmp' \in JmpFunction
           /\ \E f : target' = [target EXCEPT ![f] = NULL]
           /\ stray' \in SUBSET TBs
<1> DEFINE u == op.unlink
           f == jmp[First(u)]
<1>1. /\ Alloc' = Alloc /\ Unlinking' = Unlinking /\ htable' = htable
      /\ ~ Idle /\ u # NULL /\ f[2] # 2
      /\ target' = [target EXCEPT ![<<f[1], f[2]>>] = NULL]
      /\ Dropped(jmp, jmp', f, First(u))
  BY DEF UnlinkJump, TbResetJump, TbSetJmpTarget, Dropped, Alloc, Unlinking, Idle
<1>2. /\ Alloc \in SUBSET TBs /\ u \in Alloc /\ jmp \in JmpFunction
      /\ htable \subseteq Alloc /\ u \notin htable
  BY <1>1, AllocFacts DEF Inv, LoopInv
<1> HIDE DEF f, u
<1>3. Rings(Alloc, jmp, target) /\ f = jmp[First(u)]
  BY DEF Inv, RingsInv, f
<1>4. f \in Members(Alloc, jmp, target, u)
  <2>1. First(u) \in Members(Alloc, jmp, target, u)
    BY DEF Members
  <2> QED
    BY <1>2, <1>3, <2>1, MembersNotNull
<1>5. f \in Alloc \X Slots /\ jmp[f] # NULL /\ f = <<f[1], f[2]>>
  BY <1>1, <1>4 DEF Members, Jumpers, First
<1>6. /\ \A g \in Alloc \X Slots : g # f => target'[g] = target[g]
      /\ target'[f] = NULL
  BY <1>1, <1>2, <1>5, AllocFacts, FieldFacts
<1>7. First(u) \in Alloc \X (0 .. 2) /\ SameTargets(Alloc, target, target', f)
  BY <1>2, <1>6 DEF First, SameTargets
<1>8. /\ Rings(Alloc, jmp', target') /\ SameChained(Alloc, jmp, jmp', f) /\ jmp'[f] = NULL
      /\ jmp' \in JmpFunction
  BY <1>1, <1>2, <1>3, <1>5, <1>7, RingsRemove
<1>9. JumpsInv'
  BY <1>1, <1>2, <1>6, <1>8 DEF Inv, JumpsInv, SameChained
<1>10. stray' \in SUBSET TBs
  <2>1. stray' \in {stray, stray \cup {f[1]}} /\ stray \in SUBSET TBs
    BY DEF UnlinkJump, TbResetJump, TbSetJmpTarget, Inv, CacheInv, CacheTypeOK, f, u
  <2> QED
    BY <1>2, <1>5, <2>1
<1> QED
  BY <1>1, <1>8, <1>9, <1>10 DEF RingsInv

LEMMA UnlinkDoneJumps == ASSUME Inv, UnlinkDone PROVE RingsInv' /\ JumpsInv'
<1> DEFINE u == op.unlink
<1>1. /\ Alloc' = Alloc /\ htable' = htable /\ jmp' = jmp /\ target' = target
      /\ ~ Idle /\ u # NULL /\ jmp[First(u)][2] = 2
  BY DEF UnlinkDone, Alloc, cacheVars, jmpVars
<1>2. Alloc \in SUBSET TBs /\ u \in Alloc /\ Rings(Alloc, jmp, target)
  BY <1>1, AllocFacts DEF Inv, LoopInv, RingsInv
<1>3. \A f \in Alloc \X Slots : jmp[f] # NULL => target[f] # u
  BY <1>1, <1>2, EmptyRing
<1>4. Unlinking = {u}
  BY <1>1, <1>2 DEF Unlinking
<1>5. JumpsInv'
  BY <1>1, <1>3, <1>4 DEF Inv, JumpsInv
<1> QED
  BY <1>1, <1>2, <1>5 DEF RingsInv

(* A new TB starts with an empty list and unchained slots. *)
LEMMA GenerateJumps ==
    ASSUME Inv, NEW c \in Cpus, NEW k \in Keys, Generate(c, k)
    PROVE  RingsInv' /\ JumpsInv'
<1> DEFINE t == nb_tbs
           A == Alloc
           B == Alloc'
<1>0. CacheInv /\ neon_icount(k) \in 1 .. MaxInsns /\ TbGenCode(k, neon_icount(k)) /\ Idle
      /\ op' = op
  BY NeonIcountType DEF Inv, Generate
<1>1. /\ nb_tbs' = nb_tbs + 1 /\ t \in TBs /\ htable' = htable \cup {t}
      /\ jmp' = [jmp EXCEPT ![First(t)] = First(t), ![<<t, 0>>] = NULL, ![<<t, 1>>] = NULL]
      /\ target' = [target EXCEPT ![<<t, 0>>] = NULL, ![<<t, 1>>] = NULL]
  BY <1>0, TbGenCodeEntry DEF TbGenCode, TbInitJumps
<1>2. /\ A \in SUBSET TBs /\ t \notin A /\ B = A \cup {t} /\ htable \subseteq A
      /\ jmp \in JmpFunction /\ target \in [JmpSlots -> TBs \cup {NULL}]
  BY <1>1, AllocFacts DEF Alloc
<1>3. Unlinking = {} /\ Unlinking' = {}
  BY <1>0 DEF Unlinking, Idle
<1> HIDE DEF t, A, B
<1>4. /\ \A f \in A \X (0 .. 2) : jmp'[f] = jmp[f]
      /\ \A f \in A \X Slots : jmp'[f] = jmp[f] /\ target'[f] = target[f]
      /\ jmp'[First(t)] = First(t) /\ jmp'[<<t, 0>>] = NULL /\ jmp'[<<t, 1>>] = NULL
      /\ target'[<<t, 0>>] = NULL /\ target'[<<t, 1>>] = NULL
  BY <1>1, <1>2 DEF JmpFunction, JmpFields, JmpSlots, First, Slots
<1>5. \A f \in B \X Slots : f \in A \X Slots \/ f = <<t, 0>> \/ f = <<t, 1>>
  BY <1>2 DEF Slots
<1>6. Rings(A, jmp, target)
  BY DEF Inv, RingsInv, A
<1>7. \A d : Jumpers(B, jmp', target', d) = Jumpers(A, jmp, target, d)
  BY <1>2, <1>4, <1>5 DEF Jumpers
<1>8. ASSUME NEW d \in A PROVE IsRing(jmp', Members(B, jmp', target', d), First(d))
  <2>1. Members(B, jmp', target', d) = Members(A, jmp, target, d)
    BY <1>7 DEF Members
  <2>2. \A f \in Members(A, jmp, target, d) : jmp'[f] = jmp[f]
    BY <1>4 DEF Members, Jumpers, First, Slots
  <2>3. IsRing(jmp, Members(A, jmp, target, d), First(d))
    BY <1>6 DEF Rings
  <2> QED
    BY <2>1, <2>2, <2>3, RingFrame
<1>9. IsRing(jmp', Members(B, jmp', target', t), First(t))
  <2>1. Jumpers(A, jmp, target, t) = {}
    BY <1>2, <1>6 DEF Jumpers, Rings
  <2>2. Members(B, jmp', target', t) = {First(t)}
    BY <1>7, <2>1 DEF Members
  <2> QED
    BY <1>4, <2>2, RingNew
<1>10. \A f \in B \X Slots : jmp'[f] # NULL => target'[f] \in B
  BY <1>2, <1>4, <1>5, <1>6 DEF Rings
<1>11. Rings(B, jmp', target')
  BY <1>2, <1>8, <1>9, <1>10 DEF Rings
<1>12. JumpsInv'
  <2>1. ASSUME NEW f \in B \X Slots, jmp'[f] # NULL
        PROVE  f[1] \in htable \cup {t} /\ target'[f] \in htable \cup {t}
    BY <1>3, <1>4, <1>5, <2>1 DEF Inv, JumpsInv, A
  <2>2. ASSUME NEW f \in (htable \cup {t}) \X Slots, target'[f] # NULL PROVE jmp'[f] # NULL
    <3>1. f \in htable \X Slots
      BY <1>4, <2>2 DEF Slots
    <3> QED
      BY <1>2, <1>4, <2>2, <3>1 DEF Inv, JumpsInv
  <2> QED
    BY <1>1, <1>3, <2>1, <2>2 DEF JumpsInv, B
<1> QED
  BY <1>11, <1>12 DEF RingsInv, B

(* tb_free gives back an entry that no list mentions any more. *)
LEMMA TbFreeJumps ==
    ASSUME Inv, NEW t \in TBs, TbFree(t)
    PROVE  RingsInv' /\ JumpsInv'
<1> DEFINE A == Alloc
           B == Alloc'
<1>1. /\ t = nb_tbs - 1 /\ nb_tbs' = nb_tbs - 1 /\ t \notin htable /\ Idle
      /\ jmp' = jmp /\ target' = target /\ htable' = htable /\ op' = op
  BY DEF TbFree, LastTB, jmpVars
<1>2. A \in SUBSET TBs /\ B = A \ {t} /\ htable \subseteq A
  BY <1>1, AllocFacts DEF Alloc, TBs
<1>3. Unlinking = {} /\ Unlinking' = {}
  BY <1>1 DEF Unlinking, Idle
<1>4. Rings(A, jmp, target)
  BY DEF Inv, RingsInv
<1>5. \A f \in A \X Slots : jmp[f] # NULL => f[1] \in htable /\ target[f] \in htable
  BY <1>3 DEF Inv, JumpsInv
<1> HIDE DEF A, B
<1>6. \A d : Jumpers(B, jmp, target, d) = Jumpers(A, jmp, target, d)
  BY <1>1, <1>2, <1>5 DEF Jumpers
<1>7. Rings(B, jmp, target)
  <2>1. \A d : Members(B, jmp, target, d) = Members(A, jmp, target, d)
    BY <1>6 DEF Members
  <2>2. \A f \in B \X Slots : jmp[f] # NULL => target[f] \in B
    BY <1>1, <1>2, <1>5
  <2> QED
    BY <1>2, <1>4, <2>1, <2>2 DEF Rings
<1>8. JumpsInv'
  BY <1>1, <1>2, <1>3, <1>5 DEF Inv, JumpsInv, B
<1> QED
  BY <1>1, <1>7, <1>8 DEF RingsInv, B

LEMMA FlushJumps == ASSUME Inv, NEW k \in Keys, Flush(k) PROVE RingsInv' /\ JumpsInv'
<1>1. nb_tbs' = 0 /\ htable' = {}
  BY DEF Flush, TbFlush
<1>2. Alloc' = {}
  BY <1>1 DEF Alloc
<1> QED
  BY <1>1, <1>2 DEF RingsInv, JumpsInv, Rings

(* A step that changes no jump and no TB, and no unlinking. *)
LEMMA JumpsFrame ==
    ASSUME Inv, UNCHANGED <<nb_tbs, htable, jmp, target>>, Unlinking' = Unlinking
    PROVE  RingsInv' /\ JumpsInv'
<1>1. Alloc' = Alloc
  BY DEF Alloc
<1> QED
  BY <1>1 DEF Inv, RingsInv, JumpsInv

-----------------------------------------------------------------------------
(* The variables of an invalidation, and the types of what it changes. *)

(* The loop variables with a new list entry and a new TB to unlink. *)
OpWith(o, f, u) == [o EXCEPT !.tb = f, !.unlink = u]

LEMMA OpWithType ==
    ASSUME NEW o \in OpRecord, NEW f \in JmpSlots \cup {NULL}, NEW u \in TBs \cup {NULL}
    PROVE  LET n == OpWith(o, f, u)
           IN  /\ n \in OpRecord /\ n # NULL
               /\ n.kind = o.kind /\ n.from = o.from /\ n.start = o.start /\ n.end = o.end
               /\ n.page = o.page /\ n.tb = f /\ n.unlink = u
<1>1. OpWith(o, f, u) \in OpRecord
  BY DEF OpWith, OpRecord
<1> QED
  BY <1>1, OpAssumption DEF OpWith, OpRecord

LEMMA PageLinkAt ==
    ASSUME NEW h, NEW x
    PROVE  /\ PageLink(h, x)[NULL] = h
           /\ \A f \in JmpSlots : PageLink(h, x)[f] = x[f]
BY FieldFacts DEF PageLink

(* The entry that a loop is at is on the list of the page. *)
LEMMA AtEntry ==
    ASSUME Inv, ~ Idle, op.kind \in {"range", "page"}
    PROVE  /\ op \in OpRecord
           /\ op.tb \in JmpSlots \cup {NULL}
           /\ op.tb # NULL => /\ op.tb[1] \in htable /\ op.tb \in JmpSlots
                              /\ op.tb = <<op.tb[1], op.tb[2]>>
           /\ op.kind = "range" => op.tb \in OnPage(PageOf(op.start)) \cup {NULL}
           /\ op.kind = "page" => op.page \in Pages /\ op.tb \in OnPage(op.page) \cup {NULL}
<1>1. op \in OpRecord /\ op.tb \in JmpSlots \cup {NULL}
  BY AllocFacts DEF Idle, OpRecord
<1>2. op.kind = "range" => op.tb \in OnPage(PageOf(op.start)) \cup {NULL}
  BY DEF Inv, LoopInv
<1>3. ASSUME op.kind = "page" PROVE op.page \in Pages /\ op.tb \in OnPage(op.page) \cup {NULL}
  <2>1. op.page \in Pages /\ HeadOf(op.page) = op.tb
    BY <1>3 DEF Inv, LoopInv, HeadOf
  <2>2. IsPageList(op.tb, page_next, OnPage(op.page))
    BY <2>1 DEF Inv, PagesInv
  <2>3. PageLink(op.tb, page_next)[NULL] = op.tb
    BY PageLinkAt
  <2>4. PageLink(op.tb, page_next)[NULL] \in OnPage(op.page) \cup {NULL}
    BY <2>2 DEF IsPageList, IsRing, Closed
  <2> QED
    BY <2>1, <2>3, <2>4
<1>4. op.tb # NULL => op.tb[1] \in htable /\ op.tb = <<op.tb[1], op.tb[2]>>
  BY <1>2, <1>3 DEF OnPage
<1> QED
  BY <1>1, <1>2, <1>3, <1>4

-----------------------------------------------------------------------------
(* The page lists. *)

HeadsType == [Pages -> JmpSlots \cup {NULL}]
NextsType == [JmpSlots -> JmpSlots \cup {NULL}]

LEMMA PagesType == \A p \in Pages : p \in Nat /\ p # -1
<1> SUFFICES ASSUME NEW k \in Keys, NEW d \in 0 .. MaxInsns * InsnSize - 1
             PROVE  PageOf(k.pc + d) \in Nat
  BY DEF Pages
<1>1. k.pc + d \in Nat
  BY GuestAssumption, MaxInsnsType DEF InsnSize
<1> QED
  BY <1>1, PageOfBounds

(* The pages of a TB are two different ones, or one. *)
LEMMA PageAddrFacts ==
    ASSUME NEW b, WellFormed(b)
    PROVE  /\ page_addr(b, 0) \in Pages /\ page_addr(b, 1) \in Pages \cup {-1}
           /\ page_addr(b, 0) # page_addr(b, 1)
           /\ \A m, n \in Slots : page_addr(b, m) = page_addr(b, n) => m = n
<1>1. page_addr(b, 0) \in Pages /\ page_addr(b, 1) \in Pages \cup {-1}
  BY PageAddrType DEF WellFormed, TBRecord
<1>2. page_addr(b, 0) # page_addr(b, 1)
  BY <1>1, PagesType DEF page_addr
<1> QED
  BY <1>1, <1>2 DEF Slots

(* An entry of the array in use is on at most one page list per field. *)
LEMMA OnPageFacts ==
    ASSUME Inv
    PROVE  /\ \A p : OnPage(p) \subseteq JmpSlots
           /\ \A p : NULL \notin OnPage(p)
           /\ \A p, q : p # q => OnPage(p) \cap OnPage(q) = {}
           /\ \A t \in htable : WellFormed(tbs[t])
           /\ \A p \in Pages : \A f, g \in OnPage(p) : f[1] = g[1] => f = g
<1>1. \A t \in htable : WellFormed(tbs[t]) /\ t \in TBs
  BY AllocFacts DEF Written
<1>2. \A p, f : f \in OnPage(p) <=> f \in htable \X Slots /\ page_addr(tbs[f[1]], f[2]) = p
  BY DEF OnPage
<1>3. \A p : OnPage(p) \subseteq JmpSlots
  BY <1>1, <1>2 DEF JmpSlots
<1>4. \A p : NULL \notin OnPage(p)
  BY <1>3, FieldFacts
<1>5. ASSUME NEW p \in Pages, NEW f \in OnPage(p), NEW g \in OnPage(p), f[1] = g[1]
      PROVE  f = g
  <2>1. /\ f \in htable \X Slots /\ page_addr(tbs[f[1]], f[2]) = p
        /\ g \in htable \X Slots /\ page_addr(tbs[g[1]], g[2]) = p
    BY <1>2
  <2>2. WellFormed(tbs[f[1]]) /\ f[2] \in Slots /\ g[2] \in Slots
    BY <1>1, <2>1
  <2>3. f[2] = g[2]
    BY <1>5, <2>1, <2>2, PageAddrFacts
  <2> QED
    BY <1>5, <2>1, <2>3
<1>6. \A p, q : p # q => OnPage(p) \cap OnPage(q) = {}
  BY <1>2
<1> QED
  BY <1>1, <1>3, <1>4, <1>5, <1>6

(* Taking the entry after q, which may be the head, off a page list. *)
LEMMA PageListRemove ==
    ASSUME NEW h, NEW x, NEW S \in SUBSET JmpSlots, IsPageList(h, x, S), NEW f \in S,
           NEW q \in S \cup {NULL}, PageLink(h, x)[q] = f, NEW k, NEW y,
           PageLink(k, y)[q] = x[f],
           \A g \in S \cup {NULL} : g # f /\ g # q => PageLink(k, y)[g] = PageLink(h, x)[g]
    PROVE  q # f /\ IsPageList(k, y, S \ {f})
<1> DEFINE i == PageLink(h, x)
           j == PageLink(k, y)
           M == S \cup {NULL}
<1>1. IsRing(i, M, NULL)
  BY DEF IsPageList
<1>2. f # NULL /\ f \in M /\ q \in M /\ i[q] = f /\ j[q] = i[f]
  BY FieldFacts, PageLinkAt
<1>3. \A g \in M \ {f, q} : j[g] = i[g]
  OBVIOUS
<1>4. M \ {f} = (S \ {f}) \cup {NULL}
  BY <1>2
<1> HIDE DEF i, j, M
<1>5. q # f /\ IsRing(j, M \ {f}, NULL)
  BY <1>1, <1>2, <1>3, RingRemove
<1> QED
  BY <1>4, <1>5 DEF IsPageList, j

(* In the lists <<k, y>>, the entry f of page p is off the list it was on  *)
(* in <<h, x>>, and the other lists are as they were.                      *)
OffPage(h, x, k, y, p, f) ==
    /\ IsPageList(k[p], y, OnPage(p) \ {f})
    /\ \A q \in Pages : q # p => k[q] = h[q]
    /\ \A g \in JmpSlots : g \notin OnPage(p) => y[g] = x[g]
    /\ \A g \in JmpSlots : y[g] = x[g] \/ (x[g] = f /\ y[g] = x[f])

(* tb_page_remove finds the entry before the one it removes. *)
LEMMA PageRemoveOff ==
    ASSUME Inv, NEW h \in HeadsType, NEW x \in NextsType, NEW p \in Pages,
           NEW f \in OnPage(p), IsPageList(h[p], x, OnPage(p))
    PROVE  LET r == PageRemove(h, x, p, f[1])
           IN  /\ r[1] \in HeadsType /\ r[2] \in NextsType
               /\ OffPage(h, x, r[1], r[2], p, f)
<1> DEFINE t == f[1]
           n == CHOOSE m \in Slots : page_addr(tbs[t], m) = p
           P(g) == page_addr(tbs[g[1]], g[2]) = p /\ x[g] = <<t, n>>
           q == CHOOSE g \in (htable \ {t}) \X Slots : P(g)
           r == PageRemove(h, x, p, t)
           S == OnPage(p)
<1>0. r = IF h[p] = <<t, n>> THEN <<[h EXCEPT ![p] = x[<<t, n>>]], x>>
          ELSE <<h, [x EXCEPT ![q] = x[<<t, n>>]]>>
  BY DEF PageRemove
<1>1. f \in htable \X Slots /\ page_addr(tbs[t], f[2]) = p
  BY DEF OnPage
<1>2. n = f[2]
  <2>1. n \in Slots /\ page_addr(tbs[t], n) = p
    BY <1>1
  <2> HIDE DEF n
  <2>2. WellFormed(tbs[t])
    BY <1>1, OnPageFacts
  <2> QED
    BY <1>1, <2>1, <2>2, PageAddrFacts
<1>3. <<t, n>> = f
  BY <1>1, <1>2
<1>4. S \subseteq JmpSlots /\ f \in S /\ f # NULL /\ f \in JmpSlots /\ x[f] \in JmpSlots \cup {NULL}
  BY OnPageFacts, FieldFacts DEF NextsType
<1> HIDE DEF r, S
<1>5. CASE h[p] = f
  <2> DEFINE k == [h EXCEPT ![p] = x[f]]
  <2>1. r[1] = k /\ r[2] = x
    BY <1>0, <1>3, <1>5
  <2>2. k \in HeadsType /\ k[p] = x[f] /\ \A g \in Pages : g # p => k[g] = h[g]
    BY <1>4 DEF HeadsType
  <2> HIDE DEF k
  <2>3. IsPageList(k[p], x, S \ {f})
    <3>1. PageLink(h[p], x)[NULL] = f /\ PageLink(k[p], x)[NULL] = x[f]
      BY <1>5, <2>2, PageLinkAt
    <3>2. \A g \in S \cup {NULL} : g # f /\ g # NULL =>
              PageLink(k[p], x)[g] = PageLink(h[p], x)[g]
      BY <1>4, PageLinkAt
    <3>3. IsPageList(h[p], x, S) /\ NULL \in S \cup {NULL}
      BY DEF S
    <3> QED
      BY <1>4, <3>1, <3>2, <3>3, PageListRemove
  <2>4. OffPage(h, x, k, x, p, f)
    BY <2>2, <2>3 DEF OffPage, S
  <2>5. r[1] \in HeadsType /\ r[2] \in NextsType /\ OffPage(h, x, r[1], r[2], p, f)
    BY <2>1, <2>2, <2>4
  <2> QED
    BY <2>5 DEF r
<1>6. CASE h[p] # f
  <2>1. IsRing(PageLink(h[p], x), S \cup {NULL}, NULL)
    BY DEF IsPageList, S
  <2>2. PICK g \in S \cup {NULL} : PageLink(h[p], x)[g] = f
    BY <1>4, <2>1, RingPredecessor
  <2>3. g # NULL
    BY <1>6, <2>2, PageLinkAt
  <2>4. g \in S /\ x[g] = f
    BY <1>4, <2>2, <2>3, PageLinkAt
  <2>5. g # f
    BY <1>4, <2>1, <2>2, RingMoves
  <2>6. g \in (htable \ {t}) \X Slots /\ P(g)
    <3>1. g \in htable \X Slots /\ page_addr(tbs[g[1]], g[2]) = p
      BY <2>4 DEF OnPage, S
    <3>2. g[1] # t
      BY <1>4, <2>4, <2>5, OnPageFacts DEF S
    <3> QED
      BY <1>3, <2>4, <3>1, <3>2
  <2>7. q \in (htable \ {t}) \X Slots /\ P(q)
    BY <2>6
  <2> HIDE DEF q
  <2>8. q \in S /\ x[q] = f /\ q # f
    <3>1. q \in htable \X Slots /\ q[1] # t
      BY <2>7
    <3>2. page_addr(tbs[q[1]], q[2]) = p /\ x[q] = f
      BY <1>3, <2>7
    <3>3. q \in S
      BY <3>1, <3>2 DEF S, OnPage
    <3> QED
      BY <3>1, <3>2, <3>3
  <2> DEFINE y == [x EXCEPT ![q] = x[f]]
  <2>9. r[1] = h /\ r[2] = y
    BY <1>0, <1>3, <1>6
  <2>10. y \in NextsType /\ y[q] = x[f] /\ \A e \in JmpSlots : e # q => y[e] = x[e]
    BY <1>4, <2>8 DEF NextsType
  <2> HIDE DEF y
  <2>11. IsPageList(h[p], y, S \ {f})
    <3>1. PageLink(h[p], x)[q] = f /\ PageLink(h[p], y)[q] = x[f]
      BY <1>4, <2>8, <2>10, PageLinkAt
    <3>2. \A e \in S \cup {NULL} : e # f /\ e # q =>
              PageLink(h[p], y)[e] = PageLink(h[p], x)[e]
      BY <1>4, <2>10, PageLinkAt
    <3>3. IsPageList(h[p], x, S)
      BY DEF S
    <3> QED
      BY <1>4, <2>8, <3>1, <3>2, <3>3, PageListRemove
  <2>12. \A e \in JmpSlots : e \notin S => y[e] = x[e]
    BY <2>8, <2>10
  <2>13. \A e \in JmpSlots : y[e] = x[e] \/ (x[e] = f /\ y[e] = x[f])
    BY <2>8, <2>10
  <2>14. OffPage(h, x, h, y, p, f)
    BY <2>11, <2>12, <2>13 DEF OffPage, S
  <2>15. r[1] \in HeadsType /\ r[2] \in NextsType /\ OffPage(h, x, r[1], r[2], p, f)
    BY <2>9, <2>10, <2>14
  <2> QED
    BY <2>15 DEF r
<1> QED
  BY <1>5, <1>6

(* A list stays one when its head and its entries do not change. *)
LEMMA PageListFrame ==
    ASSUME NEW h, NEW x, NEW y, NEW S \in SUBSET JmpSlots, IsPageList(h, x, S),
           \A f \in S : y[f] = x[f]
    PROVE  IsPageList(h, y, S)
<1> DEFINE i == PageLink(h, x)
           j == PageLink(h, y)
           M == S \cup {NULL}
<1>1. IsRing(i, M, NULL) /\ \A f \in M : j[f] = i[f]
  BY PageLinkAt DEF IsPageList
<1> HIDE DEF i, j, M
<1>2. IsRing(j, M, NULL)
  BY <1>1, RingFrame
<1> QED
  BY <1>2 DEF IsPageList, j, M

(* The entries of the list of p that remain without t. *)
Others(p, t) == {f \in OnPage(p) : f[1] # t}

(* In <<k, y>> the list of every page but skip is without t, and that of   *)
(* skip is as it was.                                                      *)
ListsWithout(k, y, t, skip) ==
    /\ k \in HeadsType /\ y \in NextsType
    /\ \A p \in Pages : p # skip => IsPageList(k[p], y, Others(p, t))
    /\ \A p \in Pages : p = skip => k[p] = first_tb[p]
    /\ \A f \in OnPage(skip) : y[f] = page_next[f]

(* tb_phys_invalidate takes t off the lists of both its pages. *)
LEMMA PageListsWithoutExact ==
    ASSUME Inv, NEW t \in htable, NEW skip \in Pages \cup {-1},
           \A p \in Pages : p # skip => IsPageList(first_tb[p], page_next, OnPage(p))
    PROVE  LET r == PageListsWithout(t, skip)
           IN  /\ ListsWithout(r[1], r[2], t, skip)
               /\ \A g \in JmpSlots :
                      r[2][g] = page_next[g] \/ page_next[g] \in {<<t, 0>>, <<t, 1>>}
<1> DEFINE p0  == page_addr(tbs[t], 0)
           p1  == page_addr(tbs[t], 1)
           f0  == <<t, 0>>
           f1  == <<t, 1>>
           one == IF p0 = skip THEN <<first_tb, page_next>>
                  ELSE PageRemove(first_tb, page_next, p0, t)
           h   == one[1]
           x   == one[2]
           r   == PageListsWithout(t, skip)
<1>0. r = IF p1 = -1 \/ p1 = skip THEN one ELSE PageRemove(h, x, p1, t)
  BY DEF PageListsWithout
<1>1. first_tb \in HeadsType /\ page_next \in NextsType
  BY DEF Inv, CacheInv, CacheTypeOK, HeadsType, NextsType
<1>2. p0 \in Pages /\ p1 \in Pages \cup {-1} /\ p0 # p1
  BY OnPageFacts, PageAddrFacts
<1>3. f0 \in OnPage(p0) /\ f1 \in OnPage(p1) /\ f0[1] = t /\ f1[1] = t
  BY DEF OnPage, Slots
<1>4. ASSUME NEW p \in Pages
      PROVE  Others(p, t) = IF p = p0 THEN OnPage(p) \ {f0} ELSE IF p = p1 THEN OnPage(p) \ {f1}
                            ELSE OnPage(p)
  <2>1. \A f \in OnPage(p) : f[1] = t => (f = f0 /\ p = p0) \/ (f = f1 /\ p = p1)
    BY DEF OnPage, Slots
  <2> QED
    BY <1>2, <1>3, <2>1 DEF Others
<1> HIDE DEF p0, p1, f0, f1
<1>5. /\ h \in HeadsType /\ x \in NextsType
      /\ p0 # skip => IsPageList(h[p0], x, OnPage(p0) \ {f0})
      /\ \A p \in Pages : p # p0 \/ p = skip => h[p] = first_tb[p]
      /\ \A p : p # p0 \/ p = skip => \A f \in OnPage(p) : x[f] = page_next[f]
      /\ \A g \in JmpSlots : x[g] = page_next[g] \/ page_next[g] = f0
  <2>1. CASE p0 = skip
    BY <1>1, <2>1, OnPageFacts
  <2>2. CASE p0 # skip
    <3>1. one = PageRemove(first_tb, page_next, p0, f0[1])
      BY <1>3, <2>2
    <3>2. IsPageList(first_tb[p0], page_next, OnPage(p0))
      BY <1>2, <2>2
    <3>3. h \in HeadsType /\ x \in NextsType /\ OffPage(first_tb, page_next, h, x, p0, f0)
      BY <1>1, <1>2, <1>3, <3>1, <3>2, PageRemoveOff
    <3>4. \A p, f : p # p0 /\ f \in OnPage(p) => f \in JmpSlots /\ f \notin OnPage(p0)
      BY OnPageFacts
    <3> QED
      BY <2>2, <3>3, <3>4 DEF OffPage
  <2> QED
    BY <2>1, <2>2
<1>6. \A p : OnPage(p) \in SUBSET JmpSlots /\ Others(p, t) \in SUBSET JmpSlots
  BY OnPageFacts DEF Others
<1> HIDE DEF one, h, x
<1>7. ASSUME NEW p \in Pages, p # p0, p # skip PROVE IsPageList(h[p], x, OnPage(p))
  <2>1. IsPageList(first_tb[p], page_next, OnPage(p)) /\ h[p] = first_tb[p]
    BY <1>5, <1>7
  <2>2. \A f \in OnPage(p) : x[f] = page_next[f]
    BY <1>5, <1>7
  <2> QED
    BY <1>6, <2>1, <2>2, PageListFrame
<1>8. CASE p1 = -1 \/ p1 = skip
  <2>1. r[1] = h /\ r[2] = x
    BY <1>0, <1>8 DEF h, x
  <2>2. ASSUME NEW p \in Pages, p # skip PROVE IsPageList(h[p], x, Others(p, t))
    <3>1. CASE p = p0
      BY <1>4, <1>5, <2>2, <3>1
    <3>2. CASE p # p0
      <4>1. Others(p, t) = OnPage(p)
        BY <1>4, <1>8, <2>2, <3>2, PagesType
      <4> QED
        BY <1>7, <2>2, <3>2, <4>1
    <3> QED
      BY <3>1, <3>2
  <2>3. ListsWithout(h, x, t, skip)
    BY <1>5, <2>2 DEF ListsWithout
  <2>4. \A g \in JmpSlots : x[g] = page_next[g] \/ page_next[g] \in {f0, f1}
    BY <1>5
  <2> QED
    BY <2>1, <2>3, <2>4 DEF f0, f1
<1>9. CASE p1 # -1 /\ p1 # skip
  <2> DEFINE k == r[1]
             y == r[2]
  <2>0. p1 \in Pages /\ IsPageList(h[p1], x, OnPage(p1)) /\ r = PageRemove(h, x, p1, f1[1])
    BY <1>0, <1>2, <1>3, <1>7, <1>9
  <2>1. k \in HeadsType /\ y \in NextsType /\ OffPage(h, x, k, y, p1, f1)
    BY <1>3, <1>5, <2>0, PageRemoveOff
  <2> HIDE DEF k, y
  <2>2. \A p, f : p # p1 /\ f \in OnPage(p) => y[f] = x[f]
    BY <2>1, OnPageFacts DEF OffPage
  <2>3. ASSUME NEW p \in Pages, p # skip PROVE IsPageList(k[p], y, Others(p, t))
    <3>1. CASE p = p1
      BY <1>2, <1>4, <2>1, <3>1 DEF OffPage
    <3>2. CASE p # p1
      <4>1. k[p] = h[p] /\ \A f \in OnPage(p) : y[f] = x[f]
        BY <2>1, <2>2, <3>2 DEF OffPage
      <4>2. IsPageList(h[p], x, Others(p, t))
        BY <1>4, <1>5, <1>7, <2>3, <3>2
      <4>3. \A f \in Others(p, t) : y[f] = x[f]
        BY <4>1 DEF Others
      <4>4. IsPageList(h[p], y, Others(p, t))
        BY <1>6, <4>2, <4>3, PageListFrame
      <4> QED
        BY <4>1, <4>4
    <3> QED
      BY <3>1, <3>2
  <2>4. \A p \in Pages : p = skip => k[p] = first_tb[p]
    BY <1>5, <1>9, <2>1 DEF OffPage
  <2>5. \A f \in OnPage(skip) : y[f] = page_next[f]
    BY <1>5, <1>9, <2>2
  <2>6. ListsWithout(k, y, t, skip)
    BY <2>1, <2>3, <2>4, <2>5 DEF ListsWithout
  <2>7. \A g \in JmpSlots : y[g] = page_next[g] \/ page_next[g] \in {f0, f1}
    BY <1>5, <2>1 DEF OffPage
  <2> QED
    BY <2>6, <2>7 DEF f0, f1, k, y
<1> QED
  BY <1>8, <1>9

-----------------------------------------------------------------------------
(* tb_phys_invalidate. *)

(* The rest of the cache: t is in no jump cache any more. *)
LEMMA TbPhysInvalidateCache ==
    ASSUME Inv, NEW t \in htable, NEW skip \in Pages \cup {-1}, TbPhysInvalidate(t, skip),
           \A p \in Pages : p # skip => IsPageList(first_tb[p], page_next, OnPage(p)),
           jmp' \in JmpFunction
    PROVE  /\ CacheInv' /\ JmpCacheCoherent' /\ LayoutInv'
           /\ \A p : OnPage(p)' = Others(p, t)
           /\ ListsWithout(first_tb', page_next', t, skip)
           /\ \A g \in JmpSlots :
                  page_next'[g] = page_next[g] \/ page_next[g] \in {<<t, 0>>, <<t, 1>>}
<1>1. /\ htable' = htable \ {t} /\ tb_jmp_cache' = JmpCacheWithout(t)
      /\ nb_tbs' = nb_tbs /\ code_gen_ptr' = code_gen_ptr /\ tbs' = tbs
      /\ tb_flushed' = tb_flushed /\ target' = target /\ stray' = stray
      /\ first_tb' = PageListsWithout(t, skip)[1] /\ page_next' = PageListsWithout(t, skip)[2]
  BY DEF TbPhysInvalidate
<1>2. /\ ListsWithout(first_tb', page_next', t, skip)
      /\ \A g \in JmpSlots :
             page_next'[g] = page_next[g] \/ page_next[g] \in {<<t, 0>>, <<t, 1>>}
  BY <1>1, PageListsWithoutExact
<1>3. first_tb' \in HeadsType /\ page_next' \in NextsType
  BY <1>2 DEF ListsWithout
<1>4. \A p : OnPage(p)' = Others(p, t)
  <2>1. ASSUME NEW p PROVE OnPage(p)' = Others(p, t)
    BY <1>1 DEF OnPage, Others
  <2> QED
    BY <2>1
<1>5. /\ tb_jmp_cache' \in [Cpus -> [0 .. JmpCacheSize - 1 -> TBs \cup {NULL}]]
      /\ \A c \in Cpus, h \in 0 .. JmpCacheSize - 1 :
            tb_jmp_cache'[c][h] # NULL =>
                tb_jmp_cache'[c][h] = tb_jmp_cache[c][h] /\ tb_jmp_cache'[c][h] # t
  BY <1>1 DEF JmpCacheWithout, Inv, CacheInv, CacheTypeOK, JmpCacheCoherent
<1>6. CacheTypeOK'
  BY <1>1, <1>3, <1>5 DEF Inv, CacheInv, CacheTypeOK, JmpFunction, HeadsType, NextsType
<1>7. PointersInv'
  BY <1>1, <1>5 DEF Inv, CacheInv, PointersInv, Written
<1>8. JmpCacheCoherent'
  BY <1>1, <1>5 DEF Inv, JmpCacheCoherent, Hash
<1>9. LayoutInv'
  <2>1. Alloc' = Alloc
    BY <1>1 DEF Alloc
  <2> QED
    BY <1>1, <2>1 DEF Inv, LayoutInv, CodeLayout, Written
<1> QED
  BY <1>2, <1>4, <1>6, <1>7, <1>8, <1>9 DEF CacheInv

(* An invalidation while no page list is being emptied. *)
LEMMA InvalidateTB ==
    ASSUME Inv, NEW t \in htable, TbPhysInvalidate(t, -1), Idle \/ op.kind = "range",
           Unlinking = {}, op' \in OpRecord, op'.unlink = t, op'.kind # "page"
    PROVE  /\ CacheInv' /\ JmpCacheCoherent' /\ LayoutInv' /\ RingsInv' /\ JumpsInv' /\ PagesInv'
           /\ \A p : OnPage(p)' = Others(p, t)
           /\ \A g \in JmpSlots :
                  page_next'[g] = page_next[g] \/ page_next[g] \in {<<t, 0>>, <<t, 1>>}
<1>1. op' # NULL
  BY OpAssumption
<1>2. RingsInv' /\ JumpsInv' /\ jmp' \in JmpFunction
  BY <1>1, TbPhysInvalidateJumps
<1>3. \A p \in Pages : IsPageList(first_tb[p], page_next, OnPage(p))
  <2>1. \A p : HeadOf(p) = first_tb[p]
    BY DEF HeadOf
  <2> QED
    BY <2>1 DEF Inv, PagesInv
<1>4. /\ CacheInv' /\ JmpCacheCoherent' /\ LayoutInv'
      /\ \A p : OnPage(p)' = Others(p, t)
      /\ ListsWithout(first_tb', page_next', t, -1)
      /\ \A g \in JmpSlots :
             page_next'[g] = page_next[g] \/ page_next[g] \in {<<t, 0>>, <<t, 1>>}
  BY <1>2, <1>3, TbPhysInvalidateCache
<1>5. PagesInv'
  <2>1. ASSUME NEW p \in Pages PROVE IsPageList(HeadOf(p), page_next, OnPage(p))'
    <3>1. HeadOf(p)' = first_tb'[p]
      BY DEF HeadOf
    <3>2. IsPageList(first_tb'[p], page_next', Others(p, t))
      BY <1>4, PagesType DEF ListsWithout
    <3>3. OnPage(p)' = Others(p, t)
      BY <1>4
    <3> QED
      BY <3>1, <3>2, <3>3 DEF IsPageList, PageLink
  <2> QED
    BY <2>1 DEF PagesInv
<1> QED
  BY <1>2, <1>4, <1>5

LEMMA InvalidateOneInv == ASSUME Inv, NEW t \in htable, InvalidateOne(t) PROVE Inv'
<1>1. t \in TBs /\ t \in Alloc /\ t # NULL
  BY AllocFacts, CacheAssumption
<1>2. /\ op' \in OpRecord /\ op'.unlink = t /\ op'.kind = "one" /\ op' # NULL
      /\ Idle /\ TbPhysInvalidate(t, -1)
  BY <1>1, OpAssumption DEF InvalidateOne, OpRecord
<1>3. Unlinking = {}
  BY <1>2 DEF Unlinking
<1>4. CacheInv' /\ JmpCacheCoherent' /\ LayoutInv' /\ RingsInv' /\ JumpsInv' /\ PagesInv'
  BY <1>2, <1>3, InvalidateTB
<1>5. LoopInv'
  BY <1>1, <1>2 DEF LoopInv, TbPhysInvalidate, Alloc
<1> QED
  BY <1>2, <1>4, <1>5 DEF Inv

(* tb_invalidate_phys_page leaves the list it goes through alone, except   *)
(* that it has moved on to the next entry.                                 *)
LEMMA VisitPageTBInv == ASSUME Inv, VisitPageTB PROVE Inv'
<1> DEFINE t == op.tb[1]
           P == op.page
           n == page_next'[op.tb]
<1>1. /\ ~ Idle /\ op.kind = "page" /\ op.unlink = NULL /\ op.tb # NULL
      /\ TbPhysInvalidate(t, P) /\ op' = OpWith(op, n, t)
  BY DEF VisitPageTB, InLoop, OpWith
<1>2. /\ op \in OpRecord /\ t \in htable /\ op.tb \in JmpSlots /\ P \in Pages
      /\ op.tb \in OnPage(P)
  BY <1>1, AtEntry
<1>3. t \in TBs /\ t \in Alloc /\ t # NULL
  BY <1>2, AllocFacts, CacheAssumption
<1>4. Unlinking = {}
  BY <1>1, CacheAssumption, AllocFacts DEF Unlinking
<1>5. \A p \in Pages : p # P => IsPageList(first_tb[p], page_next, OnPage(p))
  <2>1. \A p : p # P => HeadOf(p) = first_tb[p]
    BY DEF HeadOf
  <2> QED
    BY <2>1 DEF Inv, PagesInv
<1>6. page_next' \in NextsType /\ \A f \in OnPage(P) : page_next'[f] = page_next[f]
  <2>1. page_next' = PageListsWithout(t, P)[2]
    BY <1>1 DEF TbPhysInvalidate
  <2>2. ListsWithout(PageListsWithout(t, P)[1], PageListsWithout(t, P)[2], t, P)
    BY <1>2, <1>5, PageListsWithoutExact
  <2> QED
    BY <2>1, <2>2 DEF ListsWithout
<1>7. n = page_next[op.tb] /\ n \in JmpSlots \cup {NULL}
  BY <1>2, <1>6 DEF NextsType
<1>8. /\ op' \in OpRecord /\ op' # NULL /\ op'.kind = "page" /\ op'.page = P /\ op'.tb = n
      /\ op'.unlink = t
  BY <1>1, <1>2, <1>3, <1>7, OpWithType
<1>9. RingsInv' /\ JumpsInv' /\ jmp' \in JmpFunction
  BY <1>1, <1>2, <1>4, <1>8, TbPhysInvalidateJumps
<1>10. /\ CacheInv' /\ JmpCacheCoherent' /\ LayoutInv'
       /\ \A p : OnPage(p)' = Others(p, t)
       /\ ListsWithout(first_tb', page_next', t, P)
  BY <1>1, <1>2, <1>5, <1>9, TbPhysInvalidateCache
<1>11. LoopInv'
  BY <1>1, <1>2, <1>3, <1>8 DEF LoopInv, TbPhysInvalidate, Alloc
<1> HIDE DEF t, P, n
<1>12. ASSUME NEW p \in Pages, p # P PROVE IsPageList(HeadOf(p)', page_next', OnPage(p)')
  <2>1. HeadOf(p)' = first_tb'[p]
    BY <1>8, <1>12 DEF HeadOf
  <2>2. IsPageList(first_tb'[p], page_next', Others(p, t))
    BY <1>10, <1>12 DEF ListsWithout
  <2>3. OnPage(p)' = Others(p, t)
    BY <1>10
  <2> QED
    BY <2>1, <2>2, <2>3
<1>13. ASSUME NEW p \in Pages, p = P PROVE IsPageList(HeadOf(p)', page_next', OnPage(p)')
  <2>1. IsPageList(op.tb, page_next, OnPage(P))
    BY <1>1, <1>2 DEF Inv, PagesInv, HeadOf, P
  <2>2. PageLink(op.tb, page_next)[NULL] = op.tb /\ PageLink(n, page_next)[NULL] = page_next[op.tb]
    BY <1>7, PageLinkAt
  <2>3. OnPage(P) \in SUBSET JmpSlots
    BY OnPageFacts
  <2>4. \A g \in OnPage(P) \cup {NULL} : g # op.tb /\ g # NULL =>
            PageLink(n, page_next)[g] = PageLink(op.tb, page_next)[g]
    BY <2>3, PageLinkAt
  <2>5. IsPageList(n, page_next, OnPage(P) \ {op.tb})
    BY <1>2, <2>1, <2>2, <2>3, <2>4, PageListRemove
  <2>6. IsPageList(n, page_next', OnPage(P) \ {op.tb})
    BY <1>6, <2>3, <2>5, PageListFrame
  <2>7. Others(P, t) = OnPage(P) \ {op.tb}
    BY <1>2, OnPageFacts DEF Others, t
  <2>8. HeadOf(p)' = n /\ OnPage(p)' = Others(p, t)
    BY <1>8, <1>10, <1>13 DEF HeadOf, Idle, P
  <2> QED
    BY <1>13, <2>6, <2>7, <2>8
<1>14. PagesInv'
  <2>1. ASSUME NEW p \in Pages PROVE IsPageList(HeadOf(p)', page_next', OnPage(p)')
    BY <1>12, <1>13
  <2> QED
    BY <2>1 DEF PagesInv
<1> QED
  BY <1>8, <1>9, <1>10, <1>11, <1>14 DEF Inv

-----------------------------------------------------------------------------
(* The range. *)

(* Where the last instruction of a TB starts and ends. *)
LEMMA LastInsn ==
    ASSUME NEW b, WellFormed(b)
    PROVE  \E a \in Nat : /\ b.key.pc \in Nat /\ b.key.pc <= a /\ PageOf(a) = PageOf(b.key.pc)
                          /\ LastByte(b) = a + 1
                          /\ b.key.pc + b.insns * InsnSize = a + 2
<1> DEFINE a == b.key.pc + (b.insns - 1) * InsnSize
<1>1. b.key.pc \in Nat /\ b.insns \in 1 .. MaxInsns
  BY GuestAssumption DEF WellFormed, TBRecord
<1>2. a \in Nat /\ b.key.pc <= a /\ LastByte(b) = a + 1 /\ b.key.pc + b.insns * InsnSize = a + 2
  BY <1>1, MaxInsnsType DEF LastByte, InsnSize
<1>3. PageOf(a) = PageOf(b.key.pc)
  BY DEF WellFormed
<1> HIDE DEF a
<1> QED
  BY <1>1, <1>2, <1>3

(* Every address of the code of a TB is on one of its pages. *)
LEMMA CodePages ==
    ASSUME NEW b, WellFormed(b), NEW x \in Nat, InCode(b, x)
    PROVE  \E n \in Slots : page_addr(b, n) = PageOf(x)
<1>1. PICK a \in Nat : /\ b.key.pc \in Nat /\ b.key.pc <= a /\ PageOf(a) = PageOf(b.key.pc)
                       /\ LastByte(b) = a + 1
  BY LastInsn
<1>2. b.key.pc <= x /\ x <= a + 1
  BY <1>1 DEF InCode
<1>3. CASE x <= a
  <2>1. PageOf(b.key.pc) <= PageOf(x) /\ PageOf(x) <= PageOf(a)
    BY <1>1, <1>2, <1>3, PageOfMonotone
  <2>2. PageOf(x) \in Nat /\ PageOf(a) \in Nat
    BY PageOfBounds
  <2>3. PageOf(x) = PageOf(b.key.pc)
    BY <1>1, <2>1, <2>2
  <2> QED
    BY <2>3 DEF page_addr, Slots
<1>4. CASE x = a + 1
  BY <1>1, <1>4 DEF page_addr, Slots
<1> QED
  BY <1>1, <1>2, <1>3, <1>4

LEMMA OneBeyond ==
    ASSUME NEW q \in Nat
    PROVE  (q * PageSize + 1) % PageSize = 1
<1>1. PageSize \in Nat /\ PageSize > 2
  BY GuestAssumption DEF InsnSize
<1> DEFINE a == q * PageSize + 1
           d == a \div PageSize
<1>2. a \in Nat /\ q * PageSize <= a /\ a < (q + 1) * PageSize
  BY <1>1
<1>3. d = q
  BY <1>2, PageOfUnique DEF PageOf
<1>4. a = PageSize * d + (a % PageSize) /\ a % PageSize \in Nat
  BY <1>1, <1>2
<1> HIDE DEF d
<1>5. a = PageSize * q + (a % PageSize)
  BY <1>3, <1>4
<1> QED
  BY <1>1, <1>4, <1>5

(* The test of tb_invalidate_phys_page_range finds code of a TB that is on *)
(* the page under whose number the TB is met.                              *)
LEMMA IntersectsCode ==
    ASSUME NEW b, WellFormed(b), NEW n \in Slots, NEW x \in Nat, NEW start \in Nat, NEW end \in Nat,
           InCode(b, x), page_addr(b, n) = PageOf(x), start <= x, x < end
    PROVE  Intersects(b, n, start, end)
<1>1. PICK a \in Nat : /\ b.key.pc \in Nat /\ b.key.pc <= a /\ PageOf(a) = PageOf(b.key.pc)
                       /\ LastByte(b) = a + 1 /\ b.key.pc + b.insns * InsnSize = a + 2
  BY LastInsn
<1>2. b.key.pc <= x /\ x <= a + 1
  BY <1>1 DEF InCode
<1>3. CASE n = 0
  BY <1>1, <1>2, <1>3 DEF Intersects
<1>4. CASE n = 1
  <2> DEFINE P == PageOf(a + 1)
             Q == PageOf(a)
  <2>1. page_addr(b, 1) = P /\ P # Q /\ PageOf(x) = P
    <3>1. PageOf(x) # -1
      BY PageOfBounds
    <3> QED
      BY <1>1, <1>4, <3>1 DEF page_addr
  <2>2. /\ P \in Nat /\ Q \in Nat /\ Q <= P /\ PageSize \in Nat
        /\ P * PageSize <= a + 1 /\ a < (Q + 1) * PageSize
        /\ P * PageSize <= x
    BY <2>1, PageOfBounds, PageOfMonotone, GuestAssumption
  <2> HIDE DEF P, Q
  <2>3. (Q + 1) * PageSize <= P * PageSize
    <3>1. Q + 1 <= P
      BY <2>1, <2>2
    <3>2. \A i, j, k \in Nat : i <= j => i * k <= j * k
      OBVIOUS
    <3> QED
      BY <2>2, <3>1, <3>2
  <2> DEFINE base == P * PageSize
             top  == (Q + 1) * PageSize
  <2>4. base \in Nat /\ top \in Nat /\ base <= a + 1 /\ a < top /\ top <= base /\ base <= x
    BY <2>2, <2>3
  <2> HIDE DEF base, top
  <2>5. a + 1 = base
    BY <2>4
  <2>6. (LastByte(b) + 1) % PageSize = 1
    <3>1. LastByte(b) + 1 = P * PageSize + 1
      BY <1>1, <2>5 DEF base
    <3> QED
      BY <2>2, <3>1, OneBeyond
  <2>7. ~ (base + 1 <= start \/ base >= end)
    BY <1>2, <2>4, <2>5
  <2>8. page_addr(b, 1) * PageSize = base
    BY <2>1 DEF base
  <2> QED
    BY <1>4, <2>6, <2>7, <2>8 DEF Intersects
<1> QED
  BY <1>3, <1>4 DEF Slots

LEMMA ReachedNew ==
    ASSUME NEW h, NEW x, NEW M \in SUBSET JmpSlots, IsPageList(h, x, M), NEW f \in M
    PROVE  Reached(h, x, M, f)
BY DEF Reached, IsPageList, IsRing

(* Going on from entry f to the next, with f or other entries that lead to *)
(* f taken off.                                                            *)
LEMMA ReachedSkip ==
    ASSUME NEW x, NEW y, NEW M \in SUBSET JmpSlots, NEW N \in SUBSET M, NEW f \in M,
           NEW g, g # f, Reached(f, x, M, g), \A e \in N : y[e] = x[e] \/ x[e] = f
    PROVE  Reached(x[f], y, N, g)
<1> SUFFICES ASSUME NEW S \in SUBSET (N \cup {NULL}), NULL \in S, Closed(PageLink(x[f], y), S)
             PROVE  g \in S
  BY DEF Reached
<1> DEFINE R == S \cup {f}
<1>1. R \in SUBSET (M \cup {NULL}) /\ NULL \in R
  OBVIOUS
<1>2. x[f] \in S
  BY PageLinkAt DEF Closed
<1>3. \A e \in S \ {NULL} : y[e] \in S /\ e \in N
  BY PageLinkAt DEF Closed
<1>4. Closed(PageLink(f, x), R)
  BY <1>2, <1>3, PageLinkAt DEF Closed
<1> HIDE DEF R
<1>5. g \in R
  BY <1>1, <1>4 DEF Reached
<1> QED
  BY <1>5 DEF R

(* Nothing is left to visit at the end of a list. *)
LEMMA ReachedEnd ==
    ASSUME NEW x, NEW M, NEW g, Reached(NULL, x, M, g)
    PROVE  g = NULL
<1>1. Closed(PageLink(NULL, x), {NULL})
  BY PageLinkAt DEF Closed
<1> QED
  BY <1>1 DEF Reached

(* The list of a page, when the loop comes to it. *)
LEMMA PageStart ==
    ASSUME Inv, Idle \/ op.kind = "range", NEW P \in Nat
    PROVE  /\ ListHead(P) \in OnPage(P) \cup {NULL}
           /\ ListHead(P) \in JmpSlots \cup {NULL}
           /\ \A t \in htable, x \in Nat : InCode(tbs[t], x) /\ PageOf(x) = P =>
                  \E n \in Slots : /\ page_addr(tbs[t], n) = PageOf(x)
                                   /\ Reached(ListHead(P), page_next, OnPage(P), <<t, n>>)
<1>1. OnPage(P) \in SUBSET JmpSlots
  BY OnPageFacts
<1>2. CASE P \in Pages
  <2>1. HeadOf(P) = first_tb[P] /\ ListHead(P) = first_tb[P]
    BY <1>2 DEF HeadOf, ListHead
  <2>2. IsPageList(first_tb[P], page_next, OnPage(P))
    BY <1>2, <2>1 DEF Inv, PagesInv
  <2>3. PageLink(first_tb[P], page_next)[NULL] = first_tb[P]
    BY PageLinkAt
  <2>4. first_tb[P] \in OnPage(P) \cup {NULL}
    BY <2>2, <2>3 DEF IsPageList, IsRing, Closed
  <2>5. ASSUME NEW t \in htable, NEW x \in Nat, InCode(tbs[t], x), PageOf(x) = P
        PROVE  \E n \in Slots : /\ page_addr(tbs[t], n) = PageOf(x)
                                /\ Reached(first_tb[P], page_next, OnPage(P), <<t, n>>)
    <3>1. PICK n \in Slots : page_addr(tbs[t], n) = PageOf(x)
      BY <2>5, OnPageFacts, CodePages
    <3>2. <<t, n>> \in OnPage(P)
      BY <2>5, <3>1 DEF OnPage
    <3> QED
      BY <1>1, <2>2, <3>1, <3>2, ReachedNew
  <2> QED
    BY <1>1, <2>1, <2>4, <2>5
<1>3. CASE P \notin Pages
  <2>1. ListHead(P) = NULL
    BY <1>3 DEF ListHead
  <2>2. ASSUME NEW t \in htable, NEW x \in Nat, InCode(tbs[t], x), PageOf(x) = P PROVE FALSE
    <3>1. PICK n \in Slots : page_addr(tbs[t], n) = PageOf(x)
      BY <2>2, OnPageFacts, CodePages
    <3>2. page_addr(tbs[t], n) \in Pages \cup {-1}
      BY OnPageFacts, PageAddrFacts DEF Slots
    <3> QED
      BY <1>3, <2>2, <3>1, <3>2
  <2> QED
    BY <2>1, <2>2
<1> QED
  BY <1>2, <1>3

(* Steps of the loops change nothing of the cache. *)
LEMMA CacheFrame ==
    ASSUME Inv, UNCHANGED cacheVars, \A p \in Pages : HeadOf(p)' = HeadOf(p)
    PROVE  /\ CacheInv' /\ JmpCacheCoherent' /\ LayoutInv' /\ PagesInv' /\ RingsInv'
           /\ \A p : OnPage(p)' = OnPage(p)
<1>1. /\ nb_tbs' = nb_tbs /\ code_gen_ptr' = code_gen_ptr /\ tbs' = tbs /\ htable' = htable
      /\ tb_jmp_cache' = tb_jmp_cache /\ tb_flushed' = tb_flushed /\ jmp' = jmp
      /\ target' = target /\ stray' = stray /\ first_tb' = first_tb /\ page_next' = page_next
  BY DEF cacheVars, jmpVars, pageVars
<1>2. Alloc' = Alloc
  BY <1>1 DEF Alloc
<1>3. CacheInv' /\ JmpCacheCoherent' /\ LayoutInv' /\ RingsInv'
  BY <1>1, <1>2 DEF Inv, CacheInv, CacheTypeOK, PointersInv, Written, JmpCacheCoherent, Hash,
                    LayoutInv, CodeLayout, RingsInv
<1>4. ASSUME NEW p PROVE OnPage(p)' = OnPage(p)
  BY <1>1 DEF OnPage
<1>5. ASSUME NEW p \in Pages PROVE IsPageList(HeadOf(p)', page_next', OnPage(p)')
  BY <1>1, <1>4 DEF Inv, PagesInv
<1> QED
  BY <1>3, <1>4, <1>5 DEF PagesInv

LEMMA InvalidateRangeInv ==
    ASSUME Inv, NEW r \in Ranges, InvalidateRange(r[1], r[2])
    PROVE  Inv'
<1> DEFINE P == PageOf(r[1])
           o == [kind |-> "range", from |-> r[1], start |-> r[1], end |-> r[2], page |-> -1,
                 tb |-> ListHead(P), unlink |-> NULL]
<1>1. r[1] \in Nat /\ r[2] \in Nat /\ r[1] < r[2] /\ P \in Nat
  BY RangesAssumption, PageOfBounds
<1>2. Idle /\ op' = o /\ UNCHANGED cacheVars
  BY DEF InvalidateRange
<1>3. /\ ListHead(P) \in OnPage(P) \cup {NULL}
      /\ ListHead(P) \in JmpSlots \cup {NULL}
      /\ \A t \in htable, x \in Nat : InCode(tbs[t], x) /\ PageOf(x) = P =>
             \E n \in Slots : /\ page_addr(tbs[t], n) = PageOf(x)
                              /\ Reached(ListHead(P), page_next, OnPage(P), <<t, n>>)
  BY <1>1, <1>2, PageStart
<1>4. o \in OpRecord /\ o # NULL
  <2>1. o \in OpRecord
    BY <1>1, <1>3 DEF OpRecord
  <2> QED
    BY <2>1, OpAssumption
<1>5. /\ op' \in OpRecord /\ op' # NULL /\ op'.kind = "range" /\ op'.from = r[1]
      /\ op'.start = r[1] /\ op'.end = r[2] /\ op'.tb = ListHead(P) /\ op'.unlink = NULL
  BY <1>2, <1>4
<1>6. htable' = htable /\ tbs' = tbs /\ page_next' = page_next
  BY <1>2 DEF cacheVars, pageVars
<1> HIDE DEF o, P
<1>7. OnPage(PageOf(op.start))' = OnPage(P)
  BY <1>5, <1>6 DEF OnPage, P
<1>8. CacheInv' /\ JmpCacheCoherent' /\ LayoutInv' /\ PagesInv' /\ RingsInv'
  <2>1. \A p : HeadOf(p)' = HeadOf(p)
    BY <1>2, <1>5 DEF HeadOf, cacheVars, pageVars
  <2> QED
    BY <1>2, <2>1, CacheFrame
<1>9. JumpsInv'
  <2>1. Unlinking = {} /\ Unlinking' = {}
    <3>1. Alloc \in SUBSET TBs /\ Alloc' = Alloc
      BY <1>2, AllocFacts DEF Alloc, cacheVars
    <3> QED
      BY <1>2, <1>5, <3>1, CacheAssumption DEF Unlinking
  <2> QED
    BY <1>2, <2>1, JumpsFrame DEF cacheVars, jmpVars
<1>10. Passed'
  <2>1. ASSUME NEW t \in htable, NEW x \in r[1] .. r[2] - 1, InCode(tbs[t], x)
        PROVE  LeftFor(t, tbs[t], x, P, ListHead(P), page_next, OnPage(P))
    <3>1. x \in Nat /\ r[1] <= x
      BY <1>1
    <3>2. P <= PageOf(x)
      BY <1>1, <3>1, PageOfMonotone DEF P
    <3> QED
      BY <1>3, <2>1, <3>1, <3>2 DEF LeftFor
  <2> QED
    BY <1>5, <1>6, <1>7, <2>1 DEF Passed, P
<1>11. LoopInv'
  BY <1>1, <1>3, <1>5, <1>7, <1>10 DEF LoopInv
<1> QED
  BY <1>5, <1>8, <1>9, <1>11 DEF Inv

(* The entry after the one the loop of tb_invalidate_phys_page_range is at.*)
LEMMA NextEntry ==
    ASSUME Inv, ~ Idle, op.kind = "range", op.tb # NULL, NEW P, P = PageOf(op.start)
    PROVE  /\ P \in Pages /\ op.tb \in OnPage(P) /\ op.tb[1] \in htable
           /\ page_next[op.tb] \in Others(P, op.tb[1]) \cup {NULL}
           /\ page_next[op.tb] \in JmpSlots \cup {NULL}
           /\ \A g \in OnPage(P) : page_next[g] \in OnPage(P) \cup {NULL}
           /\ \A g \in OnPage(P) : g[1] = op.tb[1] => g = op.tb
           /\ op.tb # NULL
<1>1. op.tb \in OnPage(P) /\ op \in OpRecord /\ op.tb[1] \in htable /\ op.start \in Nat
  BY AtEntry DEF OpRecord
<1>2. P \in Pages
  <2>1. PageOf(op.start) # -1
    BY <1>1, PageOfBounds
  <2>2. WellFormed(tbs[op.tb[1]]) /\ op.tb[2] \in Slots /\ page_addr(tbs[op.tb[1]], op.tb[2]) = P
    BY <1>1, OnPageFacts DEF OnPage
  <2>3. page_addr(tbs[op.tb[1]], op.tb[2]) \in Pages \cup {-1}
    BY <2>2, PageAddrFacts DEF Slots
  <2> QED
    BY <2>1, <2>2, <2>3
<1>3. IsPageList(first_tb[P], page_next, OnPage(P))
  <2>1. HeadOf(P) = first_tb[P]
    BY DEF HeadOf
  <2> QED
    BY <1>2, <2>1 DEF Inv, PagesInv
<1>4. OnPage(P) \in SUBSET JmpSlots
  BY OnPageFacts
<1>5. \A g \in OnPage(P) : page_next[g] \in OnPage(P) \cup {NULL}
  BY <1>3, <1>4, PageLinkAt DEF IsPageList, IsRing, Closed
<1>6. \A g \in OnPage(P) : g[1] = op.tb[1] => g = op.tb
  BY <1>1, <1>2, OnPageFacts
<1>7. page_next[op.tb] # op.tb
  <2>1. PageLink(first_tb[P], page_next)[op.tb] # op.tb
    BY <1>1, <1>3, RingMoves DEF IsPageList
  <2> QED
    BY <1>1, <1>4, <2>1, PageLinkAt
<1> QED
  BY <1>1, <1>2, <1>4, <1>5, <1>6, <1>7 DEF Others

(* In y the entries of N lead to where they led, unless that was f. *)
Skips(N, y, f) == \A g \in N : y[g] = page_next[g] \/ page_next[g] = f

(* What the loop has still to drop, after it has gone on by one entry. *)
LEMMA PassedNext ==
    ASSUME Inv, ~ Idle, op.kind = "range", op.tb # NULL, NEW P, P = PageOf(op.start),
           NEW N \in SUBSET OnPage(P), NEW y, Skips(N, y, op.tb),
           NEW t \in htable, NEW x \in op.from .. op.end - 1, InCode(tbs[t], x),
           t = op.tb[1] => ~ Intersects(tbs[t], op.tb[2], op.start, op.end)
    PROVE  LeftFor(t, tbs[t], x, P, page_next[op.tb], y, N)
<1>1. /\ P <= PageOf(x)
      /\ PageOf(x) = P => \E n \in Slots : /\ page_addr(tbs[t], n) = PageOf(x)
                                           /\ Reached(op.tb, page_next, OnPage(P), <<t, n>>)
  BY DEF Inv, LoopInv, Passed, LeftFor
<1>2. ASSUME PageOf(x) = P, NEW n \in Slots, page_addr(tbs[t], n) = PageOf(x),
             Reached(op.tb, page_next, OnPage(P), <<t, n>>)
      PROVE  Reached(page_next[op.tb], y, N, <<t, n>>)
  <2>1. OnPage(P) \in SUBSET JmpSlots /\ op.tb \in OnPage(P)
    BY NextEntry, OnPageFacts
  <2>2. CASE <<t, n>> = op.tb
    <3>1. /\ op.from \in Nat /\ op.start \in Nat /\ op.end \in Nat
          /\ op.start = op.from \/ op.start = PageOf(op.start) * PageSize
      BY AtEntry DEF OpRecord, Inv, LoopInv
    <3>2. x \in Nat /\ op.from <= x /\ x < op.end
      BY <3>1
    <3>3. op.start <= x
      <4>1. PageOf(x) * PageSize <= x
        BY <3>2, PageOfBounds
      <4> QED
        BY <1>2, <3>1, <3>2, <4>1
    <3>4. WellFormed(tbs[t])
      BY OnPageFacts
    <3>5. Intersects(tbs[t], n, op.start, op.end)
      BY <1>2, <3>1, <3>2, <3>3, <3>4, IntersectsCode
    <3>6. op.tb[1] = t /\ op.tb[2] = n
      BY <2>2
    <3> QED
      BY <3>5, <3>6
  <2>3. CASE <<t, n>> # op.tb
    BY <1>2, <2>1, <2>3, ReachedSkip DEF Skips
  <2> QED
    BY <2>2, <2>3
<1> QED
  BY <1>1, <1>2 DEF LeftFor

LEMMA VisitRangeTBInv == ASSUME Inv, VisitRangeTB PROVE Inv'
<1> DEFINE t == op.tb[1]
           n == page_next[op.tb]
<1>0. PICK P : P = PageOf(op.start)
  OBVIOUS
<1>1. ~ Idle /\ op.kind = "range" /\ op.unlink = NULL /\ op.tb # NULL
  BY DEF VisitRangeTB, InLoop
<1>2. /\ op.tb \in OnPage(P) /\ t \in htable /\ n \in Others(P, t) \cup {NULL}
      /\ n \in JmpSlots \cup {NULL}
      /\ \A g \in OnPage(P) : page_next[g] \in OnPage(P) \cup {NULL}
      /\ \A g \in OnPage(P) : g[1] = t => g = op.tb
  BY <1>0, <1>1, NextEntry
<1>3. /\ op \in OpRecord /\ t \in TBs /\ t \in Alloc /\ t # NULL /\ Unlinking = {}
      /\ Alloc \in SUBSET TBs
  BY <1>1, <1>2, AllocFacts, CacheAssumption DEF Idle, Unlinking
<1>4. CASE TbPhysInvalidate(t, -1) /\ op' = OpWith(op, n, t)
  <2>1. /\ op' \in OpRecord /\ op' # NULL /\ op'.kind = "range" /\ op'.from = op.from
        /\ op'.start = op.start /\ op'.end = op.end /\ op'.tb = n /\ op'.unlink = t
    BY <1>1, <1>2, <1>3, <1>4, OpWithType
  <2>2. /\ CacheInv' /\ JmpCacheCoherent' /\ LayoutInv' /\ RingsInv' /\ JumpsInv' /\ PagesInv'
        /\ \A p : OnPage(p)' = Others(p, t)
        /\ \A g \in JmpSlots :
               page_next'[g] = page_next[g] \/ page_next[g] \in {<<t, 0>>, <<t, 1>>}
    BY <1>1, <1>2, <1>3, <1>4, <2>1, InvalidateTB
  <2>3. /\ Others(P, t) \in SUBSET OnPage(P)
        /\ Skips(Others(P, t), page_next', op.tb)
    <3>1. OnPage(P) \in SUBSET JmpSlots /\ NULL \notin OnPage(P)
      BY OnPageFacts
    <3>2. <<t, 0>> # NULL /\ <<t, 1>> # NULL
      BY <1>3, FieldFacts DEF JmpSlots, Slots
    <3>3. ASSUME NEW g \in OnPage(P), page_next[g] \in {<<t, 0>>, <<t, 1>>}
          PROVE  page_next[g] = op.tb
      <4>1. page_next[g] \in OnPage(P) /\ page_next[g][1] = t
        BY <1>2, <3>2, <3>3
      <4> QED
        BY <1>2, <4>1
    <3> QED
      BY <2>2, <3>1, <3>3 DEF Others, Skips
  <2>4. /\ htable' = htable \ {t} /\ tbs' = tbs /\ nb_tbs' = nb_tbs
        /\ OnPage(PageOf(op.start))' = Others(P, t)
    BY <1>0, <1>4, <2>1 DEF TbPhysInvalidate, OnPage, Others
  <2>5. ASSUME NEW s \in htable', NEW x \in op.from .. op.end - 1, InCode(tbs[s], x)
        PROVE  LeftFor(s, tbs[s], x, P, n, page_next', Others(P, t))
    <3>1. s \in htable /\ s # t
      BY <2>4
    <3> QED
      BY <1>0, <1>1, <2>3, <2>5, <3>1, PassedNext
  <2>6. Passed'
    BY <1>0, <2>1, <2>4, <2>5 DEF Passed
  <2>7. /\ op.from <= op.start /\ op.start < op.end
        /\ op.start = op.from \/ op.start = PageOf(op.start) * PageSize
    BY <1>1 DEF Inv, LoopInv
  <2>8. t \in Alloc' \ htable'
    BY <1>3, <2>4 DEF Alloc
  <2>9. LoopInv'
    BY <1>2, <2>1, <2>4, <2>6, <2>7, <2>8 DEF LoopInv
  <2> QED
    BY <2>1, <2>2, <2>9 DEF Inv
<1>5. CASE /\ ~ Intersects(tbs[t], op.tb[2], op.start, op.end)
           /\ UNCHANGED cacheVars /\ op' = OpWith(op, n, NULL)
  <2>1. /\ op' \in OpRecord /\ op' # NULL /\ op'.kind = "range" /\ op'.from = op.from
        /\ op'.start = op.start /\ op'.end = op.end /\ op'.tb = n /\ op'.unlink = NULL
    BY <1>1, <1>2, <1>3, <1>5, OpWithType
  <2>2. htable' = htable /\ tbs' = tbs /\ page_next' = page_next /\ first_tb' = first_tb
    BY <1>5 DEF cacheVars, pageVars
  <2>3. CacheInv' /\ JmpCacheCoherent' /\ LayoutInv' /\ PagesInv' /\ RingsInv'
    <3>1. \A p \in Pages : HeadOf(p)' = HeadOf(p)
      BY <1>1, <2>1, <2>2 DEF HeadOf
    <3> QED
      BY <1>5, <3>1, CacheFrame
  <2>4. JumpsInv'
    <3>1. Unlinking' = {}
      <4>1. Alloc' = Alloc
        BY <1>5 DEF Alloc, cacheVars
      <4> QED
        BY <1>3, <2>1, <4>1, CacheAssumption DEF Unlinking
    <3> QED
      BY <1>3, <1>5, <3>1, JumpsFrame DEF cacheVars, jmpVars
  <2>5. OnPage(PageOf(op.start))' = OnPage(P)
    BY <1>0, <2>1, <2>2 DEF OnPage
  <2>6. ASSUME NEW s \in htable, NEW x \in op.from .. op.end - 1, InCode(tbs[s], x)
        PROVE  LeftFor(s, tbs[s], x, P, n, page_next, OnPage(P))
    <3>1. s = op.tb[1] => ~ Intersects(tbs[s], op.tb[2], op.start, op.end)
      BY <1>5
    <3> DEFINE N == OnPage(P)
    <3>2. N \in SUBSET OnPage(P) /\ Skips(N, page_next, op.tb)
      BY DEF Skips
    <3> HIDE DEF N
    <3>3. LeftFor(s, tbs[s], x, P, n, page_next, N)
      BY <1>0, <1>1, <2>6, <3>1, <3>2, PassedNext
    <3> QED
      BY <3>3 DEF N
  <2>7. Passed'
    BY <1>0, <2>1, <2>2, <2>5, <2>6 DEF Passed
  <2>8. /\ op.from <= op.start /\ op.start < op.end
        /\ op.start = op.from \/ op.start = PageOf(op.start) * PageSize
    BY <1>1 DEF Inv, LoopInv
  <2>9. LoopInv'
    BY <1>2, <2>1, <2>5, <2>7, <2>8 DEF LoopInv, Others
  <2> QED
    BY <2>1, <2>3, <2>4, <2>9 DEF Inv
<1>6. [op EXCEPT !.tb = n] = OpWith(op, n, NULL)
  BY <1>1, <1>3 DEF OpWith, OpRecord
<1>7. \/ TbPhysInvalidate(t, -1) /\ op' = OpWith(op, n, t)
      \/ /\ ~ Intersects(tbs[t], op.tb[2], op.start, op.end)
         /\ UNCHANGED cacheVars /\ op' = [op EXCEPT !.tb = n]
  BY DEF VisitRangeTB, OpWith
<1> QED
  BY <1>4, <1>5, <1>6, <1>7

(* When the list of the page has been gone through, no code in the range   *)
(* is left before the next page.                                           *)
LEMMA PageFinished ==
    ASSUME Inv, ~ Idle, op.kind = "range", op.tb = NULL,
           NEW t \in htable, NEW x \in op.from .. op.end - 1, InCode(tbs[t], x)
    PROVE  x \in Nat /\ PageOf(op.start) + 1 <= PageOf(x)
<1> DEFINE P == PageOf(op.start)
<1>1. op.from \in Nat /\ op.start \in Nat /\ op.end \in Nat
  BY AtEntry DEF OpRecord
<1>2. x \in Nat /\ P \in Nat /\ PageOf(x) \in Nat
  BY <1>1, PageOfBounds
<1>3. LeftFor(t, tbs[t], x, P, NULL, page_next, OnPage(P))
  BY DEF Inv, LoopInv, Passed
<1>4. t \in TBs
  BY AllocFacts
<1>5. ASSUME NEW n \in Slots, Reached(NULL, page_next, OnPage(P), <<t, n>>) PROVE FALSE
  <2>1. <<t, n>> = NULL
    BY <1>5, ReachedEnd
  <2> QED
    BY <1>4, <2>1, FieldFacts DEF JmpSlots
<1> HIDE DEF P
<1>6. P <= PageOf(x) /\ PageOf(x) # P
  BY <1>3, <1>5 DEF LeftFor
<1> QED
  BY <1>2, <1>6 DEF P

(* The start of a page is on that page. *)
LEMMA NextStartPage ==
    ASSUME NEW s \in Nat
    PROVE  /\ NextStart(s) \in Nat /\ s < NextStart(s) /\ PageOf(NextStart(s)) = PageOf(s) + 1
           /\ NextStart(s) = PageOf(NextStart(s)) * PageSize
<1> DEFINE q == PageOf(s) + 1
           a == q * PageSize
<1>1. q \in Nat /\ s < a /\ PageSize \in Nat /\ PageSize > 0
  BY PageOfBounds, GuestAssumption DEF InsnSize
<1> HIDE DEF q
<1>2. a \in Nat /\ q * PageSize <= a /\ a < (q + 1) * PageSize
  BY <1>1
<1>3. NextStart(s) = a
  BY DEF NextStart, q
<1> HIDE DEF a
<1>4. PageOf(a) = q
  BY <1>1, <1>2, PageOfUnique
<1> QED
  BY <1>1, <1>2, <1>3, <1>4 DEF q, a

LEMMA NextPageInv == ASSUME Inv, NextPage PROVE Inv'
<1> DEFINE s == NextStart(op.start)
<1>0. PICK P : P = PageOf(s)
  OBVIOUS
<1>1. /\ ~ Idle /\ op.kind = "range" /\ op.unlink = NULL /\ op.tb = NULL /\ UNCHANGED cacheVars
      /\ op' = IF s < op.end THEN [op EXCEPT !.start = s, !.tb = ListHead(P)] ELSE NULL
  BY <1>0 DEF NextPage, InLoop
<1>2. /\ op \in OpRecord /\ op.from \in Nat /\ op.start \in Nat /\ op.end \in Nat
      /\ op.from <= op.start /\ op.start < op.end
  BY <1>1, AtEntry DEF OpRecord, Inv, LoopInv
<1>3. s \in Nat /\ op.start < s /\ P = PageOf(op.start) + 1 /\ s = P * PageSize /\ P \in Nat
  BY <1>0, <1>2, NextStartPage, PageOfBounds
<1> HIDE DEF s
<1>4. /\ ListHead(P) \in OnPage(P) \cup {NULL}
      /\ ListHead(P) \in JmpSlots \cup {NULL}
      /\ \A t \in htable, x \in Nat : InCode(tbs[t], x) /\ PageOf(x) = P =>
             \E n \in Slots : /\ page_addr(tbs[t], n) = PageOf(x)
                              /\ Reached(ListHead(P), page_next, OnPage(P), <<t, n>>)
  BY <1>1, <1>3, PageStart
<1>5. htable' = htable /\ tbs' = tbs /\ page_next' = page_next /\ first_tb' = first_tb
      /\ Alloc' = Alloc
  BY <1>1 DEF cacheVars, pageVars, Alloc
<1>6. ASSUME s < op.end
      PROVE  /\ op' \in OpRecord /\ op' # NULL /\ op'.kind = "range" /\ op'.from = op.from
             /\ op'.start = s /\ op'.end = op.end /\ op'.tb = ListHead(P) /\ op'.unlink = NULL
  <2>1. op' = [op EXCEPT !.start = s, !.tb = ListHead(P)]
    BY <1>1, <1>6
  <2>2. op' \in OpRecord
    BY <1>2, <1>3, <1>4, <2>1 DEF OpRecord
  <2> QED
    BY <1>1, <1>2, <2>1, <2>2, OpAssumption DEF OpRecord
<1>7. op' \in OpRecord \cup {NULL} /\ (op' # NULL => op'.kind = "range" /\ op'.unlink = NULL)
  BY <1>1, <1>6
<1>8. CacheInv' /\ JmpCacheCoherent' /\ LayoutInv' /\ PagesInv' /\ RingsInv'
  <2>1. \A p \in Pages : HeadOf(p)' = HeadOf(p)
    BY <1>1, <1>5, <1>7 DEF HeadOf, Idle
  <2> QED
    BY <1>1, <2>1, CacheFrame
<1>9. JumpsInv'
  <2>1. Unlinking = {} /\ Unlinking' = {}
    BY <1>1, <1>5, <1>7, AllocFacts, CacheAssumption DEF Unlinking, Idle
  <2> QED
    BY <1>1, <2>1, JumpsFrame DEF cacheVars, jmpVars
<1>10. ASSUME s < op.end PROVE LoopInv'
  <2>1. OnPage(PageOf(op.start))' = OnPage(P)
    BY <1>0, <1>5, <1>6, <1>10 DEF OnPage
  <2>2. ASSUME NEW t \in htable, NEW x \in op.from .. op.end - 1, InCode(tbs[t], x)
        PROVE  LeftFor(t, tbs[t], x, P, ListHead(P), page_next, OnPage(P))
    <3>1. x \in Nat /\ P <= PageOf(x)
      BY <1>1, <1>3, <2>2, PageFinished
    <3> QED
      BY <1>4, <2>2, <3>1 DEF LeftFor
  <2>3. Passed'
    BY <1>0, <1>5, <1>6, <1>10, <2>1, <2>2 DEF Passed
  <2>4. op.from <= s /\ s = PageOf(s) * PageSize
    BY <1>0, <1>2, <1>3
  <2> QED
    BY <1>4, <1>6, <1>10, <2>1, <2>3, <2>4 DEF LoopInv
<1>11. LoopInv'
  BY <1>1, <1>10 DEF LoopInv, Idle
<1> QED
  BY <1>7, <1>8, <1>9, <1>11 DEF Inv

LEMMA InvalidatePageInv == ASSUME Inv, NEW p \in Pages, InvalidatePage(p) PROVE Inv'
<1> DEFINE o == [kind |-> "page", from |-> 0, start |-> 0, end |-> 0, page |-> p,
                 tb |-> first_tb[p], unlink |-> NULL]
<1>1. Idle /\ op' = o /\ UNCHANGED cacheVars
  BY DEF InvalidatePage
<1>2. o \in OpRecord
  BY DEF OpRecord, Inv, CacheInv, CacheTypeOK
<1>3. /\ op' \in OpRecord /\ op' # NULL /\ op'.kind = "page" /\ op'.page = p
      /\ op'.tb = first_tb[p] /\ op'.unlink = NULL
  BY <1>1, <1>2, OpAssumption
<1> HIDE DEF o
<1>4. first_tb' = first_tb /\ Alloc' = Alloc /\ htable' = htable
  BY <1>1 DEF cacheVars, pageVars, Alloc
<1>5. CacheInv' /\ JmpCacheCoherent' /\ LayoutInv' /\ PagesInv' /\ RingsInv'
  <2>1. \A q \in Pages : HeadOf(q)' = HeadOf(q)
    BY <1>1, <1>3, <1>4 DEF HeadOf, Idle
  <2> QED
    BY <1>1, <2>1, CacheFrame
<1>6. JumpsInv'
  <2>1. Unlinking = {} /\ Unlinking' = {}
    BY <1>1, <1>3, <1>4, AllocFacts, CacheAssumption DEF Unlinking, Idle
  <2> QED
    BY <1>1, <2>1, JumpsFrame DEF cacheVars, jmpVars
<1>7. LoopInv'
  BY <1>3, <1>4 DEF LoopInv
<1> QED
  BY <1>3, <1>5, <1>6, <1>7 DEF Inv

LEMMA PageDoneInv == ASSUME Inv, PageDone PROVE Inv'
<1>1. /\ ~ Idle /\ op.kind = "page" /\ op.unlink = NULL /\ op.tb = NULL /\ op' = NULL
      /\ first_tb' = [first_tb EXCEPT ![op.page] = NULL]
      /\ nb_tbs' = nb_tbs /\ code_gen_ptr' = code_gen_ptr /\ tbs' = tbs /\ htable' = htable
      /\ tb_jmp_cache' = tb_jmp_cache /\ tb_flushed' = tb_flushed /\ jmp' = jmp
      /\ target' = target /\ stray' = stray /\ page_next' = page_next
  BY DEF PageDone, InLoop, EmptyList, jmpVars
<1>2. Alloc' = Alloc /\ op.page \in Pages
  BY <1>1, AtEntry DEF Alloc
<1>3. CacheInv' /\ JmpCacheCoherent' /\ LayoutInv'
  BY <1>1, <1>2 DEF Inv, CacheInv, CacheTypeOK, PointersInv, Written, JmpCacheCoherent, Hash,
                    LayoutInv, CodeLayout
<1>4. PagesInv'
  <2>1. ASSUME NEW p \in Pages PROVE IsPageList(HeadOf(p)', page_next', OnPage(p)')
    <3>1. HeadOf(p)' = HeadOf(p)
      BY <1>1, <1>2 DEF HeadOf, Idle, Inv, CacheInv, CacheTypeOK
    <3>2. OnPage(p)' = OnPage(p)
      BY <1>1 DEF OnPage
    <3> QED
      BY <1>1, <3>1, <3>2 DEF Inv, PagesInv
  <2> QED
    BY <2>1 DEF PagesInv
<1>5. RingsInv' /\ JumpsInv'
  <2>1. Unlinking = {} /\ Unlinking' = {}
    BY <1>1, <1>2, AllocFacts, CacheAssumption DEF Unlinking, Idle
  <2> QED
    BY <1>1, <2>1, JumpsFrame
<1>6. LoopInv'
  BY <1>1 DEF LoopInv, Idle
<1> QED
  BY <1>1, <1>3, <1>4, <1>5, <1>6 DEF Inv

(* A step that changes jumps only. *)
LEMMA JumpStepInv ==
    ASSUME Inv, RingsInv', JumpsInv', jmp' \in JmpFunction, stray' \in SUBSET TBs,
           target' \in [JmpSlots -> TBs \cup {NULL}],
           \A f \in JmpSlots : target'[f] # NULL => Written(target'[f]),
           UNCHANGED <<nb_tbs, code_gen_ptr, tbs, htable, tb_jmp_cache, tb_flushed, pageVars, op>>
    PROVE  Inv'
<1>1. /\ nb_tbs' = nb_tbs /\ code_gen_ptr' = code_gen_ptr /\ tbs' = tbs /\ htable' = htable
      /\ tb_jmp_cache' = tb_jmp_cache /\ tb_flushed' = tb_flushed
      /\ first_tb' = first_tb /\ page_next' = page_next /\ op' = op
  BY DEF pageVars
<1>2. Alloc' = Alloc
  BY <1>1 DEF Alloc
<1>3. CacheInv' /\ JmpCacheCoherent' /\ LayoutInv'
  BY <1>1, <1>2 DEF Inv, CacheInv, CacheTypeOK, PointersInv, Written, JmpCacheCoherent, Hash,
                    LayoutInv, CodeLayout, JmpFunction
<1>4. PagesInv'
  <2>1. ASSUME NEW p \in Pages PROVE IsPageList(HeadOf(p)', page_next', OnPage(p)')
    <3>1. HeadOf(p)' = HeadOf(p) /\ OnPage(p)' = OnPage(p)
      BY <1>1 DEF HeadOf, Idle, OnPage
    <3> QED
      BY <1>1, <3>1 DEF Inv, PagesInv
  <2> QED
    BY <2>1 DEF PagesInv
<1>5. LoopInv'
  <2>1. OnPage(PageOf(op.start))' = OnPage(PageOf(op.start))
    BY <1>1 DEF OnPage
  <2>2. Passed => Passed'
    BY <1>1, <2>1 DEF Passed
  <2> QED
    BY <1>1, <1>2, <2>1, <2>2 DEF Inv, LoopInv, Idle
<1> QED
  BY <1>1, <1>3, <1>4, <1>5 DEF Inv

LEMMA UnlinkJumpInv == ASSUME Inv, UnlinkJump PROVE Inv'
<1>1. RingsInv' /\ JumpsInv' /\ jmp' \in JmpFunction /\ stray' \in SUBSET TBs
  BY UnlinkJumpJumps
<1>2. PICK f : target' = [target EXCEPT ![f] = NULL]
  BY UnlinkJumpJumps
<1>3. target \in [JmpSlots -> TBs \cup {NULL}]
  BY AllocFacts
<1>4. /\ target' \in [JmpSlots -> TBs \cup {NULL}]
      /\ \A g \in JmpSlots : target'[g] # NULL => Written(target'[g])
  BY <1>2, <1>3 DEF Inv, CacheInv, PointersInv
<1>5. UNCHANGED <<nb_tbs, code_gen_ptr, tbs, htable, tb_jmp_cache, tb_flushed, pageVars, op>>
  BY DEF UnlinkJump
<1> QED
  BY <1>1, <1>4, <1>5, JumpStepInv

LEMMA ChainInv ==
    ASSUME Inv, NEW t \in htable, NEW d \in htable, NEW n \in Slots, Chain(t, n, d)
    PROVE  Inv'
<1>1. RingsInv' /\ JumpsInv'
  BY ChainJumps
<1>2. CacheInv /\ Written(t) /\ Written(d) /\ TbAddJump(t, n, d)
  BY DEF Inv, CacheInv, PointersInv, Chain
<1>3. /\ jmp' \in JmpFunction /\ target' \in [JmpSlots -> TBs \cup {NULL}]
      /\ stray' \in SUBSET TBs /\ \A f \in JmpSlots : target'[f] \in {target[f], d}
  BY <1>2, TbAddJumpInv DEF JmpFunction
<1>4. \A g \in JmpSlots : target'[g] # NULL => Written(target'[g])
  BY <1>2, <1>3 DEF CacheInv, PointersInv
<1>5. UNCHANGED <<nb_tbs, code_gen_ptr, tbs, htable, tb_jmp_cache, tb_flushed, pageVars, op>>
  BY DEF Chain
<1> QED
  BY <1>1, <1>3, <1>4, <1>5, JumpStepInv

LEMMA UnlinkDoneInv == ASSUME Inv, UnlinkDone PROVE Inv'
<1>1. /\ ~ Idle /\ op.unlink # NULL /\ UNCHANGED cacheVars /\ op \in OpRecord
      /\ op' = IF op.kind = "one" THEN NULL ELSE [op EXCEPT !.unlink = NULL]
  BY AllocFacts DEF UnlinkDone, Idle
<1>2. RingsInv' /\ JumpsInv'
  BY UnlinkDoneJumps
<1>3. ASSUME op.kind # "one"
      PROVE  /\ op' \in OpRecord /\ op' # NULL /\ op'.kind = op.kind /\ op'.from = op.from
             /\ op'.start = op.start /\ op'.end = op.end /\ op'.page = op.page /\ op'.tb = op.tb
             /\ op'.unlink = NULL
  <2>1. op' = [op EXCEPT !.unlink = NULL]
    BY <1>1, <1>3
  <2>2. op' \in OpRecord
    BY <1>1, <2>1 DEF OpRecord
  <2> QED
    BY <1>1, <2>1, <2>2, OpAssumption DEF OpRecord
<1>4. htable' = htable /\ tbs' = tbs /\ page_next' = page_next /\ first_tb' = first_tb
      /\ Alloc' = Alloc
  BY <1>1 DEF cacheVars, pageVars, Alloc
<1>5. CacheInv' /\ JmpCacheCoherent' /\ LayoutInv' /\ PagesInv'
  <2>1. \A p \in Pages : HeadOf(p)' = HeadOf(p)
    BY <1>1, <1>3, <1>4 DEF HeadOf, Idle
  <2> QED
    BY <1>1, <2>1, CacheFrame
<1>6. ASSUME op.kind # "one" PROVE LoopInv'
  <2>1. OnPage(PageOf(op.start))' = OnPage(PageOf(op.start))
    BY <1>3, <1>4, <1>6 DEF OnPage
  <2>2. Passed => Passed'
    BY <1>3, <1>4, <1>6, <2>1 DEF Passed
  <2> QED
    BY <1>1, <1>3, <1>4, <1>6, <2>1, <2>2 DEF Inv, LoopInv
<1>7. LoopInv' /\ op' \in OpRecord \cup {NULL}
  BY <1>1, <1>3, <1>6 DEF LoopInv, Idle
<1> QED
  BY <1>2, <1>5, <1>7 DEF Inv

LEMMA FindInv == ASSUME Inv, NEW c \in Cpus, NEW k \in Keys, Find(c, k) PROVE Inv'
<1>1. PICK x \in htable : tbs[x].key = k /\ tb_jmp_cache' = JmpCacheEnter(c, k, x)
  BY DEF Find, tb_find_physical
<1>2. /\ UNCHANGED <<nb_tbs, code_gen_ptr, tbs, htable, tb_flushed, jmpVars, pageVars>>
      /\ op' = op /\ Idle /\ CacheInv
  BY DEF Find, Inv
<1>3. CacheInv'
  BY <1>1, <1>2, JmpCacheEnterInv
<1>4. Hash(k) \in 0 .. JmpCacheSize - 1
  BY HashType
<1>5. JmpCacheCoherent'
  BY <1>1, <1>2, <1>4 DEF JmpCacheCoherent, JmpCacheEnter, Hash, Inv, CacheInv, CacheTypeOK
<1>6. Alloc' = Alloc /\ jmp' = jmp /\ target' = target /\ first_tb' = first_tb
      /\ page_next' = page_next /\ htable' = htable /\ tbs' = tbs /\ nb_tbs' = nb_tbs
      /\ code_gen_ptr' = code_gen_ptr
  BY <1>2 DEF Alloc, jmpVars, pageVars
<1>7. LayoutInv'
  BY <1>6 DEF Inv, LayoutInv, CodeLayout, Written
<1>8. RingsInv' /\ JumpsInv'
  <2>1. Unlinking' = Unlinking
    BY <1>2, <1>6 DEF Unlinking, Idle
  <2> QED
    BY <1>6, <2>1, JumpsFrame
<1>9. PagesInv'
  <2>1. ASSUME NEW p \in Pages PROVE IsPageList(HeadOf(p)', page_next', OnPage(p)')
    <3>1. HeadOf(p)' = HeadOf(p) /\ OnPage(p)' = OnPage(p)
      BY <1>2, <1>6 DEF HeadOf, Idle, OnPage
    <3> QED
      BY <1>6, <3>1 DEF Inv, PagesInv
  <2> QED
    BY <2>1 DEF PagesInv
<1>10. LoopInv' /\ op' \in OpRecord \cup {NULL}
  BY <1>2 DEF LoopInv, Idle
<1> QED
  BY <1>3, <1>5, <1>7, <1>8, <1>9, <1>10 DEF Inv

LEMMA FlushInv == ASSUME Inv, NEW k \in Keys, Flush(k) PROVE Inv'
<1>1. TbFlush /\ Idle /\ op' = op /\ CacheInv
  BY DEF Flush, Inv
<1>2. /\ nb_tbs' = 0 /\ htable' = {} /\ tb_jmp_cache' = EmptyJmpCache
      /\ first_tb' = [p \in Pages |-> NULL]
  BY <1>1 DEF TbFlush, JmpCachesFlushed
<1>3. CacheInv' /\ RingsInv' /\ JumpsInv'
  BY <1>1, TbFlushInv, FlushJumps
<1>4. JmpCacheCoherent'
  BY <1>2 DEF JmpCacheCoherent, EmptyJmpCache
<1>5. LayoutInv'
  <2>1. \A x \in TBs : ~ (x < 0)
    BY CacheAssumption DEF TBs
  <2> QED
    BY <1>2, <2>1 DEF LayoutInv, CodeLayout, Alloc
<1>6. PagesInv'
  <2>1. ASSUME NEW p \in Pages PROVE IsPageList(HeadOf(p)', page_next', OnPage(p)')
    <3>1. HeadOf(p)' = NULL /\ OnPage(p)' = {}
      BY <1>1, <1>2 DEF HeadOf, Idle, OnPage
    <3>2. IsRing(PageLink(NULL, page_next'), {NULL}, NULL)
      BY PageLinkAt, RingNew
    <3> QED
      BY <3>1, <3>2 DEF IsPageList
  <2> QED
    BY <2>1 DEF PagesInv
<1>7. LoopInv' /\ op' \in OpRecord \cup {NULL}
  BY <1>1 DEF LoopInv, Idle
<1> QED
  BY <1>3, <1>4, <1>5, <1>6, <1>7 DEF Inv

LEMMA TbFreeInv == ASSUME Inv, NEW t \in TBs, TbFree(t) PROVE Inv'
<1>1. /\ t = nb_tbs - 1 /\ nb_tbs' = nb_tbs - 1 /\ t \notin htable /\ Idle
      /\ code_gen_ptr' = tbs[t].tc_ptr /\ op' = op
      /\ tbs' = tbs /\ htable' = htable /\ tb_jmp_cache' = tb_jmp_cache
      /\ tb_flushed' = tb_flushed /\ jmp' = jmp /\ target' = target /\ stray' = stray
      /\ first_tb' = first_tb /\ page_next' = page_next
  BY DEF TbFree, LastTB, jmpVars, pageVars
<1>2. /\ nb_tbs \in Nat /\ MaxBlocks \in Nat /\ nb_tbs <= MaxBlocks /\ Alloc \in SUBSET TBs
      /\ t \in Alloc /\ Alloc' = Alloc \ {t} /\ t \in Nat
  BY <1>1, AllocFacts DEF Alloc, TBs
<1>3. code_gen_ptr' \in 0 .. BufSize /\ nb_tbs' \in 0 .. MaxBlocks
  <2>1. tbs[t].tc_ptr \in 0 .. BufSize
    BY <1>2, AllocFacts DEF Written, WellFormed, TBRecord
  <2> QED
    BY <1>1, <1>2, <2>1
<1>4. CacheInv' /\ JmpCacheCoherent'
  BY <1>1, <1>3 DEF Inv, CacheInv, CacheTypeOK, PointersInv, Written, JmpCacheCoherent, Hash
<1>5. RingsInv' /\ JumpsInv'
  BY TbFreeJumps
<1>6. LayoutInv'
  <2>1. ASSUME NEW x \in TBs, x < nb_tbs'
        PROVE  tbs[x].tc_ptr + CodeLen(tbs[x])
                 <= (IF x + 1 < nb_tbs' THEN tbs[x + 1].tc_ptr ELSE code_gen_ptr')
    <3>1. x \in Nat /\ x < nb_tbs - 1 /\ x < nb_tbs /\ x + 1 < nb_tbs
      BY <1>1, <1>2, <2>1 DEF TBs
    <3>2. tbs[x].tc_ptr + CodeLen(tbs[x]) <= tbs[x + 1].tc_ptr
      BY <2>1, <3>1 DEF Inv, LayoutInv, CodeLayout
    <3>3. ~ (x + 1 < nb_tbs') => x + 1 = t
      BY <1>1, <1>2, <3>1
    <3> QED
      BY <1>1, <3>2, <3>3
  <2>2. htable' \subseteq 0 .. nb_tbs' - 1
    <3>1. htable \subseteq Alloc /\ Alloc' = 0 .. nb_tbs' - 1
      BY AllocFacts DEF Alloc
    <3> QED
      BY <1>1, <1>2, <3>1
  <2>3. CodeLayout'
    BY <1>1, <2>1, <2>2 DEF CodeLayout, CodeLen
  <2>4. \A x \in Alloc' : Written(x)'
    BY <1>1, <1>2, AllocFacts DEF Written
  <2> QED
    BY <2>3, <2>4 DEF LayoutInv
<1>7. PagesInv'
  <2>1. ASSUME NEW p \in Pages PROVE IsPageList(HeadOf(p)', page_next', OnPage(p)')
    <3>1. HeadOf(p)' = HeadOf(p) /\ OnPage(p)' = OnPage(p)
      BY <1>1 DEF HeadOf, Idle, OnPage
    <3> QED
      BY <1>1, <3>1 DEF Inv, PagesInv
  <2> QED
    BY <2>1 DEF PagesInv
<1>8. LoopInv' /\ op' \in OpRecord \cup {NULL}
  BY <1>1 DEF LoopInv, Idle
<1> QED
  BY <1>4, <1>5, <1>6, <1>7, <1>8 DEF Inv

(* tb_alloc_page puts the new TB at the head of a list. *)
LEMMA PageListInsert ==
    ASSUME NEW h, NEW x, NEW y, NEW S \in SUBSET JmpSlots, IsPageList(h, x, S),
           NEW f \in JmpSlots, f \notin S, y[f] = h, \A g \in S : y[g] = x[g]
    PROVE  IsPageList(f, y, S \cup {f})
<1> DEFINE i == PageLink(h, x)
           j == PageLink(f, y)
           M == S \cup {NULL}
<1>1. IsRing(i, M, NULL)
  BY DEF IsPageList
<1>2. f # NULL /\ f \notin M /\ j[NULL] = f /\ j[f] = i[NULL]
  BY FieldFacts, PageLinkAt
<1>3. \A g \in M \ {NULL} : j[g] = i[g]
  BY PageLinkAt
<1>4. M \cup {f} = (S \cup {f}) \cup {NULL}
  OBVIOUS
<1> HIDE DEF i, j, M
<1>5. IsRing(j, M \cup {f}, NULL)
  BY <1>1, <1>2, <1>3, RingInsert
<1> QED
  BY <1>4, <1>5 DEF IsPageList, j

LEMMA GeneratePages ==
    ASSUME Inv, NEW c \in Cpus, NEW k \in Keys, Generate(c, k)
    PROVE  PagesInv'
<1>0. PICK t : t = nb_tbs
  OBVIOUS
<1> DEFINE b  == Translate(k, neon_icount(k))
           p0 == page_addr(b, 0)
           p1 == page_addr(b, 1)
           f0 == <<t, 0>>
           f1 == <<t, 1>>
<1>1. CacheInv /\ neon_icount(k) \in 1 .. MaxInsns /\ TbGenCode(k, neon_icount(k)) /\ Idle /\ op' = op
  BY NeonIcountType DEF Inv, Generate
<1>2. /\ t \in TBs /\ htable' = htable \cup {t} /\ WellFormed(tbs'[t])
      /\ \A x \in TBs : x # t => tbs'[x] = tbs[x]
  BY <1>0, <1>1, TbGenCodeEntry
<1>3. /\ first_tb' = [p \in Pages |-> IF p = p0 THEN f0 ELSE IF p = p1 THEN f1 ELSE first_tb[p]]
      /\ page_next' = [f \in JmpSlots |->
                          IF f = f0 THEN first_tb[p0]
                          ELSE IF f = f1 /\ p1 # -1 THEN first_tb[p1] ELSE page_next[f]]
      /\ tbs' = [tbs EXCEPT ![t] = [key |-> k, insns |-> b.insns, exits |-> b.exits,
                                    slots |-> b.slots, tc_ptr |-> code_gen_ptr]]
  BY <1>0, <1>1 DEF TbGenCode, TbLinkPage
<1>4. tbs'[t].key = b.key /\ tbs'[t].insns = b.insns
  BY <1>1, <1>2, <1>3 DEF CacheInv, CacheTypeOK, Translate
<1>5. page_addr(tbs'[t], 0) = p0 /\ page_addr(tbs'[t], 1) = p1
  BY <1>4 DEF page_addr, LastByte
<1>6. p0 \in Pages /\ p1 \in Pages \cup {-1} /\ p0 # p1
  BY <1>2, <1>5, PageAddrFacts
<1>7. /\ t \notin htable /\ htable \subseteq TBs
  BY <1>0, AllocFacts DEF Alloc
<1> HIDE DEF p0, p1, f0, f1, b
<1>8. f0 \in JmpSlots /\ f1 \in JmpSlots /\ f0 # f1
  BY <1>2 DEF f0, f1, JmpSlots, Slots
<1>9. ASSUME NEW p \in Pages
      PROVE  /\ OnPage(p)' = OnPage(p) \cup (IF p = p0 THEN {f0} ELSE IF p = p1 THEN {f1} ELSE {})
             /\ f0 \notin OnPage(p) /\ f1 \notin OnPage(p)
  <2>1. f0 \notin OnPage(p) /\ f1 \notin OnPage(p)
    BY <1>7 DEF OnPage, f0, f1
  <2>2. ASSUME NEW f \in htable \X Slots PROVE f \in OnPage(p)' <=> f \in OnPage(p)
    <3>1. tbs'[f[1]] = tbs[f[1]] /\ f \in htable' \X Slots
      BY <1>2, <1>7
    <3> QED
      BY <3>1 DEF OnPage
  <2>3. (f0 \in OnPage(p)' <=> p = p0) /\ (f1 \in OnPage(p)' <=> p = p1)
    BY <1>2, <1>5 DEF OnPage, f0, f1, Slots
  <2>4. \A f \in OnPage(p)' : f \in htable \X Slots \/ f = f0 \/ f = f1
    BY <1>2 DEF OnPage, f0, f1, Slots
  <2>5. \A f \in OnPage(p) : f \in htable \X Slots
    BY DEF OnPage
  <2> QED
    BY <1>6, <2>1, <2>2, <2>3, <2>4, <2>5
<1>10. ASSUME NEW p \in Pages PROVE IsPageList(HeadOf(p)', page_next', OnPage(p)')
  <2>1. HeadOf(p)' = first_tb'[p] /\ HeadOf(p) = first_tb[p]
    BY <1>1 DEF HeadOf, Idle
  <2>2. IsPageList(first_tb[p], page_next, OnPage(p)) /\ OnPage(p) \in SUBSET JmpSlots
    BY <2>1, OnPageFacts DEF Inv, PagesInv
  <2>3. \A f \in OnPage(p) : page_next'[f] = page_next[f]
    BY <1>3, <1>9, <2>2
  <2>4. CASE p = p0
    <3>1. first_tb'[p] = f0 /\ page_next'[f0] = first_tb[p] /\ OnPage(p)' = OnPage(p) \cup {f0}
      BY <1>3, <1>8, <1>9, <2>4
    <3>2. IsPageList(f0, page_next', OnPage(p) \cup {f0})
      BY <1>8, <1>9, <2>2, <2>3, <3>1, PageListInsert
    <3> QED
      BY <2>1, <3>1, <3>2
  <2>5. CASE p = p1 /\ p # p0
    <3>1. first_tb'[p] = f1 /\ page_next'[f1] = first_tb[p] /\ OnPage(p)' = OnPage(p) \cup {f1}
      BY <1>3, <1>8, <1>9, <2>5, PagesType
    <3>2. IsPageList(f1, page_next', OnPage(p) \cup {f1})
      BY <1>8, <1>9, <2>2, <2>3, <3>1, PageListInsert
    <3> QED
      BY <2>1, <3>1, <3>2
  <2>6. CASE p # p0 /\ p # p1
    <3>1. first_tb'[p] = first_tb[p] /\ OnPage(p)' = OnPage(p)
      BY <1>3, <1>9, <2>6
    <3>2. IsPageList(first_tb[p], page_next', OnPage(p))
      BY <2>2, <2>3, PageListFrame
    <3> QED
      BY <2>1, <3>1, <3>2
  <2> QED
    BY <2>4, <2>5, <2>6
<1> QED
  BY <1>10 DEF PagesInv

LEMMA GenerateInv == ASSUME Inv, NEW c \in Cpus, NEW k \in Keys, Generate(c, k) PROVE Inv'
<1> DEFINE t == nb_tbs
           b == Translate(k, neon_icount(k))
<1>1. /\ CacheInv /\ neon_icount(k) \in 1 .. MaxInsns /\ TbGenCode(k, neon_icount(k))
      /\ Idle /\ op' = op /\ tb_jmp_cache' = JmpCacheEnter(c, k, nb_tbs) /\ UNCHANGED tb_flushed
  BY NeonIcountType DEF Inv, Generate
<1>2. RingsInv' /\ JumpsInv' /\ PagesInv'
  BY GenerateJumps, GeneratePages
<1>3. CacheInv' /\ \A x : Written(x) => Written(x)'
  BY <1>1, TbGenCodeInv
<1>4. /\ t \in TBs /\ nb_tbs' = t + 1 /\ htable' = htable \cup {t} /\ WellFormed(tbs'[t])
      /\ tbs'[t].key = k /\ \A x \in TBs : x # t => tbs'[x] = tbs[x]
  BY <1>1, TbGenCodeEntry
<1>5. /\ tbs' = [tbs EXCEPT ![t] = [key |-> k, insns |-> b.insns, exits |-> b.exits,
                                    slots |-> b.slots, tc_ptr |-> code_gen_ptr]]
      /\ code_gen_ptr' = code_gen_ptr + b.insns
  BY <1>1 DEF TbGenCode, CodeLen
<1>6. tbs'[t].tc_ptr = code_gen_ptr /\ tbs'[t].insns = b.insns
  BY <1>1, <1>4, <1>5 DEF CacheInv, CacheTypeOK
<1>7. /\ t \in Nat /\ htable \subseteq Alloc /\ t \notin htable /\ code_gen_ptr \in Nat
      /\ \A x \in Alloc : Written(x)
  BY <1>1, AllocFacts, CacheAssumption DEF Alloc, CacheInv, CacheTypeOK
<1>8. JmpCacheCoherent'
  <2>1. Hash(k) \in 0 .. JmpCacheSize - 1
    BY HashType
  <2>2. ASSUME NEW d \in Cpus, NEW h \in 0 .. JmpCacheSize - 1, tb_jmp_cache'[d][h] # NULL
        PROVE  /\ tb_jmp_cache'[d][h] \in htable'
               /\ Hash(tbs'[tb_jmp_cache'[d][h]].key) = h
    <3>1. CASE d = c /\ h = Hash(k)
      <4>1. tb_jmp_cache'[d][h] = t
        BY <1>1, <2>1, <3>1 DEF JmpCacheEnter, CacheInv, CacheTypeOK
      <4> QED
        BY <1>4, <3>1, <4>1
    <3>2. CASE ~ (d = c /\ h = Hash(k))
      <4>1. tb_jmp_cache'[d][h] = tb_jmp_cache[d][h]
        BY <1>1, <2>1, <3>2 DEF JmpCacheEnter, CacheInv, CacheTypeOK
      <4>2. tb_jmp_cache[d][h] \in htable /\ Hash(tbs[tb_jmp_cache[d][h]].key) = h
        BY <2>2, <4>1 DEF Inv, JmpCacheCoherent
      <4>3. tbs'[tb_jmp_cache[d][h]] = tbs[tb_jmp_cache[d][h]]
        BY <1>4, <1>7, <4>2, AllocFacts
      <4> QED
        BY <1>4, <4>1, <4>2, <4>3
    <3> QED
      BY <3>1, <3>2
  <2> QED
    BY <2>2 DEF JmpCacheCoherent, Hash
<1>9. LayoutInv'
  <2>1. ASSUME NEW x \in TBs, x < t + 1
        PROVE  tbs'[x].tc_ptr + tbs'[x].insns
                 <= (IF x + 1 < t + 1 THEN tbs'[x + 1].tc_ptr ELSE code_gen_ptr')
    <3>0. x \in Nat
      BY CacheAssumption DEF TBs
    <3>1. CASE x = t
      <4>1. code_gen_ptr' \in 0 .. BufSize /\ b.insns \in 1 .. MaxInsns
        BY <1>1, TbGenCodeEntry, TranslateType
      <4> QED
        BY <1>5, <1>6, <1>7, <3>1, <4>1, MaxInsnsType
    <3>2. CASE x < t
      <4>1. tbs[x].tc_ptr + tbs[x].insns <= (IF x + 1 < t THEN tbs[x + 1].tc_ptr ELSE code_gen_ptr)
        BY <2>1, <3>2 DEF Inv, LayoutInv, CodeLayout, CodeLen
      <4>2. tbs'[x] = tbs[x]
        BY <1>4, <1>7, <3>0, <3>2
      <4>3. CASE x + 1 < t
        <5>1. x + 1 \in TBs /\ x + 1 # t
          BY <1>4, <1>7, <3>0, <4>3, CacheAssumption DEF TBs
        <5> QED
          BY <1>4, <1>7, <3>0, <4>1, <4>2, <4>3, <5>1
      <4>4. CASE x + 1 = t
        BY <1>6, <1>7, <3>0, <4>1, <4>2, <4>4
      <4> QED
        BY <1>7, <3>0, <3>2, <4>3, <4>4
    <3> QED
      BY <1>7, <2>1, <3>0, <3>1, <3>2
  <2>2. htable' \subseteq 0 .. nb_tbs' - 1
    <3>1. t \in Nat /\ nb_tbs' = t + 1 /\ htable' = htable \cup {t} /\ htable \subseteq 0 .. t - 1
      BY <1>4, <1>7 DEF Alloc
    <3> HIDE DEF t
    <3> QED
      BY <3>1
  <2>3. \A x \in TBs : x < nb_tbs' =>
            tbs'[x].tc_ptr + tbs'[x].insns
              <= (IF x + 1 < nb_tbs' THEN tbs'[x + 1].tc_ptr ELSE code_gen_ptr')
    <3>1. nb_tbs' = t + 1
      BY <1>4
    <3> HIDE DEF t
    <3> QED
      BY <2>1, <3>1
  <2>4. CodeLayout'
    BY <2>2, <2>3 DEF CodeLayout, CodeLen
  <2>5. \A x \in Alloc' : x \in Alloc \/ x = t
    BY <1>4, <1>7 DEF Alloc
  <2>6. ASSUME NEW x \in Alloc' PROVE Written(x)'
    <3>1. CASE x \in Alloc
      BY <1>3, <1>7, <3>1
    <3>2. CASE x = t
      BY <1>4, <3>2 DEF Written
    <3> QED
      BY <2>5, <3>1, <3>2
  <2> QED
    BY <2>4, <2>6 DEF LayoutInv
<1>10. LoopInv' /\ op' \in OpRecord \cup {NULL}
  BY <1>1 DEF LoopInv, Idle
<1> QED
  BY <1>2, <1>3, <1>8, <1>9, <1>10 DEF Inv

-----------------------------------------------------------------------------
(* The theorems. *)

LEMMA InvInit == Init => Inv
<1> SUFFICES ASSUME Init PROVE Inv
  OBVIOUS
<1>1. CacheInit /\ op = NULL
  BY DEF Init
<1>2. CacheInv
  BY <1>1, CacheInvInit
<1>3. nb_tbs = 0 /\ htable = {} /\ Alloc = {} /\ Idle
  BY <1>1 DEF CacheInit, Alloc, Idle
<1>4. JmpCacheCoherent
  BY <1>1 DEF CacheInit, EmptyJmpCache, JmpCacheCoherent
<1>5. LayoutInv
  <2>1. \A x \in TBs : ~ (x < 0)
    BY CacheAssumption DEF TBs
  <2> QED
    BY <1>3, <2>1 DEF LayoutInv, CodeLayout
<1>6. RingsInv /\ JumpsInv
  BY <1>3 DEF RingsInv, Rings, JumpsInv
<1>7. PagesInv
  <2>1. ASSUME NEW p \in Pages PROVE IsPageList(HeadOf(p), page_next, OnPage(p))
    <3>1. HeadOf(p) = NULL /\ OnPage(p) = {}
      BY <1>1, <1>3 DEF HeadOf, OnPage, CacheInit
    <3>2. IsRing(PageLink(NULL, page_next), {NULL}, NULL)
      BY PageLinkAt, RingNew
    <3> QED
      BY <3>1, <3>2 DEF IsPageList
  <2> QED
    BY <2>1 DEF PagesInv
<1>8. LoopInv
  BY <1>3 DEF LoopInv
<1> QED
  BY <1>1, <1>2, <1>4, <1>5, <1>6, <1>7, <1>8 DEF Inv

LEMMA InvStep == Inv /\ [Next]_vars => Inv'
<1> SUFFICES ASSUME Inv, [Next]_vars PROVE Inv'
  OBVIOUS
<1>1. ASSUME NEW c \in Cpus, NEW k \in Keys, Find(c, k) \/ Generate(c, k) PROVE Inv'
  BY <1>1, FindInv, GenerateInv
<1>2. ASSUME NEW k \in Keys, Flush(k) PROVE Inv'
  BY <1>2, FlushInv
<1>3. ASSUME NEW t \in htable, NEW d \in htable, NEW n \in Slots, Chain(t, n, d) PROVE Inv'
  BY <1>3, ChainInv
<1>4. ASSUME NEW t \in htable, InvalidateOne(t) PROVE Inv'
  BY <1>4, InvalidateOneInv
<1>5. ASSUME NEW r \in Ranges, InvalidateRange(r[1], r[2]) PROVE Inv'
  BY <1>5, InvalidateRangeInv
<1>6. ASSUME NEW p \in Pages, InvalidatePage(p) PROVE Inv'
  BY <1>6, InvalidatePageInv
<1>7. CASE VisitRangeTB \/ NextPage \/ VisitPageTB \/ PageDone
  BY <1>7, VisitRangeTBInv, NextPageInv, VisitPageTBInv, PageDoneInv
<1>8. CASE UnlinkJump \/ UnlinkDone
  BY <1>8, UnlinkJumpInv, UnlinkDoneInv
<1>9. ASSUME NEW t \in TBs, TbFree(t) PROVE Inv'
  BY <1>9, TbFreeInv
<1>10. CASE UNCHANGED vars
  <2>1. /\ UNCHANGED <<nb_tbs, code_gen_ptr, tbs, htable, tb_jmp_cache, tb_flushed, pageVars, op>>
        /\ jmp' = jmp /\ target' = target /\ stray' = stray
    BY <1>10 DEF vars, cacheVars, jmpVars
  <2>2. RingsInv' /\ JumpsInv'
    <3>1. Unlinking' = Unlinking
      BY <2>1 DEF Unlinking, Alloc, Idle
    <3> QED
      BY <2>1, <3>1, JumpsFrame
  <2>3. /\ jmp' \in JmpFunction /\ stray' \in SUBSET TBs
        /\ target' \in [JmpSlots -> TBs \cup {NULL}]
        /\ \A f \in JmpSlots : target'[f] # NULL => Written(target'[f])
    BY <2>1 DEF Inv, CacheInv, CacheTypeOK, PointersInv, JmpFunction
  <2> QED
    BY <2>1, <2>2, <2>3, JumpStepInv
<1> QED
  BY <1>1, <1>2, <1>3, <1>4, <1>5, <1>6, <1>7, <1>8, <1>9, <1>10 DEF Next

(* The lists of the cache are intact at every step of every operation.     *)
LEMMA Invariance == Spec => []Inv
BY InvInit, InvStep, PTL DEF Spec

(* Everything stays of its type: the tagged pointers of translate-all.c    *)
(* lead to entries of tbs[], whatever the invalidations do to the lists.   *)
THEOREM TypeCorrect == Spec => []TypeOK
<1>1. Inv => TypeOK
  BY DEF Inv, CacheInv, TypeOK
<1> QED
  BY <1>1, Invariance, PTL

(* tb_gen_code, tb_free and tb_flush keep the TBs in use in the order of   *)
(* their code, without overlap, as the binary search of tb_find_pc needs.  *)
THEOREM CodeLaidOut == Spec => []CodeLayout
<1>1. Inv => CodeLayout
  BY DEF Inv, LayoutInv
<1> QED
  BY <1>1, Invariance, PTL

(* tb_phys_invalidate leaves no TB in a jump cache that the hash table     *)
(* does not have, and none in an entry that its pc does not hash to.       *)
THEOREM JmpCachesCoherent == Spec => []JmpCacheCoherent
<1>1. Inv => JmpCacheCoherent
  BY DEF Inv
<1> QED
  BY <1>1, Invariance, PTL

(* Once tb_jmp_unlink is done, no TB that a lookup can return jumps to the *)
(* one that was invalidated, whatever chains tb_add_jump had made.         *)
THEOREM JumpsUnlinked == Spec => []NoJumpToInvalidated
<1>1. ASSUME Inv, Idle, NEW t \in htable, NEW n \in tbs[t].slots
      PROVE  target[<<t, n>>] \in htable \cup {NULL}
  <2>1. t \in Alloc /\ htable \subseteq Alloc /\ WellFormed(tbs[t])
    BY <1>1, AllocFacts DEF Written
  <2>2. n \in Slots
    BY <2>1 DEF WellFormed, TBRecord
  <2>3. Unlinking = {}
    BY <1>1 DEF Unlinking
  <2>4. <<t, n>> \in htable \X Slots /\ <<t, n>> \in Alloc \X Slots
    BY <2>1, <2>2
  <2> QED
    BY <1>1, <2>3, <2>4 DEF Inv, JumpsInv
<1>2. Inv => NoJumpToInvalidated
  BY <1>1 DEF NoJumpToInvalidated, NoJumpToDeadTB
<1> QED
  BY <1>2, Invariance, PTL

(* When tb_invalidate_phys_range is done, no code in its range is left,    *)
(* wherever the pages begin and whatever TBs cross them.                   *)
THEOREM RangesInvalidated == Spec => RangeInvalidated
<1>1. ASSUME Inv, [Next]_vars, ~ Idle, op.kind = "range", op' = NULL
      PROVE  NextPage /\ ~ (NextStart(op.start) < op.end) /\ op.tb = NULL
  <2>1. op \in OpRecord /\ op # NULL
    BY <1>1, AllocFacts DEF Idle
  <2>2. ~ VisitRangeTB
    <3> SUFFICES ASSUME VisitRangeTB PROVE FALSE
      OBVIOUS
    <3>1. PICK P : P = PageOf(op.start)
      OBVIOUS
    <3>2. op.tb # NULL /\ op.unlink = NULL
      BY DEF VisitRangeTB, InLoop
    <3>3. page_next[op.tb] \in JmpSlots \cup {NULL} /\ op.tb[1] \in TBs
      BY <1>1, <3>1, <3>2, NextEntry, AllocFacts
    <3>4. op' = OpWith(op, page_next[op.tb], op.tb[1]) \/ op' = [op EXCEPT !.tb = page_next[op.tb]]
      BY DEF VisitRangeTB, OpWith
    <3>5. [op EXCEPT !.tb = page_next[op.tb]] = OpWith(op, page_next[op.tb], NULL)
      BY <2>1, <3>2 DEF OpWith, OpRecord
    <3> QED
      BY <1>1, <2>1, <3>3, <3>4, <3>5, OpWithType
  <2>3. ~ UnlinkDone
    <3> SUFFICES ASSUME UnlinkDone PROVE FALSE
      OBVIOUS
    <3>1. op' = [op EXCEPT !.unlink = NULL]
      BY <1>1 DEF UnlinkDone
    <3>2. op' \in OpRecord
      BY <2>1, <3>1 DEF OpRecord
    <3> QED
      BY <1>1, <3>2, OpAssumption
  <2>4. ~ UnlinkJump /\ ~ UNCHANGED vars
    BY <1>1 DEF UnlinkJump, vars, Idle
  <2>5. ~ VisitPageTB /\ ~ PageDone
    BY <1>1 DEF VisitPageTB, PageDone, InLoop
  <2>6. NextPage
    BY <1>1, <2>2, <2>3, <2>4, <2>5
       DEF Next, Find, Generate, Flush, Chain, InvalidateOne, InvalidateRange, InvalidatePage, TbFree
  <2>7. ~ (NextStart(op.start) < op.end)
    <3> SUFFICES ASSUME NextStart(op.start) < op.end PROVE FALSE
      OBVIOUS
    <3>1. op.start \in Nat
      BY <2>1 DEF OpRecord
    <3> DEFINE q == NextStart(op.start)
    <3>2. q \in Nat /\ PageOf(q) \in Nat
      BY <3>1, NextStartPage, PageOfBounds
    <3>3. ListHead(PageOf(q)) \in JmpSlots \cup {NULL}
      BY <1>1, <3>2, PageStart
    <3>4. op' = [op EXCEPT !.start = q, !.tb = ListHead(PageOf(q))]
      BY <2>6 DEF NextPage
    <3> HIDE DEF q
    <3>5. op' \in OpRecord
      BY <2>1, <3>2, <3>3, <3>4 DEF OpRecord
    <3> QED
      BY <1>1, <3>5, OpAssumption
  <2> QED
    BY <2>6, <2>7 DEF NextPage
<1>2. ASSUME Inv, [Next]_vars, ~ Idle, op.kind = "range", op' = NULL, NEW t \in htable'
      PROVE  LastByte(tbs[t]) < op.from \/ tbs[t].key.pc >= op.end
  <2>1. NextPage /\ ~ (NextStart(op.start) < op.end) /\ op.tb = NULL
    BY <1>1, <1>2
  <2>2. t \in htable
    BY <2>1 DEF NextPage, cacheVars
  <2>3. /\ op.from \in Nat /\ op.start \in Nat /\ op.end \in Nat /\ op.from < op.end
    BY <1>2, AtEntry DEF OpRecord, Inv, LoopInv
  <2>4. WellFormed(tbs[t])
    BY <1>2, <2>2, OnPageFacts
  <2>5. PICK a \in Nat : /\ tbs[t].key.pc \in Nat /\ tbs[t].key.pc <= a
                         /\ LastByte(tbs[t]) = a + 1
    BY <2>4, LastInsn
  <2> SUFFICES ASSUME ~ (LastByte(tbs[t]) < op.from), ~ (tbs[t].key.pc >= op.end) PROVE FALSE
    OBVIOUS
  <2> DEFINE pc == tbs[t].key.pc
             x  == IF pc <= op.from THEN op.from ELSE pc
  <2>6. x \in op.from .. op.end - 1 /\ pc <= x /\ x <= LastByte(tbs[t]) /\ x < op.end /\ x \in Nat
    BY <2>3, <2>5
  <2> HIDE DEF x
  <2>7. PageOf(op.start) + 1 <= PageOf(x)
    BY <1>2, <2>1, <2>2, <2>6, PageFinished DEF InCode
  <2>8. NextStart(op.start) <= x
    <3> DEFINE q == PageOf(op.start) + 1
    <3>1. q \in Nat /\ PageOf(x) \in Nat /\ PageSize \in Nat /\ PageOf(x) * PageSize <= x
      BY <2>3, <2>6, PageOfBounds, GuestAssumption
    <3>2. NextStart(op.start) = q * PageSize
      BY DEF NextStart
    <3>3. q <= PageOf(x)
      BY <2>7
    <3> HIDE DEF q
    <3>4. \A i, j, k \in Nat : i <= j => i * k <= j * k
      OBVIOUS
    <3>5. q * PageSize <= PageOf(x) * PageSize
      BY <3>1, <3>3, <3>4
    <3>6. q * PageSize \in Nat /\ PageOf(x) * PageSize \in Nat
      BY <3>1
    <3> QED
      BY <2>6, <3>1, <3>2, <3>5, <3>6
  <2> QED
    BY <2>1, <2>3, <2>6, <2>8, NextStartPage
<1>3. Inv /\ [Next]_vars =>
        [(~ Idle /\ op.kind = "range" /\ op' = NULL) =>
            \A t \in htable' :
               \/ LastByte(tbs[t]) < op.from
               \/ tbs[t].key.pc >= op.end]_vars
  BY <1>2
<1> QED
  BY <1>3, Invariance, PTL DEF Spec, RangeInvalidated

(* The slots are no more than a walk has steps. *)
LEMMA SlotsFinite ==
    /\ 2 * MaxBlocks \in Nat
    /\ IsFiniteSet(JmpSlots) /\ Cardinality(JmpSlots) <= 2 * MaxBlocks
<1>1. MaxBlocks \in Nat
  BY CacheAssumption
<1>2. /\ IsFiniteSet(0 .. MaxBlocks - 1) /\ Cardinality(0 .. MaxBlocks - 1) = MaxBlocks
      /\ IsFiniteSet(0 .. 1) /\ Cardinality(0 .. 1) = 2
  <2>1. 0 \in Int /\ 1 \in Int /\ MaxBlocks - 1 \in Int
    BY <1>1
  <2>2. /\ IsFiniteSet(0 .. MaxBlocks - 1)
        /\ Cardinality(0 .. MaxBlocks - 1) = IF 0 > MaxBlocks - 1 THEN 0 ELSE (MaxBlocks - 1) - 0 + 1
    BY <2>1, FS_Interval
  <2>3. IsFiniteSet(0 .. 1) /\ Cardinality(0 .. 1) = IF 0 > 1 THEN 0 ELSE 1 - 0 + 1
    BY <2>1, FS_Interval
  <2> QED
    BY <1>1, <2>2, <2>3
<1>3. /\ IsFiniteSet((0 .. MaxBlocks - 1) \X (0 .. 1))
      /\ Cardinality((0 .. MaxBlocks - 1) \X (0 .. 1)) = MaxBlocks * 2
  <2> DEFINE A == 0 .. MaxBlocks - 1
             B == 0 .. 1
  <2> HIDE DEF A, B
  <2>1. IsFiniteSet(A \X B) /\ Cardinality(A \X B) = Cardinality(A) * Cardinality(B)
    BY <1>2, FS_Product DEF A, B
  <2> QED
    BY <1>2, <2>1 DEF A, B
<1> QED
  BY <1>1, <1>3 DEF JmpSlots, TBs, Slots

(* The members of the list of d in the terms of JmpListExact. *)
LEMMA JmpListMembers ==
    ASSUME Inv, NEW d \in htable
    PROVE  Members(Alloc, jmp, target, d) \ {First(d)} = {f \in htable \X Slots : target[f] = d}
<1>1. /\ htable \subseteq Alloc /\ Alloc \subseteq TBs /\ d # NULL
  BY AllocFacts, CacheAssumption
<1>2. ASSUME NEW f \in Alloc \X Slots, jmp[f] # NULL PROVE f \in htable \X Slots
  BY <1>2 DEF Inv, JumpsInv
<1>3. ASSUME NEW f \in htable \X Slots, target[f] = d PROVE jmp[f] # NULL
  BY <1>1, <1>3 DEF Inv, JumpsInv
<1>4. \A f \in htable \X Slots : f \in Alloc \X Slots /\ f # First(d)
  BY <1>1, FieldFacts
<1>5. First(d) \notin Alloc \X Slots
  BY FieldFacts
<1> QED
  BY <1>2, <1>3, <1>4, <1>5 DEF Members, Jumpers

(* The walk of JmpListExact is a walk along the ring. *)
LEMMA JmpWalkRing ==
    ASSUME Inv, NEW d \in htable, NEW g, NEW M, M = Members(Alloc, jmp, target, d),
           IsWalk(g, 2 * MaxBlocks, M, jmp, First(d))
    PROVE  JmpWalk(d) = g
<1> DEFINE K == 2 * MaxBlocks
           StepFrom(f) == IF f = NULL THEN NULL ELSE IF f[2] = 2 THEN f ELSE jmp[f]
           F(w) == [i \in 0 .. K |-> IF i = 0 THEN jmp[First(d)] ELSE StepFrom(w[i - 1])]
<1>1. K \in Nat
  BY SlotsFinite
<1>2. ASSUME NEW f \in M PROVE StepFrom(f) = RingStep(jmp, First(d), f)
  <2>1. f \in JmpFields /\ f # NULL
    BY AllocFacts, FieldFacts, MembersNotNull DEF Inv, RingsInv
  <2>2. CASE f = First(d)
    BY <2>1, <2>2 DEF RingStep, First
  <2>3. CASE f # First(d)
    <3>1. f \in Alloc \X Slots
      BY <2>3 DEF Members, Jumpers
    <3>2. f[2] # 2
      BY <3>1 DEF Slots
    <3> QED
      BY <2>1, <2>3, <3>2 DEF RingStep
  <2> QED
    BY <2>2, <2>3
<1>3. /\ g \in [0 .. K -> M] /\ g[0] = jmp[First(d)]
      /\ \A i \in 1 .. K : g[i] = RingStep(jmp, First(d), g[i - 1])
  BY DEF IsWalk
<1>4. \A i \in 1 .. K : g[i] = StepFrom(g[i - 1])
  <2> HIDE DEF StepFrom, K
  <2> QED
    BY <1>1, <1>2, <1>3
<1>5. g = F(g)
  <2> HIDE DEF StepFrom, K
  <2> QED
    BY <1>1, <1>3, <1>4
<1>6. JmpWalk(d) = CHOOSE w : w = F(w)
  BY DEF JmpWalk
<1> DEFINE w == JmpWalk(d)
<1>7. w = F(w)
  <2> HIDE DEF F
  <2> QED
    BY <1>5, <1>6
<1>8. w = g
  <2> HIDE DEF StepFrom, K, w
  <2>1. w \in [0 .. K -> {w[i] : i \in 0 .. K}]
    BY <1>7
  <2>2. w[0] = jmp[First(d)] /\ \A i \in 1 .. K : w[i] = StepFrom(w[i - 1])
    BY <1>1, <1>7
  <2> DEFINE T == {i \in 0 .. K : w[i] = g[i]}
  <2>3. 0 \in T /\ \A i \in 1 .. K : i - 1 \in T => i \in T
    BY <1>1, <1>3, <1>4, <2>2
  <2>4. \A i \in 0 .. K : i \in T
    <3> HIDE DEF T
    <3> QED
      BY <1>1, <2>3, AllSteps
  <2>5. \A i \in 0 .. K : w[i] = g[i]
    BY <2>4
  <2> HIDE DEF T
  <2>6. w = [i \in 0 .. K |-> w[i]] /\ g = [i \in 0 .. K |-> g[i]]
    BY <1>3, <2>1
  <2> QED
    BY <2>5, <2>6
<1> QED
  BY <1>8

(* tb_add_jump, tb_remove_from_jmp_list and tb_jmp_unlink keep the list of *)
(* every TB that a lookup can return exact: it comes back to the TB, and   *)
(* holds each jump patched to go there, at every step of an invalidation.  *)
THEOREM JmpListsIntact == Spec => []JmpListsExact
<1>1. ASSUME Inv, NEW d \in htable PROVE JmpListExact(d)
  <2> DEFINE K == 2 * MaxBlocks
  <2>1. PICK M : M = Members(Alloc, jmp, target, d)
    OBVIOUS
  <2>2. IsRing(jmp, M, First(d))
    BY <1>1, <2>1, AllocFacts DEF Inv, RingsInv, Rings
  <2>3. M \ {First(d)} \subseteq JmpSlots
    BY <1>1, <2>1, AllocFacts, FieldFacts DEF Members, Jumpers
  <2>4. PICK g : IsWalk(g, K, M, jmp, First(d)) /\ WalkExact(g, K, M, First(d))
    BY <2>2, <2>3, SlotsFinite, RingWalk
  <2>5. JmpWalk(d) = g
    BY <1>1, <2>1, <2>4, JmpWalkRing
  <2>6. M \ {First(d)} = {f \in htable \X Slots : target[f] = d}
    BY <1>1, <2>1, JmpListMembers
  <2> QED
    BY <2>4, <2>5, <2>6 DEF WalkExact, JmpListExact
<1>2. Inv => JmpListsExact
  BY <1>1 DEF JmpListsExact
<1> QED
  BY <1>2, Invariance, PTL

(* The walk of PageListsExact is a walk along the ring with head NULL. *)
LEMMA PageWalkRing ==
    ASSUME NEW p \in Pages, NEW g, NEW M, M \ {NULL} \subseteq JmpSlots,
           IsWalk(g, 2 * MaxBlocks, M, PageLink(first_tb[p], page_next), NULL)
    PROVE  PageWalk(p) = g
<1> DEFINE K == 2 * MaxBlocks
           StepFrom(f) == IF f = NULL THEN NULL ELSE page_next[f]
           F(w) == [i \in 0 .. K |-> IF i = 0 THEN first_tb[p] ELSE StepFrom(w[i - 1])]
           j == PageLink(first_tb[p], page_next)
<1>1. K \in Nat
  BY SlotsFinite
<1>2. ASSUME NEW f \in M PROVE StepFrom(f) = RingStep(j, NULL, f)
  BY PageLinkAt DEF RingStep
<1>3. /\ g \in [0 .. K -> M] /\ g[0] = first_tb[p]
      /\ \A i \in 1 .. K : g[i] = RingStep(j, NULL, g[i - 1])
  BY PageLinkAt DEF IsWalk
<1>4. \A i \in 1 .. K : g[i] = StepFrom(g[i - 1])
  <2> HIDE DEF StepFrom, K, j
  <2> QED
    BY <1>1, <1>2, <1>3
<1>5. g = F(g)
  <2> HIDE DEF StepFrom, K
  <2> QED
    BY <1>1, <1>3, <1>4
<1>6. PageWalk(p) = CHOOSE w : w = F(w)
  BY DEF PageWalk
<1> DEFINE w == PageWalk(p)
<1>7. w = F(w)
  <2> HIDE DEF F
  <2> QED
    BY <1>5, <1>6
<1>8. w = g
  <2> HIDE DEF StepFrom, K, w
  <2>1. w \in [0 .. K -> {w[i] : i \in 0 .. K}]
    BY <1>7
  <2>2. w[0] = first_tb[p] /\ \A i \in 1 .. K : w[i] = StepFrom(w[i - 1])
    BY <1>1, <1>7
  <2> DEFINE T == {i \in 0 .. K : w[i] = g[i]}
  <2>3. 0 \in T /\ \A i \in 1 .. K : i - 1 \in T => i \in T
    BY <1>1, <1>3, <1>4, <2>2
  <2>4. \A i \in 0 .. K : i \in T
    <3> HIDE DEF T
    <3> QED
      BY <1>1, <2>3, AllSteps
  <2>5. \A i \in 0 .. K : w[i] = g[i]
    BY <2>4
  <2> HIDE DEF T
  <2>6. w = [i \in 0 .. K |-> w[i]] /\ g = [i \in 0 .. K |-> g[i]]
    BY <1>3, <2>1
  <2> QED
    BY <2>5, <2>6
<1> QED
  BY <1>8

(* tb_link_page and tb_page_remove keep the list of every page exact: it   *)
(* ends, and holds each TB with code in the page under the right slot,     *)
(* unless tb_invalidate_phys_page is taking that list apart.               *)
THEOREM PageListsIntact == Spec => []PagesExact
<1>1. ASSUME Inv, Idle \/ op.kind # "page", NEW p \in Pages
      PROVE  /\ PageWalk(p)[2 * MaxBlocks] = NULL
             /\ {PageWalk(p)[i] : i \in 0 .. 2 * MaxBlocks} \ {NULL} = OnPage(p)
  <2> DEFINE K == 2 * MaxBlocks
             j == PageLink(first_tb[p], page_next)
  <2>1. PICK M : M = OnPage(p) \cup {NULL}
    OBVIOUS
  <2>2. IsRing(j, M, NULL)
    BY <1>1, <2>1 DEF Inv, PagesInv, HeadOf, IsPageList
  <2>3. OnPage(p) \subseteq JmpSlots /\ NULL \notin OnPage(p)
    BY <1>1, AllocFacts, FieldFacts DEF OnPage
  <2>4. M \ {NULL} = OnPage(p)
    BY <2>1, <2>3
  <2> HIDE DEF j
  <2>5. PICK g : IsWalk(g, K, M, j, NULL) /\ WalkExact(g, K, M, NULL)
    BY <2>2, <2>3, <2>4, SlotsFinite, RingWalk
  <2>6. PageWalk(p) = g
    BY <2>3, <2>4, <2>5, PageWalkRing DEF j
  <2> QED
    BY <2>4, <2>5, <2>6 DEF WalkExact
<1>2. Inv => PagesExact
  BY <1>1 DEF PagesExact, PageListsExact, OnPage
<1> QED
  BY <1>2, Invariance, PTL
=============================================================================
