---------------------------- MODULE TBCacheProofs ----------------------------
(***************************************************************************)
(* What the operators of GuestCode return, for every guest program: the    *)
(* instruction counts are well defined and bounded, and translated code    *)
(* leads to guest states of the program.  Then what the operations of      *)
(* TBCache preserve, whoever takes them.  CacheInv is the part of an       *)
(* inductive invariant that speaks of the cache alone; each lemma is about *)
(* one operation.                                                          *)
(***************************************************************************)
EXTENDS TBCache, FiniteSetTheorems, WellFoundedInduction, TLAPS

-----------------------------------------------------------------------------
(* Guest code. *)

(* A non-empty set of naturals has a least element. *)
LEMMA LeastNatural ==
    ASSUME NEW T \in SUBSET Nat, T # {}
    PROVE  \E m \in T : \A n \in T : m <= n
<1>1. PICK m \in T : \A n \in T : ~ (<<n, m>> \in OpToRel(<, Nat))
  BY NatLessThanWellFounded, WFMin
<1>2. \A n \in T : ~ (n < m)
  BY <1>1 DEF OpToRel
<1> QED
  BY <1>2

LEMMA MaxInsnsType == MaxInsns \in Nat /\ MaxInsns >= 1
<1>1. MaxInsns \in Nat
  BY GuestAssumption, FS_CardinalityType DEF MaxInsns
<1>2. MaxInsns # 0
  BY GuestAssumption, FS_EmptySet DEF MaxInsns
<1> QED
  BY <1>1, <1>2

(* Straight-line code leaves the program after at most MaxInsns            *)
(* instructions, because each has an address of its own.                   *)
LEMMA RunEnds ==
    ASSUME NEW k \in Keys
    PROVE  \E n \in 1 .. MaxInsns : ~ Handled(After(k, n))
<1> SUFFICES ASSUME \A n \in 1 .. MaxInsns : Handled(After(k, n)) PROVE FALSE
  OBVIOUS
<1> DEFINE g == [j \in 0 .. MaxInsns |-> After(k, j)]
<1>0. MaxInsns \in Nat /\ k.pc \in Nat /\ k = [pc |-> k.pc, flags |-> k.flags]
  BY MaxInsnsType, GuestAssumption
<1>1. g \in [0 .. MaxInsns -> Keys]
  <2>1. After(k, 0) = k
    BY <1>0 DEF After, InsnSize
  <2>2. \A n \in 1 .. MaxInsns : After(k, n) \in Keys
    BY DEF Handled, InsnAt
  <2> QED
    BY <1>0, <2>1, <2>2
<1>2. IsFiniteSet(0 .. MaxInsns) /\ Cardinality(0 .. MaxInsns) = MaxInsns + 1
  BY <1>0, FS_Interval
<1>3. Cardinality(Keys) < Cardinality(0 .. MaxInsns)
  BY <1>0, <1>2 DEF MaxInsns
<1> HIDE DEF g
<1>30. IsFiniteSet(Keys)
  BY GuestAssumption
<1>4. PICK i, j \in 0 .. MaxInsns : i # j /\ g[i] = g[j]
  BY <1>1, <1>2, <1>3, <1>30, FS_PigeonHole
<1>5. After(k, i) = After(k, j)
  BY <1>4 DEF g
<1> QED
  BY <1>0, <1>4, <1>5 DEF After, InsnSize

(* neon_icount counts at least the instruction it starts at, and none that *)
(* the library does not handle.                                            *)
LEMMA NeonIcountRun ==
    ASSUME NEW k \in Keys
    PROVE  /\ neon_icount(k) \in 1 .. MaxInsns
           /\ Handled(k) => \A j \in 0 .. neon_icount(k) - 1 : Handled(After(k, j))
<1>0. MaxInsns \in Nat /\ MaxInsns >= 1
  BY MaxInsnsType
<1>1. CASE k.flags \in ThumbFlags \/ ~ Handled(k)
  <2>1. neon_icount(k) = 1
    BY <1>1 DEF neon_icount
  <2>2. After(k, 0) = k
    BY GuestAssumption DEF After, InsnSize
  <2> QED
    BY <1>0, <2>1, <2>2
<1>2. CASE ~ (k.flags \in ThumbFlags \/ ~ Handled(k))
  <2> DEFINE T == {n \in 1 .. MaxInsns : ~ Handled(After(k, n))}
  <2>1. T # {}
    BY RunEnds
  <2>2. T \in SUBSET Nat
    BY <1>0
  <2> HIDE DEF T
  <2>3. PICK m \in T : \A n \in T : m <= n
    BY <2>1, <2>2, LeastNatural
  <2>4. After(k, 0) = k
    BY GuestAssumption DEF After, InsnSize
  <2>5. m \in 1 .. MaxInsns /\ ~ Handled(After(k, m))
    BY <2>3 DEF T
  <2>6. \A j \in 0 .. m - 1 : Handled(After(k, j))
    <3>1. ASSUME NEW j \in 1 .. m - 1 PROVE Handled(After(k, j))
      <4>1. j \in 1 .. MaxInsns /\ ~ (m <= j)
        BY <1>0, <2>5
      <4> QED
        BY <4>1, <2>3 DEF T
    <3> QED
      BY <3>1, <1>2, <2>4, <2>5
  <2> QED
    BY <1>2, <2>5, <2>6 DEF neon_icount
<1> QED
  BY <1>1, <1>2

LEMMA NeonIcountType == ASSUME NEW k \in Keys PROVE neon_icount(k) \in 1 .. MaxInsns
BY NeonIcountRun

(* Translation stops after at least one and at most max_insns              *)
(* instructions, and not before.                                           *)
LEMMA NumInsnsStops ==
    ASSUME NEW k \in Keys, NEW max_insns \in Nat \ {0}
    PROVE  LET n == num_insns(k, max_insns)
           IN  /\ n \in 1 .. max_insns
               /\ TranslationStops(k, max_insns, n)
               /\ \A m \in 1 .. n - 1 : ~ TranslationStops(k, max_insns, m)
<1> DEFINE T == {n \in 1 .. max_insns : TranslationStops(k, max_insns, n)}
<1>1. max_insns \in T
  BY DEF TranslationStops
<1>2. T \in SUBSET Nat
  OBVIOUS
<1> HIDE DEF T
<1>3. PICK m \in T : \A n \in T : m <= n
  BY <1>1, <1>2, LeastNatural
<1>4. m \in 1 .. max_insns /\ TranslationStops(k, max_insns, m)
  BY <1>3 DEF T
<1>5. ASSUME NEW n \in 1 .. m - 1 PROVE ~ TranslationStops(k, max_insns, n)
  <2>1. n \in 1 .. max_insns /\ ~ (m <= n)
    BY <1>4
  <2> QED
    BY <2>1, <1>3 DEF T
<1> QED
  BY <1>4, <1>5 DEF num_insns

LEMMA NumInsnsType ==
    ASSUME NEW k \in Keys, NEW max_insns \in Nat \ {0}
    PROVE  num_insns(k, max_insns) \in 1 .. max_insns
BY NumInsnsStops

(* The pages divide the addresses. *)
LEMMA PageOfBounds ==
    ASSUME NEW a \in Nat
    PROVE  /\ PageOf(a) \in Nat
           /\ PageOf(a) * PageSize <= a
           /\ a < (PageOf(a) + 1) * PageSize
<1>0. PageSize \in Nat /\ PageSize > 0
  BY GuestAssumption DEF InsnSize
<1> DEFINE q == a \div PageSize
<1>1. q \in Nat /\ PageSize * q <= a /\ a < PageSize * (q + 1)
  BY <1>0
<1>2. PageOf(a) = q
  BY DEF PageOf
<1> HIDE DEF q
<1> QED
  BY <1>0, <1>1, <1>2

LEMMA PageOfUnique ==
    ASSUME NEW a \in Nat, NEW q \in Nat, q * PageSize <= a, a < (q + 1) * PageSize
    PROVE  PageOf(a) = q
<1>1. PageSize \in Nat /\ PageSize > 0
  BY GuestAssumption DEF InsnSize
<1> QED
  BY <1>1 DEF PageOf

LEMMA PageOfMonotone ==
    ASSUME NEW a \in Nat, NEW b \in Nat, a <= b
    PROVE  PageOf(a) <= PageOf(b)
<1>1. /\ PageSize \in Nat /\ PageSize > 0
      /\ PageOf(a) \in Nat /\ PageOf(b) \in Nat
      /\ PageOf(a) * PageSize <= a /\ b < (PageOf(b) + 1) * PageSize
  BY PageOfBounds, GuestAssumption DEF InsnSize
<1> HIDE DEF PageOf
<1>2. PageOf(a) * PageSize < (PageOf(b) + 1) * PageSize
  BY <1>1
<1> QED
  BY <1>1, <1>2

(* Only the last instruction of a TB may reach into the next page. *)
LEMMA NumInsnsPage ==
    ASSUME NEW k \in Keys, NEW max_insns \in Nat \ {0}
    PROVE  LET n == num_insns(k, max_insns)
           IN  PageOf(k.pc + (n - 1) * InsnSize) = PageOf(k.pc)
<1> DEFINE n == num_insns(k, max_insns)
<1>1. n \in 1 .. max_insns
  BY NumInsnsType
<1>2. \A m \in 1 .. n - 1 : ~ TranslationStops(k, max_insns, m)
  BY NumInsnsStops
<1> SUFFICES PageOf(k.pc + (n - 1) * InsnSize) = PageOf(k.pc)
  OBVIOUS
<1> HIDE DEF n
<1>3. CASE n = 1
  BY <1>3, GuestAssumption DEF InsnSize
<1>4. CASE n > 1
  <2>1. ~ TranslationStops(k, max_insns, n - 1)
    BY <1>1, <1>2, <1>4
  <2>2. PageOf(After(k, n - 1).pc) = PageOf(k.pc)
    BY <2>1 DEF TranslationStops
  <2> QED
    BY <2>2 DEF After
<1> QED
  BY <1>1, <1>3, <1>4

LEMMA ExitsOfType == \A kind : ExitsOf(kind) \in SUBSET {NoSlot, 0, 1}
BY DEF ExitsOf

(* Translating at most max_insns instructions of the program yields a TB   *)
(* of at least one instruction.                                            *)
LEMMA TranslateType ==
    ASSUME NEW k \in Keys, NEW max_insns \in 1 .. MaxInsns
    PROVE  LET b == Translate(k, max_insns)
           IN  /\ b.key = k
               /\ b.insns \in 1 .. MaxInsns
               /\ b.exits = ExitsOf(InsnAt(After(k, b.insns - 1)))
               /\ b.exits \in SUBSET {NoSlot, 0, 1}
               /\ b.slots = b.exits \ {NoSlot}
               /\ b.slots \in SUBSET {0, 1}
               /\ PageOf(b.key.pc + (b.insns - 1) * InsnSize) = PageOf(b.key.pc)
<1> DEFINE b == Translate(k, max_insns)
<1>0. max_insns \in Nat \ {0} /\ MaxInsns \in Nat
  BY MaxInsnsType
<1>1. num_insns(k, max_insns) \in 1 .. MaxInsns
  BY <1>0, NumInsnsType
<1>2. /\ b.key = k /\ b.insns = num_insns(k, max_insns)
      /\ b.exits = ExitsOf(InsnAt(After(k, b.insns - 1)))
      /\ b.slots = b.exits \ {NoSlot}
  BY DEF Translate
<1>3. b.exits \in SUBSET {NoSlot, 0, 1}
  BY <1>2, ExitsOfType
<1>4. PageOf(k.pc + (num_insns(k, max_insns) - 1) * InsnSize) = PageOf(k.pc)
  BY <1>0, NumInsnsPage
<1> QED
  BY <1>1, <1>2, <1>3, <1>4 DEF NoSlot

-----------------------------------------------------------------------------
(* The cache. *)

(* The entry of tbs[] that x points to was written by tb_gen_code. *)
WellFormed(b) ==
    /\ b \in TBRecord
    /\ b.exits = ExitsOf(InsnAt(After(b.key, b.insns - 1)))
    /\ b.slots = b.exits \ {NoSlot}
    /\ PageOf(b.key.pc + (b.insns - 1) * InsnSize) = PageOf(b.key.pc)
Written(x) == x \in TBs /\ WellFormed(tbs[x])

(* Every pointer the cache holds leads to such an entry. *)
PointersInv ==
    /\ \A x \in htable : Written(x)
    /\ \A c \in Cpus, h \in 0 .. JmpCacheSize - 1 :
            tb_jmp_cache[c][h] # NULL => tb_jmp_cache[c][h] \in htable
    /\ \A f \in JmpSlots : target[f] # NULL => Written(target[f])

CacheInv == CacheTypeOK /\ PointersInv

LEMMA HashType == ASSUME NEW k \in Keys PROVE Hash(k) \in 0 .. JmpCacheSize - 1
BY GuestAssumption, CacheAssumption DEF Hash

LEMMA CacheInvInit == CacheInit => CacheInv
<1> SUFFICES ASSUME CacheInit PROVE CacheInv
  OBVIOUS
<1> USE CacheAssumption DEF CacheInit
<1>1. CacheTypeOK
  BY DEF CacheTypeOK, EmptyJmpCache
<1>2. PointersInv
  BY DEF PointersInv, EmptyJmpCache
<1> QED
  BY <1>1, <1>2 DEF CacheInv

(* A hit in a jump cache is a TB of the state looked up. *)
LEMMA JmpCacheHit ==
    ASSUME CacheInv, NEW c \in Cpus, NEW k \in Keys, JmpCacheLookup(c, k) # NULL
    PROVE  LET x == JmpCacheLookup(c, k) IN x \in htable /\ tbs[x].key = k
<1> DEFINE x == tb_jmp_cache[c][Hash(k)]
<1>1. x # NULL /\ JmpCacheLookup(c, k) = x /\ tbs[x].key = k
  BY DEF JmpCacheLookup
<1>2. x \in htable
  BY <1>1, HashType DEF CacheInv, PointersInv
<1> QED
  BY <1>1, <1>2

(* Entering a live TB in a jump cache. *)
LEMMA JmpCacheEnterInv ==
    ASSUME CacheInv, NEW c \in Cpus, NEW k \in Keys, NEW x \in htable,
           tb_jmp_cache' = JmpCacheEnter(c, k, x),
           UNCHANGED <<nb_tbs, code_gen_ptr, tbs, htable, tb_flushed, jmpVars, pageVars>>
    PROVE  CacheInv'
<1>1. Hash(k) \in 0 .. JmpCacheSize - 1
  BY HashType
<1>2. CacheTypeOK'
  BY <1>1 DEF CacheInv, CacheTypeOK, JmpCacheEnter, jmpVars, pageVars
<1>3. PointersInv'
  BY <1>1 DEF CacheInv, CacheTypeOK, PointersInv, JmpCacheEnter, Written, WellFormed, jmpVars
<1> QED
  BY <1>2, <1>3 DEF CacheInv

(* Changing tb_flushed. *)
LEMMA FlushedFlagInv ==
    ASSUME CacheInv, NEW c \in Cpus, tb_flushed' = [tb_flushed EXCEPT ![c] = FALSE],
           UNCHANGED <<nb_tbs, code_gen_ptr, tbs, htable, tb_jmp_cache, jmpVars, pageVars>>
    PROVE  CacheInv'
BY DEF CacheInv, CacheTypeOK, PointersInv, Written, WellFormed, jmpVars, pageVars

(* tb_add_jump, between TBs that were written. *)
LEMMA TbAddJumpInv ==
    ASSUME CacheInv, NEW t, NEW n \in Slots, NEW d, Written(t), Written(d),
           TbAddJump(t, n, d)
    PROVE  /\ jmp' \in [JmpFields -> JmpFields \cup {NULL}]
           /\ target' \in [JmpSlots -> TBs \cup {NULL}]
           /\ stray' \in SUBSET TBs
           /\ \A f \in JmpSlots : target'[f] \in {target[f], d}
<1>0. t \in TBs /\ d \in TBs /\ <<t, n>> \in JmpSlots /\ <<t, n>> \in JmpFields
      /\ First(d) \in JmpFields
  BY DEF Written, Slots, JmpSlots, JmpFields, First
<1>1. CASE Chained(t, n)
  BY <1>1 DEF TbAddJump, jmpVars, CacheInv, CacheTypeOK
<1>2. CASE ~ Chained(t, n)
  <2>1. /\ target' = [target EXCEPT ![<<t, n>>] = d]
        /\ stray' = IF n \in tbs[t].slots THEN stray ELSE stray \cup {t}
        /\ jmp' = [jmp EXCEPT ![<<t, n>>] = jmp[First(d)], ![First(d)] = <<t, n>>]
    BY <1>2 DEF TbAddJump, TbSetJmpTarget
  <2>2. jmp' \in [JmpFields -> JmpFields \cup {NULL}]
    BY <1>0, <2>1 DEF CacheInv, CacheTypeOK
  <2> QED
    BY <1>0, <2>1, <2>2 DEF CacheInv, CacheTypeOK
<1> QED
  BY <1>1, <1>2

(* tb_flush. *)
LEMMA TbFlushInv == CacheInv /\ TbFlush => CacheInv'
<1> SUFFICES ASSUME CacheInv, TbFlush PROVE CacheInv'
  OBVIOUS
<1>1. CacheTypeOK'
  BY CacheAssumption DEF CacheInv, CacheTypeOK, TbFlush, JmpCachesFlushed, EmptyJmpCache, jmpVars
<1>2. PointersInv'
  BY DEF CacheInv, CacheTypeOK, PointersInv, TbFlush, JmpCachesFlushed, EmptyJmpCache, Written,
         WellFormed, jmpVars
<1> QED
  BY <1>1, <1>2 DEF CacheInv
(* The pages of the code of a TB are among Pages. *)
LEMMA PageAddrType ==
    ASSUME NEW b, b.key \in Keys, b.insns \in 1 .. MaxInsns
    PROVE  page_addr(b, 0) \in Pages /\ page_addr(b, 1) \in Pages \cup {-1}
<1>0. MaxInsns \in Nat /\ MaxInsns >= 1 /\ b.key.pc \in Nat
  BY MaxInsnsType, GuestAssumption
<1>1. PageOf(b.key.pc) \in Pages
  <2>1. 0 \in 0 .. MaxInsns * InsnSize - 1 /\ b.key.pc + 0 = b.key.pc
    BY <1>0 DEF InsnSize
  <2> QED
    BY <2>1 DEF Pages
<1>2. PageOf(LastByte(b)) \in Pages
  <2> DEFINE d == b.insns * InsnSize - 1
  <2>1. d \in 0 .. MaxInsns * InsnSize - 1 /\ LastByte(b) = b.key.pc + d
    BY <1>0 DEF InsnSize, LastByte
  <2> HIDE DEF d
  <2> QED
    BY <2>1 DEF Pages
<1> QED
  BY <1>1, <1>2 DEF page_addr

(* tb_gen_code fills the next entry of tbs[] and changes no other. *)
LEMMA TbGenCodeEntry ==
    ASSUME CacheInv, NEW k \in Keys, NEW count \in 1 .. MaxInsns, TbGenCode(k, count)
    PROVE  /\ nb_tbs \in TBs
           /\ nb_tbs' = nb_tbs + 1
           /\ code_gen_ptr' \in 0 .. BufSize
           /\ code_gen_ptr < code_gen_ptr'
           /\ WellFormed(tbs'[nb_tbs])
           /\ tbs'[nb_tbs].key = k
           /\ tbs' \in [TBs -> TBRecord \cup {NULL}]
           /\ \A x \in TBs : x # nb_tbs => tbs'[x] = tbs[x]
           /\ htable' = htable \cup {nb_tbs}
<1> DEFINE b == Translate(k, count)
           e == [key |-> k, insns |-> b.insns, exits |-> b.exits, slots |-> b.slots,
                 tc_ptr |-> code_gen_ptr]
<1>1. /\ ~ (nb_tbs >= MaxBlocks)
      /\ ~ (code_gen_ptr + b.insns > BufSize)
      /\ nb_tbs' = nb_tbs + 1
      /\ code_gen_ptr' = code_gen_ptr + b.insns
      /\ tbs' = [tbs EXCEPT ![nb_tbs] = e]
      /\ htable' = htable \cup {nb_tbs}
  BY DEF TbGenCode, BufferFull, CodeLen, TbLinkPage
<1>2. /\ b.insns \in 1 .. MaxInsns
      /\ b.exits = ExitsOf(InsnAt(After(k, b.insns - 1)))
      /\ b.exits \in SUBSET {NoSlot, 0, 1}
      /\ b.slots = b.exits \ {NoSlot}
      /\ b.slots \in SUBSET {0, 1}
      /\ PageOf(k.pc + (b.insns - 1) * InsnSize) = PageOf(k.pc)
  BY TranslateType
<1> HIDE DEF b
<1>3. nb_tbs \in TBs /\ code_gen_ptr' \in 0 .. BufSize /\ code_gen_ptr < code_gen_ptr'
  BY <1>1, <1>2, CacheAssumption, MaxInsnsType DEF CacheInv, CacheTypeOK, TBs
<1>4. e \in TBRecord /\ e.key = k /\ e.insns = b.insns /\ e.exits = b.exits
      /\ e.slots = b.slots
  BY <1>2 DEF TBRecord, Slots, CacheInv, CacheTypeOK
<1>5. WellFormed(e)
  BY <1>2, <1>4 DEF WellFormed
<1> HIDE DEF e
<1>6. tbs'[nb_tbs] = e /\ tbs' \in [TBs -> TBRecord \cup {NULL}]
      /\ \A x \in TBs : x # nb_tbs => tbs'[x] = tbs[x]
  BY <1>1, <1>3, <1>4 DEF CacheInv, CacheTypeOK
<1> QED
  BY <1>1, <1>3, <1>4, <1>5, <1>6
(* The rest of tb_gen_code: the jumps and the lists of the new TB. *)
LEMMA TbGenCodeLists ==
    ASSUME CacheInv, NEW k \in Keys, NEW count \in 1 .. MaxInsns, TbGenCode(k, count)
    PROVE  /\ jmp' \in [JmpFields -> JmpFields \cup {NULL}]
           /\ target' = [target EXCEPT ![<<nb_tbs, 0>>] = NULL, ![<<nb_tbs, 1>>] = NULL]
           /\ stray' \in SUBSET TBs
           /\ first_tb' \in [Pages -> JmpSlots \cup {NULL}]
           /\ page_next' \in [JmpSlots -> JmpSlots \cup {NULL}]
<1> DEFINE b  == Translate(k, count)
           p0 == page_addr(b, 0)
           p1 == page_addr(b, 1)
<1>1. /\ jmp' = [jmp EXCEPT ![First(nb_tbs)] = First(nb_tbs), ![<<nb_tbs, 0>>] = NULL,
                            ![<<nb_tbs, 1>>] = NULL]
      /\ target' = [target EXCEPT ![<<nb_tbs, 0>>] = NULL, ![<<nb_tbs, 1>>] = NULL]
      /\ stray' = stray \ {nb_tbs}
      /\ first_tb' = [p \in Pages |-> IF p = p0 THEN <<nb_tbs, 0>>
                                      ELSE IF p = p1 THEN <<nb_tbs, 1>> ELSE first_tb[p]]
      /\ page_next' = [f \in JmpSlots |->
                          IF f = <<nb_tbs, 0>> THEN first_tb[p0]
                          ELSE IF f = <<nb_tbs, 1>> /\ p1 # -1 THEN first_tb[p1]
                          ELSE page_next[f]]
  BY DEF TbGenCode, TbInitJumps, TbLinkPage
<1>2. p0 \in Pages /\ p1 \in Pages \cup {-1}
  BY TranslateType, PageAddrType
<1> HIDE DEF p0, p1
<1>3. nb_tbs \in TBs
  BY TbGenCodeEntry
<1>4. /\ First(nb_tbs) \in JmpFields
      /\ <<nb_tbs, 0>> \in JmpSlots /\ <<nb_tbs, 1>> \in JmpSlots
  BY <1>3 DEF First, JmpFields, JmpSlots, Slots
<1>5. jmp' \in [JmpFields -> JmpFields \cup {NULL}]
  BY <1>1, <1>4 DEF CacheInv, CacheTypeOK
<1>6. first_tb' \in [Pages -> JmpSlots \cup {NULL}]
  BY <1>1, <1>4 DEF CacheInv, CacheTypeOK
<1>7. page_next' \in [JmpSlots -> JmpSlots \cup {NULL}]
  BY <1>1, <1>2, <1>4 DEF CacheInv, CacheTypeOK
<1>8. stray' \in SUBSET TBs
  BY <1>1 DEF CacheInv, CacheTypeOK
<1> QED
  BY <1>1, <1>5, <1>6, <1>7, <1>8

(* tb_gen_code, followed by the entry in the jump cache that tb_find_slow  *)
(* makes.                                                                  *)
LEMMA TbGenCodeInv ==
    ASSUME CacheInv, NEW c \in Cpus, NEW k \in Keys, NEW count \in 1 .. MaxInsns,
           TbGenCode(k, count), tb_jmp_cache' = JmpCacheEnter(c, k, nb_tbs),
           UNCHANGED tb_flushed
    PROVE  /\ CacheInv'
           /\ \A x : Written(x) => Written(x)'
<1> USE DEF CacheInv, CacheTypeOK
<1>1. Hash(k) \in 0 .. JmpCacheSize - 1
  BY HashType
<1>2. /\ nb_tbs \in TBs /\ nb_tbs' = nb_tbs + 1 /\ code_gen_ptr' \in 0 .. BufSize
      /\ WellFormed(tbs'[nb_tbs]) /\ tbs' \in [TBs -> TBRecord \cup {NULL}]
      /\ \A x \in TBs : x # nb_tbs => tbs'[x] = tbs[x]
      /\ htable' = htable \cup {nb_tbs}
  BY TbGenCodeEntry
<1>3. \A x \in TBs : Written(x) => WellFormed(tbs'[x])
  BY <1>2 DEF Written
<1>4. target' \in [JmpSlots -> TBs \cup {NULL}]
      /\ \A f \in JmpSlots : target'[f] \in {target[f], NULL}
  BY <1>2, TbGenCodeLists DEF JmpSlots, Slots
<1>5. nb_tbs' \in 0 .. MaxBlocks
  BY <1>2, CacheAssumption DEF TBs
<1>6. tb_jmp_cache' \in [Cpus -> [0 .. JmpCacheSize - 1 -> TBs \cup {NULL}]]
      /\ \A d \in Cpus, h \in 0 .. JmpCacheSize - 1 :
            tb_jmp_cache'[d][h] \in {tb_jmp_cache[d][h], nb_tbs}
  BY <1>1, <1>2 DEF JmpCacheEnter
<1>7. CacheTypeOK'
  BY <1>2, <1>4, <1>5, <1>6, TbGenCodeLists
<1>8. PointersInv'
  <2>1. \A x \in htable' : x \in TBs /\ WellFormed(tbs'[x])
    BY <1>2, <1>3 DEF PointersInv, Written
  <2>2. \A d \in Cpus, h \in 0 .. JmpCacheSize - 1 :
            tb_jmp_cache'[d][h] # NULL => tb_jmp_cache'[d][h] \in htable'
    BY <1>2, <1>6 DEF PointersInv
  <2>3. \A f \in JmpSlots : target'[f] # NULL => target'[f] \in TBs /\ WellFormed(tbs'[target'[f]])
    BY <1>3, <1>4 DEF PointersInv, Written
  <2> QED
    BY <2>1, <2>2, <2>3 DEF PointersInv, Written
<1>9. \A x : Written(x) => Written(x)'
  <2> SUFFICES ASSUME NEW x, Written(x) PROVE x \in TBs /\ WellFormed(tbs'[x])
    BY DEF Written
  <2> QED
    BY <1>3 DEF Written
<1> QED
  BY <1>7, <1>8, <1>9
==============================================================================
