------------------------------- MODULE TBCache -------------------------------
(***************************************************************************)
(* The translation cache of translate-all.c: the array of translation      *)
(* blocks, the code buffer, the physical hash table, the per-CPU jump      *)
(* caches, the per-page lists and the circular lists of chained jumps.     *)
(* Its operations are actions over these variables; who takes them, and    *)
(* under which locks, is said by the modules that extend this one.         *)
(*                                                                         *)
(* Pointers into tbs[] are indices; NULL is the null pointer.  The code    *)
(* tags pointers with a field number in the two low bits, so that a list   *)
(* entry "tb | n" names both a TB and the field of it where the list goes  *)
(* on.  The model writes a tagged pointer as <<tb, n>>, and jmp as one     *)
(* function from fields to fields: <<tb, 0>> and <<tb, 1>> are             *)
(* tb->jmp_list_next[0..1] and <<tb, 2>> is tb->jmp_list_first, so a       *)
(* circular list is a cycle of jmp.                                        *)
(***************************************************************************)
EXTENDS GuestCode

CONSTANTS
    NULL,
    Cpus,          \* the CPUs of the cpus list
    MaxBlocks,     \* code_gen_max_blocks
    BufSize,       \* code_gen_buffer_size, in units of generated code
    JmpCacheSize   \* TB_JMP_CACHE_SIZE

TBs == 0 .. MaxBlocks - 1

ASSUME CacheAssumption ==
    /\ MaxBlocks \in Nat \ {0}
    /\ BufSize \in Nat
    /\ JmpCacheSize \in Nat \ {0}
    /\ IsFiniteSet(Cpus)
    /\ NULL \notin TBs /\ NULL \notin TBs \X (0 .. 2)

VARIABLES
    nb_tbs,        \* number of entries of tbs[] handed out
    code_gen_ptr,  \* first free unit of the code buffer
    tbs,           \* the TB array; NULL is memory never written
    htable,        \* the TBs in the physical hash table
    tb_jmp_cache,  \* per CPU, the virtual-pc cache of TBs
    tb_flushed,    \* per CPU, "the buffer was flushed since the last lookup"
    jmp,           \* jmp_list_next[0..1] and jmp_list_first of every TB
    target,        \* per slot, the TB its jump was last directed to; NULL
                   \* for the exit that follows the goto_tb (reset)
    stray,         \* TBs with a code word patched that is not a goto_tb
    first_tb,      \* per page, the head of its list of TBs
    page_next      \* page_next[0..1] of every TB

jmpVars   == <<jmp, target, stray>>
pageVars  == <<first_tb, page_next>>
cacheVars == <<nb_tbs, code_gen_ptr, tbs, htable, tb_jmp_cache, tb_flushed,
               jmpVars, pageVars>>

Slots     == {0, 1}
JmpFields == TBs \X (0 .. 2)
JmpSlots  == TBs \X Slots
First(t)  == <<t, 2>>

CodeLen(b) == b.insns

(* tb_jmp_cache_hash_func: entry of a jump cache for a guest pc. *)
Hash(k) == k.pc % JmpCacheSize

(* page_addr[n] of a TB; the second page only when the code crosses it. *)
LastByte(b) == b.key.pc + b.insns * InsnSize - 1
page_addr(b, n) ==
    IF n = 0 THEN PageOf(b.key.pc)
    ELSE IF PageOf(LastByte(b)) # PageOf(b.key.pc) THEN PageOf(LastByte(b)) ELSE -1

(* The pages that translated code can touch. *)
Pages == {PageOf(k.pc + d) : k \in Keys, d \in 0 .. MaxInsns * InsnSize - 1}

TBRecord ==
    [key : Keys, insns : 1 .. MaxInsns, exits : SUBSET {NoSlot, 0, 1},
     slots : SUBSET Slots, tc_ptr : 0 .. BufSize]

(* Only types; TLC and the proofs use it. *)
CacheTypeOK ==
    /\ nb_tbs \in 0 .. MaxBlocks
    /\ code_gen_ptr \in 0 .. BufSize
    /\ tbs \in [TBs -> TBRecord \cup {NULL}]
    /\ htable \in SUBSET TBs
    /\ tb_jmp_cache \in [Cpus -> [0 .. JmpCacheSize - 1 -> TBs \cup {NULL}]]
    /\ tb_flushed \in [Cpus -> BOOLEAN]
    /\ jmp \in [JmpFields -> JmpFields \cup {NULL}]
    /\ target \in [JmpSlots -> TBs \cup {NULL}]
    /\ stray \in SUBSET TBs
    /\ first_tb \in [Pages -> JmpSlots \cup {NULL}]
    /\ page_next \in [JmpSlots -> JmpSlots \cup {NULL}]

EmptyJmpCache == [c \in Cpus |-> [h \in 0 .. JmpCacheSize - 1 |-> NULL]]

(* tcg_exec_init: code_gen_alloc, page_init, tb_htable_init. *)
CacheInit ==
    /\ nb_tbs = 0
    /\ code_gen_ptr = 0
    /\ tbs = [t \in TBs |-> NULL]
    /\ htable = {}
    /\ tb_jmp_cache = EmptyJmpCache
    /\ tb_flushed = [c \in Cpus |-> FALSE]
    /\ jmp = [f \in JmpFields |-> NULL]
    /\ target = [f \in JmpSlots |-> NULL]
    /\ stray = {}
    /\ first_tb = [p \in Pages |-> NULL]
    /\ page_next = [f \in JmpSlots |-> NULL]

-----------------------------------------------------------------------------
(* Lookups.                                                                *)

(* tb_find_physical: the TBs the hash table may return for a guest state;  *)
(* tb_cmp compares pc, flags and the pages, which follow from the pc.      *)
tb_find_physical(k) == {t \in htable : tbs[t].key = k}

MutJmpCacheLookup(c, k) == tb_jmp_cache[c][Hash(k)]

(* The entry of the jump cache of c for k, checked against k as            *)
(* tb_find_fast, guess_icount and tb_from_cache do; NULL when it misses.   *)
JmpCacheLookup(c, k) ==
    LET t == tb_jmp_cache[c][Hash(k)]
    IN  IF t = NULL THEN NULL ELSE IF tbs[t].key = k THEN t ELSE NULL

(* The end of tb_find_slow: enter t in the jump cache of c. *)
JmpCacheEnter(c, k, t) == [tb_jmp_cache EXCEPT ![c][Hash(k)] = t]

-----------------------------------------------------------------------------
(* Chaining.                                                               *)

(* tb_set_jmp_target: patch the branch of slot n of t.  For a slot with no *)
(* goto_tb, jmp_insn_offset[n] was never set for this code and the patch   *)
(* lands on some other word of the TB.                                     *)
TbSetJmpTarget(t, n, dest) ==
    /\ target' = [target EXCEPT ![<<t, n>>] = dest]
    /\ stray' = IF n \in tbs[t].slots THEN stray ELSE stray \cup {t}

(* Slot n of t is on the list of some TB already. *)
Chained(t, n) == jmp[<<t, n>>] # NULL

(* tb_add_jump: nothing when the slot is chained already; otherwise patch  *)
(* the jump and push the slot on the list of the destination.              *)
TbAddJump(t, n, tb_next) ==
    IF Chained(t, n)
    THEN UNCHANGED jmpVars
    ELSE /\ TbSetJmpTarget(t, n, tb_next)
         /\ jmp' = [jmp EXCEPT ![<<t, n>>] = jmp[First(tb_next)],
                               ![First(tb_next)] = <<t, n>>]

-----------------------------------------------------------------------------
(* Translation.                                                            *)

(* tb_gen_code needs tb_flush first: no free entry in tbs[] (tb_alloc), or *)
(* the generated code and its search data overflow the buffer.             *)
MutBufferFull(k, count) ==
    \/ nb_tbs > MaxBlocks
    \/ code_gen_ptr + CodeLen(Translate(k, count)) > BufSize + 1
BufferFull(k, count) ==
    \/ nb_tbs >= MaxBlocks
    \/ code_gen_ptr + CodeLen(Translate(k, count)) > BufSize

(* tb_link_page and tb_alloc_page: enter t, at the head of the list of     *)
(* each page its code touches, and in the hash table.                      *)
TbLinkPage(t, b) ==
    LET p0 == page_addr(b, 0)
        p1 == page_addr(b, 1)
    IN  /\ htable' = htable \cup {t}
        /\ first_tb' = [p \in Pages |-> IF p = p0 THEN <<t, 0>>
                                        ELSE IF p = p1 THEN <<t, 1>>
                                        ELSE first_tb[p]]
        /\ page_next' = [f \in JmpSlots |->
                            IF f = <<t, 0>> THEN first_tb[p0]
                            ELSE IF f = <<t, 1>> /\ p1 # -1 THEN first_tb[p1]
                            ELSE page_next[f]]

MutTbInitJumps(t) ==
    /\ jmp' = [jmp EXCEPT ![First(t)] = First(t), ![<<t, 0>>] = NULL, ![<<t, 1>>] = NULL]
    /\ stray' = stray \ {t}
    /\ UNCHANGED target

(* The part of tb_gen_code after "init jump list": empty list of callers,  *)
(* unchained slots, every generated goto_tb reset.                         *)
TbInitJumps(t) ==
    /\ jmp' = [jmp EXCEPT ![First(t)] = First(t), ![<<t, 0>>] = NULL, ![<<t, 1>>] = NULL]
    /\ target' = [target EXCEPT ![<<t, 0>>] = NULL, ![<<t, 1>>] = NULL]
    /\ stray' = stray \ {t}

(* tb_gen_code, when it does not have to flush: take the next entry of     *)
(* tbs[], translate at most count instructions from k into it, and link.   *)
TbGenCode(k, count) ==
    LET t == nb_tbs
        b == Translate(k, count)
    IN  /\ ~ BufferFull(k, count)
        /\ nb_tbs' = nb_tbs + 1
        /\ code_gen_ptr' = code_gen_ptr + CodeLen(b)
        /\ tbs' = [tbs EXCEPT ![t] = [key |-> k, insns |-> b.insns, exits |-> b.exits,
                                      slots |-> b.slots, tc_ptr |-> code_gen_ptr]]
        /\ TbInitJumps(t)
        /\ TbLinkPage(t, b)

(* The memset of tb_flush: every jump cache is emptied. *)
MutJmpCachesFlushed == tb_jmp_cache
JmpCachesFlushed == EmptyJmpCache

(* tb_flush: forget every TB.  The entries of tbs[] keep their contents,   *)
(* and so does the code buffer, until they are handed out again.           *)
TbFlush ==
    /\ nb_tbs' = 0
    /\ code_gen_ptr' = 0
    /\ htable' = {}
    /\ tb_jmp_cache' = JmpCachesFlushed
    /\ tb_flushed' = [c \in Cpus |-> TRUE]
    /\ first_tb' = [p \in Pages |-> NULL]
    /\ UNCHANGED <<tbs, jmpVars, page_next>>

-----------------------------------------------------------------------------
(* What the structures must satisfy between operations.                    *)

(* The entries met when a circular list is followed from jmp_list_first of *)
(* d until it is back at d, in order of steps; a list longer than every    *)
(* slot would never end.                                                   *)
JmpWalk(d) ==
    LET w[i \in 0 .. 2 * MaxBlocks] ==
            IF i = 0 THEN jmp[First(d)]
            ELSE LET f == w[i - 1]
                 IN  IF f = NULL THEN NULL ELSE IF f[2] = 2 THEN f ELSE jmp[f]
    IN  w

PageWalk(p) ==
    LET w[i \in 0 .. 2 * MaxBlocks] ==
            IF i = 0 THEN first_tb[p]
            ELSE LET f == w[i - 1] IN IF f = NULL THEN NULL ELSE page_next[f]
    IN  w

(* The circular list of a live TB d ends at d and holds exactly the slots  *)
(* of live TBs whose jump tb_add_jump directed to d.                       *)
JmpListExact(d) ==
    LET w == JmpWalk(d)
    IN  /\ w[2 * MaxBlocks] = First(d)
        /\ {w[i] : i \in 0 .. 2 * MaxBlocks} \ {First(d)}
             = {f \in htable \X Slots : target[f] = d}

(* Every list of jumps to a live TB is intact: tb_jmp_unlink on it would   *)
(* find, and reset, every jump patched to go there.                        *)
JmpListsExact == \A d \in htable : JmpListExact(d)

(* No code that can be looked up branches into a TB that cannot. *)
NoJumpToDeadTB ==
    \A t \in htable : \A n \in tbs[t].slots : target[<<t, n>>] \in htable \cup {NULL}

(* The list of a page ends, and holds exactly the live TBs with code in    *)
(* the page, each once and under the right page number.                    *)
PageListsExact ==
    \A p \in Pages :
        LET w == PageWalk(p)
        IN  /\ w[2 * MaxBlocks] = NULL
            /\ {w[i] : i \in 0 .. 2 * MaxBlocks} \ {NULL}
                 = {f \in htable \X Slots : page_addr(tbs[f[1]], f[2]) = p}

(* What a jump cache holds can also be found in the hash table, and is in  *)
(* the entry its pc hashes to.                                             *)
JmpCacheCoherent ==
    \A c \in Cpus, h \in 0 .. JmpCacheSize - 1 :
        LET t == tb_jmp_cache[c][h]
        IN  t # NULL => t \in htable /\ Hash(tbs[t].key) = h

(* No guest state has two translations that a lookup could return. *)
OneTBPerKey ==
    \A s, t \in htable : tbs[s].key = tbs[t].key => s = t

(* The TBs handed out are laid out in the code buffer in the order of      *)
(* tbs[], without overlap: what the binary search of tb_find_pc needs.     *)
CodeLayout ==
    /\ \A t \in TBs : t < nb_tbs =>
            tbs[t].tc_ptr + CodeLen(tbs[t])
                <= (IF t + 1 < nb_tbs THEN tbs[t + 1].tc_ptr ELSE code_gen_ptr)
    /\ htable \subseteq 0 .. nb_tbs - 1
==============================================================================
