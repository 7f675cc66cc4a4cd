----------------------------- MODULE TBInvalidate -----------------------------
(***************************************************************************)
(* The translation cache used by one caller at a time, as the code does    *)
(* with tb_lock held: lookups that translate on a miss, chaining, flushes  *)
(* and the invalidation of TBs whose guest code changes.                   *)
(*                                                                         *)
(* Invalidation is a loop over a page list that removes list entries as it *)
(* goes.  The model keeps the loop: op holds the local variables of the    *)
(* invalidation under way, and each TB visited and each jump unlinked is a *)
(* step.                                                                   *)
(***************************************************************************)
EXTENDS TBCache

CONSTANT Ranges   \* bound: the address ranges <<start, end>> to invalidate

ASSUME RangesAssumption == \A r \in Ranges : r \in Nat \X Nat /\ r[1] < r[2]

VARIABLE op        \* NULL, or the invalidation under way

vars == <<cacheVars, op>>

Idle == op = NULL

OpRecord ==
    [kind : {"range", "page", "one"},
     from : Nat,                         \* start of the caller's range
     start : Nat,                        \* start, as the page loop advances it
     end : Nat,
     page : Pages \cup {-1},             \* page whose list is emptied
     tb : JmpSlots \cup {NULL},          \* next list entry to visit
     unlink : TBs \cup {NULL}]           \* TB in tb_jmp_unlink, if any

ASSUME OpAssumption == NULL \notin OpRecord

(* The types of the cache and of the loop variables. *)
TypeOK == CacheTypeOK /\ op \in OpRecord \cup {NULL}

Init == CacheInit /\ op = NULL

-----------------------------------------------------------------------------
(* Lookup, translation, chaining.                                          *)

(* tb_find_slow on a hit in the hash table. *)
Find(c, k) ==
    /\ Idle
    /\ \E t \in tb_find_physical(k) : tb_jmp_cache' = JmpCacheEnter(c, k, t)
    /\ UNCHANGED <<nb_tbs, code_gen_ptr, tbs, htable, tb_flushed, jmpVars, pageVars, op>>

(* tb_find_slow on a miss, when there is room: translate, then enter the   *)
(* new TB in the jump cache.                                               *)
Generate(c, k) ==
    /\ Idle
    /\ tb_find_physical(k) = {}
    /\ TbGenCode(k, neon_icount(k))
    /\ tb_jmp_cache' = JmpCacheEnter(c, k, nb_tbs)
    /\ UNCHANGED <<tb_flushed, op>>

(* The same when there is no room: tb_gen_code flushes and starts over. *)
Flush(k) ==
    /\ Idle
    /\ tb_find_physical(k) = {}
    /\ BufferFull(k, neon_icount(k))
    /\ TbFlush
    /\ UNCHANGED op

(* tb_find_fast chaining a TB that was left through a goto_tb slot to the  *)
(* TB found for the state it was left in.  One caller runs nothing while   *)
(* it invalidates, so the TB that was left is still in the hash table; the *)
(* code itself tests only that last_tb is not NULL.                        *)
Chain(t, n, d) ==
    /\ Idle
    /\ n \in tbs[t].slots /\ tbs[d].key \in StatesAfter(tbs[t], n)
    /\ TbAddJump(t, n, d)
    /\ UNCHANGED <<nb_tbs, code_gen_ptr, tbs, htable, tb_jmp_cache, tb_flushed,
                   pageVars, op>>

-----------------------------------------------------------------------------
(* tb_phys_invalidate.                                                     *)

(* tb_page_remove: unlink t from the list of page p.  The walk from the    *)
(* head of the list stops at the pointer that holds t, which is the head   *)
(* or a page_next of another TB of the list.                               *)
PageRemove(heads, nexts, p, t) ==
    LET n == CHOOSE m \in Slots : page_addr(tbs[t], m) = p
    IN  IF heads[p] = <<t, n>>
        THEN <<[heads EXCEPT ![p] = nexts[<<t, n>>]], nexts>>
        ELSE LET ptb == CHOOSE f \in (htable \ {t}) \X Slots :
                            page_addr(tbs[f[1]], f[2]) = p /\ nexts[f] = <<t, n>>
             IN  <<heads, [nexts EXCEPT ![ptb] = nexts[<<t, n>>]]>>

(* The page lists after tb_phys_invalidate(t, skip) has removed t from the *)
(* list of each of its pages other than skip.                              *)
PageListsWithout(t, skip) ==
    LET p0   == page_addr(tbs[t], 0)
        p1   == page_addr(tbs[t], 1)
        one  == IF p0 = skip THEN <<first_tb, page_next>>
                ELSE PageRemove(first_tb, page_next, p0, t)
    IN  IF p1 = -1 \/ p1 = skip THEN one ELSE PageRemove(one[1], one[2], p1, t)

MutRemoveFromJmpList(j, t, n) ==
    IF j[<<t, n>>] = NULL
    THEN j
    ELSE LET ptb == CHOOSE f \in (0 .. nb_tbs - 1) \X (0 .. 2) : j[f] = <<t, n>>
         IN  [j EXCEPT ![ptb] = j[<<t, n>>]]

(* tb_remove_from_jmp_list: unlink slot n of t from the circular list it   *)
(* is on.  The walk along the circle stops at the field that holds <<t,n>>.*)
RemoveFromJmpList(j, t, n) ==
    IF j[<<t, n>>] = NULL
    THEN j
    ELSE LET ptb == CHOOSE f \in (0 .. nb_tbs - 1) \X (0 .. 2) : j[f] = <<t, n>>
         IN  [j EXCEPT ![ptb] = j[<<t, n>>], ![<<t, n>>] = NULL]

(* The jump caches without t. *)
JmpCacheWithout(t) ==
    [c \in Cpus |->
        [h \in 0 .. JmpCacheSize - 1 |->
            IF h = Hash(tbs[t].key) /\ tb_jmp_cache[c][h] = t
            THEN NULL ELSE tb_jmp_cache[c][h]]]

(* tb_phys_invalidate(t, skip) up to tb_jmp_unlink, which is UnlinkJump    *)
(* and UnlinkDone below.                                                   *)
TbPhysInvalidate(t, skip) ==
    /\ htable' = htable \ {t}
    /\ LET lists == PageListsWithout(t, skip)
       IN  first_tb' = lists[1] /\ page_next' = lists[2]
    /\ tb_jmp_cache' = JmpCacheWithout(t)
    /\ jmp' = RemoveFromJmpList(RemoveFromJmpList(jmp, t, 0), t, 1)
    /\ UNCHANGED <<nb_tbs, code_gen_ptr, tbs, tb_flushed, target, stray>>

(* tb_reset_jump: the goto_tb of slot f falls through to its exit again. *)
MutTbResetJump(f) == UNCHANGED <<target, stray>>
TbResetJump(f) == TbSetJmpTarget(f[1], f[2], NULL)

(* One round of the loop of tb_jmp_unlink: take the first jump off the     *)
(* list of the TB and reset it (tb_reset_jump).                            *)
UnlinkJump ==
    /\ ~ Idle /\ op.unlink # NULL
    /\ LET f == jmp[First(op.unlink)]
       IN  /\ f[2] # 2
           /\ TbResetJump(f)
           /\ jmp' = [jmp EXCEPT ![First(op.unlink)] = jmp[f], ![f] = NULL]
    /\ UNCHANGED <<nb_tbs, code_gen_ptr, tbs, htable, tb_jmp_cache, tb_flushed,
                   pageVars, op>>

(* The list is empty again: tb_phys_invalidate returns to its caller. *)
UnlinkDone ==
    /\ ~ Idle /\ op.unlink # NULL
    /\ jmp[First(op.unlink)][2] = 2
    /\ op' = IF op.kind = "one" THEN NULL ELSE [op EXCEPT !.unlink = NULL]
    /\ UNCHANGED cacheVars

-----------------------------------------------------------------------------
(* The callers of tb_phys_invalidate.                                      *)

ListHead(p) == IF p \in Pages THEN first_tb[p] ELSE NULL

(* tb_check_watchpoint: invalidate the TB tb_find_pc returned. *)
InvalidateOne(t) ==
    /\ Idle
    /\ TbPhysInvalidate(t, -1)
    /\ op' = [kind |-> "one", from |-> 0, start |-> 0, end |-> 0, page |-> -1,
              tb |-> NULL, unlink |-> t]

(* tb_invalidate_phys_range(start, end): enter the loop over the pages. *)
InvalidateRange(start, end) ==
    /\ Idle
    /\ op' = [kind |-> "range", from |-> start, start |-> start, end |-> end, page |-> -1,
              tb |-> ListHead(PageOf(start)), unlink |-> NULL]
    /\ UNCHANGED cacheVars

MutIntersects(b, n, start, end) ==
    LET tb_start == page_addr(b, n) * PageSize + (b.key.pc % PageSize)
    IN  ~ (tb_start + b.insns * InsnSize <= start \/ tb_start >= end)

(* The test of tb_invalidate_phys_page_range: does TB b, met on a page     *)
(* list under page number n, have code in start..end-1?                    *)
Intersects(b, n, start, end) ==
    LET tb_start == IF n = 0 THEN b.key.pc ELSE page_addr(b, 1) * PageSize
        tb_end   == IF n = 0 THEN b.key.pc + b.insns * InsnSize
                    ELSE tb_start + ((LastByte(b) + 1) % PageSize)
    IN  ~ (tb_end <= start \/ tb_start >= end)

InLoop(kind) == ~ Idle /\ op.kind = kind /\ op.unlink = NULL

(* One round of the loop of tb_invalidate_phys_page_range: tb_next is read *)
(* before the TB is invalidated.                                           *)
VisitRangeTB ==
    /\ InLoop("range") /\ op.tb # NULL
    /\ LET t == op.tb[1]
       IN  IF Intersects(tbs[t], op.tb[2], op.start, op.end)
           THEN /\ TbPhysInvalidate(t, -1)
                /\ op' = [op EXCEPT !.tb = page_next[op.tb], !.unlink = t]
           ELSE /\ op' = [op EXCEPT !.tb = page_next[op.tb]]
                /\ UNCHANGED cacheVars

(* start &= TARGET_PAGE_MASK; start += TARGET_PAGE_SIZE. *)
MutNextStart(start) == PageOf(start) * PageSize
NextStart(start) == (PageOf(start) + 1) * PageSize

(* tb_invalidate_phys_range going on to the next page, or done. *)
NextPage ==
    /\ InLoop("range") /\ op.tb = NULL
    /\ LET start == NextStart(op.start)
       IN  op' = IF start < op.end
                 THEN [op EXCEPT !.start = start, !.tb = ListHead(PageOf(start))]
                 ELSE NULL
    /\ UNCHANGED cacheVars

(* tb_invalidate_phys_page(addr): every TB of the page. *)
InvalidatePage(p) ==
    /\ Idle
    /\ op' = [kind |-> "page", from |-> 0, start |-> 0, end |-> 0, page |-> p,
              tb |-> first_tb[p], unlink |-> NULL]
    /\ UNCHANGED cacheVars

(* One round of its loop: the list of the page itself is left alone, and   *)
(* page_next is read from the TB after it was invalidated.                 *)
VisitPageTB ==
    /\ InLoop("page") /\ op.tb # NULL
    /\ TbPhysInvalidate(op.tb[1], op.page)
    /\ op' = [op EXCEPT !.tb = page_next'[op.tb], !.unlink = op.tb[1]]

(* p->first_tb = NULL at the end of tb_invalidate_phys_page. *)
MutEmptyList(p) == first_tb
EmptyList(p) == [first_tb EXCEPT ![p] = NULL]

(* The end of tb_invalidate_phys_page: empty the list. *)
PageDone ==
    /\ InLoop("page") /\ op.tb = NULL
    /\ first_tb' = EmptyList(op.page)
    /\ op' = NULL
    /\ UNCHANGED <<nb_tbs, code_gen_ptr, tbs, htable, tb_jmp_cache, tb_flushed,
                   jmpVars, page_next>>

MutLastTB(t) == t < nb_tbs
LastTB(t) == t = nb_tbs - 1

(* tb_free, which its caller (cpu_exec_nocache) applies to a TB that it    *)
(* has just invalidated: give the entry back if it is the last one.        *)
TbFree(t) ==
    /\ Idle /\ t \notin htable
    /\ LastTB(t)
    /\ code_gen_ptr' = tbs[t].tc_ptr
    /\ nb_tbs' = nb_tbs - 1
    /\ UNCHANGED <<tbs, htable, tb_jmp_cache, tb_flushed, jmpVars, pageVars, op>>

-----------------------------------------------------------------------------
Next ==
    \/ \E c \in Cpus, k \in Keys : Find(c, k) \/ Generate(c, k)
    \/ \E k \in Keys : Flush(k)
    \/ \E t, d \in htable, n \in Slots : Chain(t, n, d)
    \/ \E t \in htable : InvalidateOne(t)
    \/ \E r \in Ranges : InvalidateRange(r[1], r[2])
    \/ \E p \in Pages : InvalidatePage(p)
    \/ VisitRangeTB \/ NextPage \/ VisitPageTB \/ PageDone
    \/ UnlinkJump \/ UnlinkDone
    \/ \E t \in TBs : TbFree(t)

Spec == Init /\ [][Next]_vars

FairSpec == Spec /\ WF_vars(VisitRangeTB \/ NextPage \/ VisitPageTB \/ PageDone
                            \/ UnlinkJump \/ UnlinkDone)

-----------------------------------------------------------------------------
(* Properties, beside JmpListsExact, JmpCacheCoherent and CodeLayout of    *)
(* TBCache, which hold at every step of an invalidation.                   *)

(* Between operations no TB that a lookup can return jumps into one that   *)
(* was invalidated: tb_phys_invalidate must have reset every jump chained  *)
(* to it, whichever lists the jump went through.                           *)
NoJumpToInvalidated == Idle => NoJumpToDeadTB

(* The page lists are exact whenever tb_invalidate_phys_page is not half-  *)
(* way through one: no TB is missed by an invalidation, none is left on a  *)
(* list to be followed after its entry is reused.                          *)
PagesExact == Idle \/ op.kind # "page" => PageListsExact

(* When tb_invalidate_phys_range returns, no TB that overlaps the range is *)
(* left, including one that reaches into it from the page before.          *)
RangeInvalidated ==
    [][(~ Idle /\ op.kind = "range" /\ op' = NULL) =>
         \A t \in htable' :
            \/ LastByte(tbs[t]) < op.from
            \/ tbs[t].key.pc >= op.end]_vars

(* The loops of an invalidation end, although they follow lists that they  *)
(* change.                                                                 *)
InvalidationEnds == (~ Idle) ~> Idle
==============================================================================
