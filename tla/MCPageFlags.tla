----------------------------- MODULE MCPageFlags -----------------------------
(***************************************************************************)
(* From pages and host addresses to TBs, for TLC: how rewritten code is    *)
(* noticed (PageFlags), the loops of the invalidation that page_set_flags  *)
(* and page_unprotect call (TBInvalidate), which PageFlags takes as one    *)
(* step, and how the instruction behind an address in generated code is    *)
(* found (SearchData).  PageFlags is used three times:                     *)
(*   any      two threads, two target pages in a host page, any ranges,    *)
(*            and calls of mprotect that fail                              *)
(*   aligned  one thread, mapping calls on whole host pages of two target  *)
(*            pages                                                        *)
(*   equal    two threads, target pages as large as host pages             *)
(* and the parts of the other two are loops and search.                    *)
(* The parts share no variable: a behaviour takes the steps of one of them *)
(* and the others stay in their initial states.                            *)
(***************************************************************************)
EXTENDS PageFlags, TLC

CONSTANTS
    OneThread, NULL, Cpus, PageSize, TCG_MAX_INSNS, MaxBlocks, BufSize, JmpCacheSize,
    WordBits, GroupBits, MaxTBs, Highwater, MaxRestores

VARIABLES
    part,
    aflags, ahost, atbs, astale, araced, athr,      \* "aligned"
    eflags, ehost, etbs, estale, eraced, ethr,      \* "equal"
    nb_tbs, code_gen_ptr, ctbs, htable, tb_jmp_cache, tb_flushed, jmp, target, stray,
    first_tb, page_next, op,                        \* "loops"
    stbs, end, pc, retaddr, m_min, m_max,
    tb, row, p, data, host_pc, env, restores        \* "search"

alignedVars == <<aflags, ahost, atbs, astale, araced, athr>>
equalVars   == <<eflags, ehost, etbs, estale, eraced, ethr>>
loopVars ==
    <<nb_tbs, code_gen_ptr, ctbs, htable, tb_jmp_cache, tb_flushed, jmp, target, stray,
      first_tb, page_next, op>>
searchVars ==
    <<stbs, end, pc, retaddr, m_min, m_max, tb, row, p, data, host_pc, env, restores>>

MCRanges == {a .. b : a, b \in Pages} \ {{}}
HostRanges == {0 .. 1, 2 .. 3, 0 .. 3}

Aligned == INSTANCE PageFlags WITH
              Threads <- OneThread, NPages <- 4, Ranges <- HostRanges, OverHoles <- FALSE,
              flags <- aflags, host <- ahost, tbs <- atbs, stale <- astale,
              raced <- araced, thr <- athr
Equal   == INSTANCE PageFlags WITH
              HostSize <- 1, OverHoles <- FALSE,
              flags <- eflags, host <- ehost, tbs <- etbs, stale <- estale,
              raced <- eraced, thr <- ethr

(* Three Thumb instructions in pages of four halfwords, as in module       *)
(* MCTBInvalidate.                                                         *)
T(n) == [pc |-> n, flags |-> "thumb"]
Loop == INSTANCE TBInvalidate WITH
          Keys <- {T(3), T(5), T(7)},
          Kind <- (T(3) :> "neon") @@ (T(5) :> "bcond") @@ (T(7) :> "bcond"),
          BranchDest <- (T(5) :> T(7)) @@ (T(7) :> T(7)),
          ThumbFlags <- {"thumb"}, Ranges <- {<<3, 5>>, <<8, 9>>}, tbs <- ctbs

(* SearchData: words of 8 bits in groups of 3, so that a word takes up to  *)
(* three groups and the last one reaches past its end.  Two columns: the   *)
(* guest pc, and bits that change in both directions.                      *)
Row(x, y, n) == [data |-> <<x, y>>, size |-> n]
MCTables == {<<Row(0, 0, 1), Row(4, 3, 0), Row(252, 255, 2)>>, <<Row(4, 4, 4)>>,
             <<Row(252, 31, 0), Row(8, 128, 5)>>, <<Row(0, 224, 3), Row(4, 31, 1)>>}
Search == INSTANCE SearchData WITH
            Tables <- MCTables, tbs <- stbs, code_gen_ptr <- end, insn <- row

-----------------------------------------------------------------------------
MCInit ==
    /\ part \in {"any", "aligned", "equal", "loops", "search"}
    /\ Init /\ Aligned!Init /\ Equal!Init /\ Loop!Init /\ Search!Init

MCNext ==
    /\ UNCHANGED part
    /\ \/ /\ part = "any" /\ Next
          /\ UNCHANGED <<alignedVars, equalVars, loopVars, searchVars>>
       \/ /\ part = "aligned" /\ Aligned!Next
          /\ UNCHANGED <<vars, equalVars, loopVars, searchVars>>
       \/ /\ part = "equal" /\ Equal!Next
          /\ UNCHANGED <<vars, alignedVars, loopVars, searchVars>>
       \/ /\ part = "loops" /\ Loop!Next
          /\ UNCHANGED <<vars, alignedVars, equalVars, searchVars>>
       \/ /\ part = "search" /\ Search!Next
          /\ UNCHANGED <<vars, alignedVars, equalVars, loopVars>>
       \/ /\ part = "search" /\ pc \in {"found", "failed"}   \* the bound MaxRestores
          /\ UNCHANGED <<vars, alignedVars, equalVars, loopVars, searchVars>>

(* The fairness of the loops: a thread inside an invalidation, or inside   *)
(* tb_find_pc and cpu_restore_state_from_tb, goes on.                      *)
MCSpec ==
    /\ MCInit /\ [][MCNext]_<<part, vars, alignedVars, equalVars, loopVars, searchVars>>
    /\ WF_loopVars(/\ part = "loops"
                   /\ \/ Loop!VisitRangeTB \/ Loop!NextPage
                      \/ Loop!VisitPageTB \/ Loop!PageDone
                      \/ Loop!UnlinkJump \/ Loop!UnlinkDone)
    /\ WF_searchVars(part = "search" /\ (Search!TbFindPc \/ Search!CpuRestoreStateFromTb))

-----------------------------------------------------------------------------
(* Beside CodePagesMarked of PageFlags, in the part "any":                 *)

(* PageFlags: no translation of code that has been rewritten since is in   *)
(* the cache, where mapping calls are made on whole host pages.            *)
NoStaleTB == Aligned!NoStaleCode /\ Equal!NoStaleCode

(* TBInvalidate: the loops of an invalidation end. *)
InvalidationEnds == Loop!InvalidationEnds

(* SearchData: the instruction an address belongs to is found. *)
RestoresExactly == Search!RestoresExactly
(* SearchData: the searches end. *)
RestoreEnds == Search!RestoreEnds
==============================================================================
