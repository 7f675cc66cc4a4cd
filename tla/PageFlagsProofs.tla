--------------------------- MODULE PageFlagsProofs ---------------------------
(***************************************************************************)
(* What the page flags guarantee, proved for any number of threads and     *)
(* pages and any size of host pages: a page with code is never marked      *)
(* writable; and where mapping calls are made on whole host pages, no code *)
(* that was rewritten stays in the cache.                                  *)
(***************************************************************************)
EXTENDS PageFlags, TLAPS

(* The shapes of the variables that the proofs need. *)
Shapes ==
    /\ flags \in [Pages -> SUBSET Flag]
    /\ thr = [t \in Threads |-> thr[t]]
    /\ \A b \in tbs : b \subseteq Pages
    /\ \A t \in Threads : thr[t].at = "translating" => thr[t].block \subseteq Pages
    /\ \A t \in Threads : thr[t].at = "faulted" => thr[t].page \in Pages
    /\ \A t \in Threads : thr[t].at = "changing" =>
          thr[t].call \in Calls /\ thr[t].range \in Ranges /\ thr[t].prot \in Prots

MarkInv == Shapes /\ CodePagesMarked

LEMMA BlocksInPages == \A b \in Blocks : b \subseteq Pages
BY PageAssumption DEF Blocks, Pages

LEMMA RangesInPages == \A r \in Ranges : r \subseteq Pages
BY PageAssumption DEF Pages

LEMMA NewFlagsType ==
    ASSUME NEW call, NEW prot \in Prots PROVE NewFlags(call, prot) \in SUBSET Flag
BY DEF NewFlags, Prots, Flag

LEMMA MarkInit == Init => MarkInv
BY DEF Init, MarkInv, Shapes, CodePagesMarked, Idle, Flag

-----------------------------------------------------------------------------
(* Steps of a thread that leave the flags and the cache alone. *)

LEMMA MarkThread ==
    ASSUME MarkInv, UNCHANGED <<flags, tbs>>, NEW t \in Threads, NEW s,
           thr' = [thr EXCEPT ![t] = s],
           s.at = "translating" => s.block \subseteq Pages,
           s.at = "faulted" => s.page \in Pages,
           s.at = "changing" => s.call \in Calls /\ s.range \in Ranges /\ s.prot \in Prots
    PROVE  MarkInv'
BY DEF MarkInv, Shapes, CodePagesMarked

LEMMA MarkTranslate ==
    ASSUME MarkInv, NEW t \in Threads, NEW b \in Blocks, Translate(t, b) PROVE MarkInv'
BY MarkThread, BlocksInPages DEF Translate, Translating

LEMMA MarkStore ==
    ASSUME MarkInv, NEW t \in Threads, NEW p \in Pages, Store(t, p) PROVE MarkInv'
<1>1. thr' = [u \in Threads |->
                IF thr[u].at = "translating" /\ thr[u].block \cap {p} # {}
                THEN Translating(thr[u].block, FALSE) ELSE thr[u]]
  BY DEF Store, Disturbed
<1>2. ASSUME NEW u \in Threads
      PROVE  \/ thr'[u] = thr[u]
             \/ /\ thr[u].at = "translating"
                /\ thr'[u].at = "translating" /\ thr'[u].block = thr[u].block
  <2>1. CASE thr[u].at = "translating" /\ thr[u].block \cap {p} # {}
    BY <1>1, <2>1 DEF Translating
  <2>2. CASE ~ (thr[u].at = "translating" /\ thr[u].block \cap {p} # {})
    BY <1>1, <2>2
  <2> QED
    BY <2>1, <2>2
<1>3. thr' = [u \in Threads |-> thr'[u]]
  BY <1>1
<1>4. flags' = flags /\ tbs' = tbs
  BY DEF Store
<1>5. \A u \in Threads : thr'[u].at = "translating" => thr'[u].block \subseteq Pages
  BY <1>2 DEF MarkInv, Shapes
<1>6. \A u \in Threads : thr'[u].at = "faulted" => thr'[u].page \in Pages
  BY <1>2 DEF MarkInv, Shapes
<1>7. \A u \in Threads : thr'[u].at = "changing" =>
        thr'[u].call \in Calls /\ thr'[u].range \in Ranges /\ thr'[u].prot \in Prots
  BY <1>2 DEF MarkInv, Shapes
<1> QED
  BY <1>3, <1>4, <1>5, <1>6, <1>7 DEF MarkInv, Shapes, CodePagesMarked

LEMMA MarkFault ==
    ASSUME MarkInv, NEW t \in Threads, NEW p \in Pages, Fault(t, p) \/ page_check_range(t, p)
    PROVE  MarkInv'
BY MarkThread DEF Fault, page_check_range, Faulted

LEMMA MarkReport ==
    ASSUME MarkInv, NEW t \in Threads, NotHandled(t) \/ Report(t) PROVE MarkInv'
BY MarkThread DEF NotHandled, Report, Segv, Idle

LEMMA MarkCall ==
    ASSUME MarkInv, NEW t \in Threads, NEW r \in Ranges, NEW prot \in Prots,
           MprotectHost(t, r, prot) \/ MprotectFails(t, r, prot) \/ MmapHost(t, r, prot)
    PROVE  MarkInv'
<1>1. CASE MprotectHost(t, r, prot)
  BY <1>1, MarkThread DEF MprotectHost, Begin, Changing
<1>2. CASE MprotectFails(t, r, prot)
  BY <1>2 DEF MprotectFails, MarkInv, Shapes, CodePagesMarked
<1>3. CASE MmapHost(t, r, prot)
  BY <1>3, MarkThread DEF MmapHost, Begin, Changing
<1> QED
  BY <1>1, <1>2, <1>3

LEMMA MarkUnmap ==
    ASSUME MarkInv, NEW t \in Threads, NEW r \in Ranges, MunmapHost(t, r) PROVE MarkInv'
<1>1. "munmap" \in Calls /\ {"R"} \in Prots
  BY DEF MunmapHost, Prots
<1> QED
  BY <1>1, MarkThread DEF MunmapHost, Begin, Changing

-----------------------------------------------------------------------------
(* The steps that change the flags. *)

LEMMA MarkIdle ==
    ASSUME MarkInv, NEW t \in Threads, thr' = [thr EXCEPT ![t] = Idle],
           flags' \in [Pages -> SUBSET Flag], \A b \in tbs' : b \subseteq Pages,
           CodePagesMarked'
    PROVE  MarkInv'
BY DEF MarkInv, Shapes, Idle

(* A TB is linked: writable pages of it lose the mark, and no page gains   *)
(* it.                                                                     *)
LEMMA MarkLink == ASSUME MarkInv, NEW t \in Threads, tb_alloc_page(t) PROVE MarkInv'
<1> DEFINE b == thr[t].block
           H == ToProtect(b)
<1>1. /\ flags' = [p \in Pages |->
                     IF HostOf(p) \in H THEN flags[p] \ {"W"} ELSE flags[p]]
      /\ tbs' = tbs \cup {b}
      /\ thr' = [thr EXCEPT ![t] = Idle]
      /\ b \subseteq Pages
  BY DEF tb_alloc_page, MarkInv, Shapes
<1>2. \A p \in b : "W" \in flags[p] => HostOf(p) \in H
  BY DEF ToProtect
<1>3. \A p \in Pages : "W" \in flags'[p] => "W" \in flags[p] /\ HostOf(p) \notin H
  BY <1>1
<1>4. CodePagesMarked'
  BY <1>1, <1>2, <1>3 DEF MarkInv, Shapes, CodePagesMarked
<1>5. flags' \in [Pages -> SUBSET Flag]
  BY <1>1 DEF MarkInv, Shapes
<1> QED
  BY <1>1, <1>4, <1>5, MarkIdle DEF MarkInv, Shapes

(* page_unprotect: the pages that get the mark are those whose code goes. *)
LEMMA MarkUnprotect == ASSUME MarkInv, NEW t \in Threads, page_unprotect(t) PROVE MarkInv'
<1> DEFINE q == thr[t].page
           h == HostOf(q)
<1>1. /\ flags' = [p \in Pages |->
                     IF HostOf(p) = h THEN flags[p] \cup {"W"} ELSE flags[p]]
      /\ tbs' = {b \in tbs : b \cap ToInvalidate(q) = {}}
      /\ thr' = [thr EXCEPT ![t] = Idle]
  BY DEF page_unprotect, Invalidate
<1>2. \A b \in tbs' : b \in tbs /\ b \subseteq Pages /\ \A p \in b : HostOf(p) # h
  BY <1>1 DEF ToInvalidate, PagesOf, MarkInv, Shapes
<1>3. CodePagesMarked'
  BY <1>1, <1>2 DEF MarkInv, CodePagesMarked
<1>4. flags' \in [Pages -> SUBSET Flag]
  BY <1>1 DEF MarkInv, Shapes, Flag
<1> QED
  BY <1>1, <1>2, <1>3, <1>4, MarkIdle

(* page_set_flags: a page that gets the mark had it already, and then      *)
(* there is no code on it, or its code goes.                               *)
LEMMA MarkSetFlags == ASSUME MarkInv, NEW t \in Threads, page_set_flags(t) PROVE MarkInv'
<1> DEFINE call == thr[t].call
           r == thr[t].range
           prot == thr[t].prot
<1>1. /\ flags' = [p \in Pages |-> IF p \in r THEN NewFlags(call, prot) ELSE flags[p]]
      /\ tbs' = {b \in tbs : b \cap Dropped(call, r, prot) = {}}
      /\ thr' = [thr EXCEPT ![t] = Idle]
      /\ prot \in Prots
  BY DEF page_set_flags, Invalidate, MarkInv, Shapes
<1>2. "W" \in NewFlags(call, prot) => call # "munmap" /\ "W" \in prot
  BY DEF NewFlags
<1>3. \A b \in tbs' : b \in tbs /\ b \subseteq Pages /\ b \cap Dropped(call, r, prot) = {}
  BY <1>1 DEF MarkInv, Shapes
<1>4. ASSUME NEW b \in tbs', NEW p \in b PROVE "W" \notin flags'[p]
  <2>1. p \in Pages /\ "W" \notin flags[p]
    BY <1>3, <1>4 DEF MarkInv, CodePagesMarked
  <2>2. CASE p \notin r
    BY <1>1, <2>1, <2>2
  <2>3. CASE p \in r
    <3>1. p \notin Dropped(call, r, prot)
      BY <1>3, <1>4
    <3>2. call = "mprotect" /\ "W" \notin prot
      BY <2>1, <2>3, <3>1 DEF Dropped
    <3> QED
      BY <1>1, <1>2, <2>1, <2>3, <3>2
  <2> QED
    BY <2>2, <2>3
<1>5. flags' \in [Pages -> SUBSET Flag]
  BY <1>1, NewFlagsType DEF MarkInv, Shapes
<1>6. CodePagesMarked'
  BY <1>4 DEF CodePagesMarked
<1> HIDE DEF call, r, prot
<1> QED
  BY <1>1, <1>3, <1>5, <1>6, MarkIdle

LEMMA MarkNext == MarkInv /\ [Next]_vars => MarkInv'
<1> SUFFICES ASSUME MarkInv, [Next]_vars PROVE MarkInv'
  OBVIOUS
<1>1. CASE UNCHANGED vars
  BY <1>1 DEF vars, MarkInv, Shapes, CodePagesMarked
<1>2. CASE Next
  BY <1>2, MarkTranslate, MarkStore, MarkFault, MarkReport, MarkCall, MarkUnmap, MarkLink,
     MarkUnprotect, MarkSetFlags DEF Next
<1> QED
  BY <1>1, <1>2

LEMMA MarkAlways == Spec => []MarkInv
BY MarkInit, MarkNext, PTL DEF Spec

(* A page with code in the cache is never marked writable: for host pages  *)
(* of any size, mapping calls on parts of them and calls that fail.        *)
THEOREM CodeStaysMarked == Spec => []CodePagesMarked
<1>1. MarkInv => CodePagesMarked
  BY DEF MarkInv
<1> QED
  BY <1>1, MarkAlways, PTL

-----------------------------------------------------------------------------
(* Rewritten code, where the host's part of every mapping call is about    *)
(* the same pages as page_set_flags: known mappings, calls on whole host   *)
(* pages, none of which fails.                                             *)

WholeCalls ==
    /\ Registered = TRUE /\ OverHoles = FALSE
    /\ \A r \in Ranges : Touched(r) = Whole(r)

Busy(t) == thr[t].at \in {"translating", "changing"}
Changes(t, p) == thr[t].at = "changing" /\ p \in thr[t].range

(* mmap_lock *)
LockInv == \A t, u \in Threads : Busy(t) /\ Busy(u) => t = u

(* The host lets a page be written only if the flags say so, or will say   *)
(* so when the call that is changing them is over.                         *)
WriteInv ==
    \A p \in Pages : Writable(p) =>
        /\ \A t \in Threads : Changes(t, p) => thr[t].call # "munmap" /\ "W" \in thr[t].prot
        /\ (\A t \in Threads : ~ Changes(t, p)) => "W" \in flags[p]

(* A TB whose code was rewritten is about to be dropped. *)
ToBeDropped(b) ==
    \E t \in Threads :
        /\ thr[t].at = "changing"
        /\ b \cap Dropped(thr[t].call, thr[t].range, thr[t].prot) # {}
StaleInv == \A b \in stale : ToBeDropped(b)

WholeInv ==
    /\ MarkInv
    /\ host = [h \in HostPages |-> host[h]]
    /\ LockInv
    /\ WriteInv
    /\ StaleInv

LEMMA WholePages ==
    ASSUME WholeCalls, NEW r \in Ranges, NEW p \in Pages
    PROVE  HostOf(p) \in Touched(r) <=> p \in r
BY DEF WholeCalls, Touched, Whole, PagesOf

LEMMA HostOfPage == \A p \in Pages : HostOf(p) \in HostPages
BY DEF HostPages

LEMMA WholeInit == WholeCalls /\ Init => WholeInv
<1> SUFFICES ASSUME WholeCalls, Init PROVE WholeInv
  OBVIOUS
<1>1. \A h \in HostPages : host[h] = Unmapped
  BY DEF WholeCalls, Init
<1>2. WriteInv
  BY <1>1, HostOfPage DEF WriteInv, Writable, Unmapped
<1>3. LockInv /\ StaleInv /\ host = [h \in HostPages |-> host[h]]
  BY DEF Init, LockInv, Busy, StaleInv, Idle
<1> QED
  BY <1>2, <1>3, MarkInit DEF WholeInv

(* Without a thread in a mapping call nothing is stale. *)
LEMMA NothingStale ==
    ASSUME WholeInv, \A t \in Threads : thr[t].at # "changing" PROVE stale = {}
BY DEF WholeInv, StaleInv, ToBeDropped

(* Steps during which the mapping calls under way stay as they are. *)
LEMMA Quiet ==
    ASSUME WholeInv, UNCHANGED <<flags, host, stale>>,
           \A u \in Threads : thr[u].at = "changing" \/ thr'[u].at = "changing"
                                => thr'[u] = thr[u]
    PROVE  WriteInv' /\ StaleInv' /\ (host = [h \in HostPages |-> host[h]])'
<1>1. \A u \in Threads, p \in Pages : Changes(u, p)' <=> Changes(u, p)
  BY DEF Changes
<1>2. WriteInv'
  BY <1>1 DEF WholeInv, WriteInv, Writable, Changes
<1>3. StaleInv'
  BY DEF WholeInv, StaleInv, ToBeDropped, Dropped
<1> QED
  BY <1>2, <1>3 DEF WholeInv

LEMMA WholeTranslate ==
    ASSUME WholeInv, NEW t \in Threads, NEW b \in Blocks, Translate(t, b) PROVE WholeInv'
<1> USE DEF Translate
<1>1. MarkInv'
  BY MarkTranslate DEF WholeInv
<1>2. /\ thr[t].at = "idle" /\ thr'[t].at = "translating"
      /\ \A u \in Threads : u # t => thr'[u] = thr[u]
  BY DEF WholeInv, MarkInv, Shapes, Idle, Translating
<1>3. LockInv'
  BY <1>2 DEF LockInv, Busy, MmapLockFree
<1> QED
  BY <1>1, <1>2, <1>3, Quiet DEF WholeInv

LEMMA WholeFault ==
    ASSUME WholeInv, NEW t \in Threads,
           \/ \E p \in Pages : Fault(t, p) \/ page_check_range(t, p)
           \/ NotHandled(t) \/ Report(t)
    PROVE  WholeInv'
<1>1. MarkInv'
  BY MarkFault, MarkReport DEF WholeInv
<1>2. /\ ~ Busy(t) /\ ~ Busy(t)'
      /\ \A u \in Threads : u # t => thr'[u] = thr[u]
  BY DEF WholeInv, MarkInv, Shapes, Busy, Fault, page_check_range, NotHandled, Report, Idle,
         Faulted, Segv
<1>3. UNCHANGED <<flags, host, stale>>
  BY DEF Fault, page_check_range, NotHandled, Report
<1>4. LockInv'
  BY <1>2 DEF WholeInv, LockInv, Busy
<1>5. \A u \in Threads : thr[u].at = "changing" \/ thr'[u].at = "changing" => thr'[u] = thr[u]
  BY <1>2 DEF Busy
<1> QED
  BY <1>1, <1>3, <1>4, <1>5, Quiet DEF WholeInv

(* A store: code of the page is only there while a call that will drop it  *)
(* is under way.                                                           *)
LEMMA WholeStore ==
    ASSUME WholeInv, NEW t \in Threads, NEW p \in Pages, Store(t, p) PROVE WholeInv'
<1>1. MarkInv'
  BY MarkStore DEF WholeInv
<1>2. \A u \in Threads : \/ thr'[u] = thr[u]
                         \/ thr[u].at = "translating" /\ thr'[u].at = "translating"
  BY DEF Store, Disturbed, Translating
<1>3. LockInv'
  BY <1>2 DEF WholeInv, LockInv, Busy
<1>4. \A u \in Threads, q \in Pages : Changes(u, q)' <=> Changes(u, q)
  BY <1>2 DEF Changes
<1>5. UNCHANGED <<flags, host>>
  BY DEF Store
<1>6. WriteInv'
  BY <1>2, <1>4, <1>5 DEF WholeInv, WriteInv, Writable, Changes
<1>7. ASSUME NEW b \in Rewritten({p}) PROVE ToBeDropped(b)
  <2>1. b \in tbs /\ p \in b /\ "W" \notin flags[p]
    BY <1>7 DEF Rewritten, WholeInv, MarkInv, CodePagesMarked
  <2>2. PICK u \in Threads : Changes(u, p)
    BY <2>1 DEF Store, WholeInv, WriteInv
  <2>3. thr[u].call # "munmap" /\ "W" \in thr[u].prot
    BY <2>2 DEF Store, WholeInv, WriteInv
  <2>4. p \in Dropped(thr[u].call, thr[u].range, thr[u].prot)
    BY <2>1, <2>2, <2>3 DEF Dropped, Changes
  <2> QED
    BY <2>1, <2>2, <2>4 DEF ToBeDropped, Changes
<1>8. \A b \in stale' : ToBeDropped(b)
  BY <1>7 DEF Store, WholeInv, StaleInv
<1>9. StaleInv'
  BY <1>2, <1>5, <1>8 DEF StaleInv, ToBeDropped, Dropped
<1> QED
  BY <1>1, <1>3, <1>5, <1>6, <1>9 DEF WholeInv

-----------------------------------------------------------------------------
(* The steps under mmap_lock.                                              *)

(* No call is under way, before or after the step. *)
LEMMA NoCall ==
    ASSUME WholeInv, MarkInv', NEW t \in Threads, thr' = [thr EXCEPT ![t] = Idle],
           thr[t].at # "changing", \A u \in Threads : u # t => thr[u].at # "changing",
           host' = [h \in HostPages |-> host'[h]],
           stale' \subseteq stale,
           \A p \in Pages : Writable(p)' => "W" \in flags'[p]
    PROVE  WholeInv'
<1>1. \A u \in Threads : thr'[u].at # "changing" /\ (Busy(u)' => Busy(u))
  BY DEF WholeInv, MarkInv, Shapes, Idle, Busy
<1>2. stale' = {}
  BY NothingStale
<1>3. WriteInv'
  BY <1>1 DEF WriteInv, Changes
<1>4. LockInv' /\ StaleInv'
  BY <1>1, <1>2 DEF WholeInv, LockInv, StaleInv
<1> QED
  BY <1>3, <1>4 DEF WholeInv

LEMMA WholeLink == ASSUME WholeInv, NEW t \in Threads, tb_alloc_page(t) PROVE WholeInv'
<1> DEFINE H == ToProtect(thr[t].block)
<1>1. /\ flags' = [p \in Pages |->
                     IF HostOf(p) \in H THEN flags[p] \ {"W"} ELSE flags[p]]
      /\ host' = [h \in HostPages |->
                    IF h \in H THEN MappedAs(HostProt(flags, h) \ {"W"}) ELSE host[h]]
      /\ thr' = [thr EXCEPT ![t] = Idle]
      /\ stale' = stale
      /\ thr[t].at = "translating"
  BY DEF tb_alloc_page
<1>2. MarkInv'
  BY MarkLink DEF WholeInv
<1>3. \A u \in Threads : u # t => thr[u].at # "changing"
  BY <1>1 DEF WholeInv, LockInv, Busy
<1>4. \A u \in Threads, p \in Pages : ~ Changes(u, p)
  BY <1>1, <1>3 DEF Changes
<1> HIDE DEF H
<1>5. ASSUME NEW p \in Pages, Writable(p)' PROVE "W" \in flags'[p]
  <2>1. HostOf(p) \in HostPages
    BY HostOfPage
  <2>2. HostOf(p) \notin H
    BY <1>1, <1>5, <2>1 DEF Writable, MappedAs
  <2>3. Writable(p)
    BY <1>1, <1>5, <2>1, <2>2 DEF Writable
  <2> QED
    BY <1>1, <1>4, <2>2, <2>3 DEF WholeInv, WriteInv
<1> QED
  BY <1>1, <1>2, <1>3, <1>5, NoCall

LEMMA WholeUnprotect ==
    ASSUME WholeInv, NEW t \in Threads, page_unprotect(t) PROVE WholeInv'
<1> DEFINE h == HostOf(thr[t].page)
           opened == [p \in Pages |->
                        IF HostOf(p) = h THEN flags[p] \cup {"W"} ELSE flags[p]]
<1>1. /\ flags' = opened
      /\ host' = [host EXCEPT ![h] = MappedAs(HostProt(opened, h))]
      /\ thr' = [thr EXCEPT ![t] = Idle]
      /\ stale' \subseteq stale
      /\ thr[t].at = "faulted"
  BY DEF page_unprotect, Invalidate
<1>2. MarkInv'
  BY MarkUnprotect DEF WholeInv
<1>3. \A u \in Threads : thr[u].at # "changing"
  BY DEF page_unprotect, MmapLockFree
<1>4. \A u \in Threads, p \in Pages : ~ Changes(u, p)
  BY <1>3 DEF Changes
<1>5. ASSUME NEW p \in Pages, Writable(p)' PROVE "W" \in flags'[p]
  <2>1. CASE HostOf(p) = h
    BY <1>1, <2>1
  <2>2. CASE HostOf(p) # h
    <3>1. Writable(p)
      BY <1>1, <1>5, <2>2, HostOfPage DEF WholeInv, Writable
    <3> QED
      BY <1>1, <1>4, <2>2, <3>1 DEF WholeInv, WriteInv
  <2> QED
    BY <2>1, <2>2
<1>6. host' = [x \in HostPages |-> host'[x]]
  BY <1>1 DEF WholeInv
<1> QED
  BY <1>1, <1>2, <1>3, <1>5, <1>6, NoCall

(* The host's part of a call: what it makes writable is what the flags     *)
(* will say, and what it replaces will be dropped.                         *)
LEMMA WholeBegin ==
    ASSUME WholeCalls, WholeInv, MarkInv', NEW t \in Threads, NEW r \in Ranges,
           NEW call \in {"mmap", "mprotect", "munmap"}, NEW prot \in Prots,
           thr[t] = Idle, MmapLockFree,
           Begin(t, call, r, prot), UNCHANGED <<flags, tbs>>,
           host' = [h \in HostPages |-> host'[h]],
           \A h \in HostPages : h \notin Touched(r) => host'[h] = host[h],
           \A h \in Touched(r) : "W" \in host'[h].prot => call # "munmap" /\ "W" \in prot,
           stale' \subseteq stale \cup Rewritten(r),
           call = "mprotect" => stale' \subseteq stale
    PROVE  WholeInv'
<1>1. /\ thr'[t] = Changing(call, r, prot)
      /\ \A u \in Threads : u # t => thr'[u] = thr[u]
      /\ \A u \in Threads : ~ Busy(u)
  BY DEF WholeInv, MarkInv, Shapes, Begin, MmapLockFree, Busy
<1>2. /\ thr'[t].at = "changing" /\ thr'[t].call = call /\ thr'[t].range = r
      /\ thr'[t].prot = prot
      /\ \A u \in Threads : u # t => ~ Busy(u)'
  BY <1>1 DEF Changing, Busy
<1>3. LockInv'
  BY <1>2 DEF LockInv
<1>4. \A u \in Threads, p \in Pages : /\ ~ Changes(u, p)
                                      /\ Changes(u, p)' => u = t /\ p \in r
  BY <1>1, <1>2 DEF Changes, Busy
<1>5. ASSUME NEW p \in Pages, Writable(p)'
      PROVE  IF p \in r THEN call # "munmap" /\ "W" \in prot ELSE "W" \in flags[p]
  <2>1. HostOf(p) \in HostPages
    BY HostOfPage
  <2>2. CASE p \in r
    BY <1>5, <2>2, WholePages DEF Writable
  <2>3. CASE p \notin r
    <3>1. Writable(p)
      BY <1>5, <2>1, <2>3, WholePages DEF Writable
    <3> QED
      BY <1>4, <2>3, <3>1 DEF WholeInv, WriteInv
  <2> QED
    BY <2>2, <2>3
<1>6. \A p \in Pages : p \in r => Changes(t, p)'
  BY <1>2 DEF Changes
<1>7. WriteInv'
  BY <1>2, <1>4, <1>5, <1>6 DEF WriteInv
<1>8. stale = {}
  BY <1>1, NothingStale DEF Busy
<1>9. ASSUME NEW b \in stale' PROVE ToBeDropped(b)'
  <2>1. call # "mprotect" /\ b \in Rewritten(r)
    BY <1>8, <1>9
  <2>2. b \cap Dropped(call, r, prot)' # {}
    BY <2>1 DEF Rewritten, Dropped
  <2> QED
    BY <1>2, <2>2 DEF ToBeDropped, Dropped
<1>10. StaleInv'
  BY <1>9 DEF StaleInv
<1> QED
  BY <1>3, <1>7, <1>10 DEF WholeInv

LEMMA WholeMprotect ==
    ASSUME WholeCalls, WholeInv, NEW t \in Threads, NEW r \in Ranges, NEW prot \in Prots,
           MprotectHost(t, r, prot)
    PROVE  WholeInv'
<1>1. MarkInv'
  BY MarkCall DEF WholeInv
<1>2. /\ host' = [h \in HostPages |->
                    IF h \in Touched(r) THEN MappedAs(WithNeighbours(prot, r, h)) ELSE host[h]]
      /\ thr[t] = Idle /\ MmapLockFree /\ Begin(t, "mprotect", r, prot)
      /\ UNCHANGED <<flags, tbs, stale>>
  BY DEF MprotectHost
<1>3. \A h \in Touched(r) : h \in HostPages /\ WithNeighbours(prot, r, h) = prot
  <2>1. \A h \in Touched(r) : h \in HostPages /\ PagesOf(h) \ r = {}
    BY DEF WholeCalls, Whole
  <2> QED
    BY <2>1 DEF WithNeighbours
<1>4. \A h \in Touched(r) : host'[h].prot = prot
  BY <1>2, <1>3 DEF MappedAs
<1> QED
  BY <1>1, <1>2, <1>4, WholeBegin

LEMMA WholeMmap ==
    ASSUME WholeCalls, WholeInv, NEW t \in Threads, NEW r \in Ranges, NEW prot \in Prots,
           MmapHost(t, r, prot)
    PROVE  WholeInv'
<1>1. MarkInv'
  BY MarkCall DEF WholeInv
<1>2. /\ host' = [h \in HostPages |-> IF h \in Touched(r) THEN MappedAs(prot) ELSE host[h]]
      /\ thr[t] = Idle /\ MmapLockFree /\ Begin(t, "mmap", r, prot)
      /\ UNCHANGED <<flags, tbs>> /\ stale' = stale \cup Rewritten(r)
  BY DEF MmapHost
<1>3. \A h \in Touched(r) : h \in HostPages /\ host'[h].prot = prot
  BY <1>2 DEF WholeCalls, Whole, MappedAs
<1> QED
  BY <1>1, <1>2, <1>3, WholeBegin

LEMMA WholeMunmap ==
    ASSUME WholeCalls, WholeInv, NEW t \in Threads, NEW r \in Ranges, MunmapHost(t, r)
    PROVE  WholeInv'
<1> DEFINE gone == {h \in Touched(r) : \A p \in PagesOf(h) \ r : flags[p] = {}}
<1>1. MarkInv'
  BY MarkUnmap DEF WholeInv
<1>2. /\ host' = [h \in HostPages |-> IF h \in gone THEN Unmapped ELSE host[h]]
      /\ thr[t] = Idle /\ MmapLockFree /\ Begin(t, "munmap", r, {"R"})
      /\ UNCHANGED <<flags, tbs>>
      /\ stale' = stale \cup Rewritten({p \in r : HostOf(p) \in gone})
  BY DEF MunmapHost
<1>3. gone = Touched(r) /\ Touched(r) \subseteq HostPages
  BY DEF WholeCalls, Whole
<1> HIDE DEF gone
<1>4. \A h \in Touched(r) : host'[h].prot = {}
  BY <1>2, <1>3 DEF Unmapped
<1>5. stale' \subseteq stale \cup Rewritten(r)
  BY <1>2 DEF Rewritten
<1>6. {"R"} \in Prots
  BY DEF Prots
<1> QED
  BY <1>1, <1>2, <1>3, <1>4, <1>5, <1>6, WholeBegin

(* page_set_flags and the invalidation: the flags catch up with the host,  *)
(* and what was rewritten meanwhile goes.                                  *)
LEMMA WholeSetFlags == ASSUME WholeInv, NEW t \in Threads, page_set_flags(t) PROVE WholeInv'
<1> DEFINE call == thr[t].call
           r == thr[t].range
           prot == thr[t].prot
<1>1. /\ flags' = [p \in Pages |-> IF p \in r THEN NewFlags(call, prot) ELSE flags[p]]
      /\ tbs' = {b \in tbs : b \cap Dropped(call, r, prot) = {}}
      /\ stale' = stale \cap tbs'
      /\ thr' = [thr EXCEPT ![t] = Idle]
      /\ host' = host
      /\ thr[t].at = "changing"
  BY DEF page_set_flags, Invalidate
<1>2. MarkInv'
  BY MarkSetFlags DEF WholeInv
<1>3. \A u \in Threads : u # t => ~ Busy(u)
  BY <1>1 DEF WholeInv, LockInv, Busy
<1>4. \A u \in Threads : ~ Busy(u)'
  BY <1>1, <1>3 DEF WholeInv, MarkInv, Shapes, Busy, Idle
<1>5. stale' = {}
  BY <1>1, <1>3 DEF WholeInv, StaleInv, ToBeDropped, Busy
<1>6. ASSUME NEW p \in Pages, Writable(p)' PROVE "W" \in flags'[p]
  <2>1. Writable(p)
    BY <1>1, <1>6 DEF Writable
  <2>2. CASE p \in r
    <3>1. call # "munmap" /\ "W" \in prot
      BY <1>1, <2>1, <2>2 DEF WholeInv, WriteInv, Changes
    <3> QED
      BY <1>1, <2>2, <3>1 DEF NewFlags
  <2>3. CASE p \notin r
    <3>1. \A u \in Threads : ~ Changes(u, p)
      BY <1>3, <2>3 DEF Changes, Busy
    <3> QED
      BY <1>1, <2>1, <2>3, <3>1 DEF WholeInv, WriteInv
  <2> QED
    BY <2>2, <2>3
<1>7. WriteInv'
  BY <1>4, <1>6 DEF WriteInv, Changes, Busy
<1>8. LockInv' /\ StaleInv'
  BY <1>4, <1>5 DEF LockInv, StaleInv
<1> QED
  BY <1>1, <1>2, <1>7, <1>8 DEF WholeInv

LEMMA WholeNext == WholeCalls /\ WholeInv /\ [Next]_vars => WholeInv'
<1> SUFFICES ASSUME WholeCalls, WholeInv, [Next]_vars PROVE WholeInv'
  OBVIOUS
<1>1. CASE UNCHANGED vars
  <2>1. MarkInv'
    BY <1>1, MarkNext DEF WholeInv
  <2> QED
    BY <1>1, <2>1 DEF vars, WholeInv, LockInv, Busy, WriteInv, Changes, Writable, StaleInv,
                      ToBeDropped, Dropped
<1>2. CASE Next
  <2> PICK t \in Threads :
        \/ \E b \in Blocks : Translate(t, b)
        \/ tb_alloc_page(t)
        \/ \E p \in Pages : Store(t, p) \/ Fault(t, p) \/ page_check_range(t, p)
        \/ page_unprotect(t)
        \/ NotHandled(t)
        \/ Report(t)
        \/ \E r \in Ranges, prot \in Prots :
               MprotectHost(t, r, prot) \/ MprotectFails(t, r, prot)
        \/ \E r \in Ranges, prot \in Prots : MmapHost(t, r, prot)
        \/ \E r \in Ranges : MunmapHost(t, r)
        \/ page_set_flags(t)
    BY <1>2 DEF Next
  <2>1. \A r \in Ranges, prot \in Prots : ~ MprotectFails(t, r, prot)
    BY DEF WholeCalls, MprotectFails
  <2> QED
    BY <2>1, WholeTranslate, WholeLink, WholeStore, WholeFault, WholeUnprotect,
       WholeMprotect, WholeMmap, WholeMunmap, WholeSetFlags
<1> QED
  BY <1>1, <1>2

(* Where mapping calls are made on whole host pages, no code that was      *)
(* rewritten after its translation stays in the cache: the fault of the    *)
(* store or the call itself drops it, whatever other threads store,        *)
(* translate or map meanwhile.                                             *)
THEOREM RewrittenCodeDropped == ASSUME WholeCalls PROVE Spec => []NoStaleCode
<1>1. Init => WholeInv
  BY WholeInit
<1>2. WholeInv /\ [Next]_vars => WholeInv'
  BY WholeNext
<1>3. WholeInv => NoStaleCode
  BY NothingStale DEF NoStaleCode, MmapLockFree
<1> QED
  BY <1>1, <1>2, <1>3, PTL DEF Spec
==============================================================================
