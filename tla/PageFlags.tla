----------------------------- MODULE PageFlags -----------------------------
(* How user-mode emulation notices that translated code is rewritten: a    *)
(* page that holds translated code is made read-only on the host, and the  *)
(* fault of the first store to it drops the translations                   *)
(* (translate-all.c: tb_alloc_page, page_set_flags, page_check_range,      *)
(* page_unprotect; user-exec.c: handle_cpu_signal; linux-user/mmap.c:      *)
(* target_mmap, target_mprotect, target_munmap).                           *)
(*                                                                         *)
(* A TB is the set of the one or two pages its code is in.  What a page    *)
(* contains is abstracted to whether it changed since a TB was read from   *)
(* it.  Threads hold mmap_lock while they translate or change mappings;    *)
(* the stores of the other threads need no lock and go on meanwhile.       *)
EXTENDS Naturals, FiniteSets

CONSTANTS
    Threads,
    NPages,      \* target pages of the address space
    HostSize,    \* target pages in one host page
    Calls,       \* the calls of linux-user/mmap.c that guests make
    Ranges,      \* the page ranges they are called with
    Registered,  \* FALSE: the library, whose host maps the guest's memory
                 \*        and never tells page_set_flags
    OverHoles    \* guests call mprotect on ranges with unmapped pages

ASSUME PageAssumption ==
    /\ NPages \in Nat \ {0}
    /\ HostSize \in Nat \ {0}
    /\ NPages % HostSize = 0
    /\ Calls \subseteq {"mmap", "mprotect", "munmap"}
    /\ \A r \in Ranges : r # {} /\ r \subseteq 0 .. NPages - 1
    /\ Registered \in BOOLEAN /\ OverHoles \in BOOLEAN

VARIABLES
    flags,   \* PageDesc.flags of every target page
    host,    \* what the host knows of each host page: mapped, and how
    tbs,     \* the TBs in the cache
    stale,   \* the TBs whose code was rewritten after they were linked
    raced,   \* the TBs whose code was rewritten while it was translated
    thr      \* what each thread is doing

vars == <<flags, host, tbs, stale, raced, thr>>

Pages == 0 .. NPages - 1
Flag == {"R", "W", "WriteOrg", "Valid"}
PageBits == {"R", "W"}
Prots == {{"R"}, {"R", "W"}}

HostOf(p) == p \div HostSize
PagesOf(h) == {p \in Pages : HostOf(p) = h}
HostPages == {HostOf(p) : p \in Pages}
HostState == [mapped : BOOLEAN, prot : SUBSET PageBits]
Unmapped == [mapped |-> FALSE, prot |-> {}]
MappedAs(prot) == [mapped |-> TRUE, prot |-> prot]

Blocks == {{p} : p \in Pages} \cup {{p, p + 1} : p \in Pages \ {NPages - 1}}

Idle == [at |-> "idle"]
Translating(b, clean) == [at |-> "translating", block |-> b, clean |-> clean]
\* mine: the guest may write the page, the fault is due to its code
Faulted(p, mine) == [at |-> "faulted", page |-> p, mine |-> mine]
Segv(p) == [at |-> "segv", page |-> p]
Changing(call, r, prot) ==
    [at |-> "changing", call |-> call, range |-> r, prot |-> prot]

ThreadState ==
    {Idle}
    \cup {Translating(b, c) : b \in Blocks, c \in BOOLEAN}
    \cup {Faulted(p, m) : p \in Pages, m \in BOOLEAN} \cup {Segv(p) : p \in Pages}
    \cup {Changing(c, r, prot) : c \in Calls, r \in Ranges, prot \in Prots}

\* mmap_lock is held through a translation and through a mapping call.
MmapLockFree == \A t \in Threads : thr[t].at \notin {"translating", "changing"}

Writable(p) == "W" \in host[HostOf(p)].prot

-----------------------------------------------------------------------------
\* The pages P get other contents: what was, or is being, translated from
\* them is not what they hold any more.
Rewritten(P) == {b \in tbs : b \cap P # {}}
Disturbed(P) ==
    [u \in Threads |->
        IF thr[u].at = "translating" /\ thr[u].block \cap P # {}
        THEN Translating(thr[u].block, FALSE) ELSE thr[u]]

\* tb_invalidate_phys_page, tb_invalidate_phys_range over whole pages.
Invalidate(P) ==
    /\ tbs' = {b \in tbs : b \cap P = {}}
    /\ stale' = stale \cap tbs'
    /\ raced' = raced \cap tbs'

-----------------------------------------------------------------------------
\* tb_gen_code, up to the reading of the code by gen_intermediate_code.
Translate(t, b) ==
    /\ thr[t] = Idle
    /\ MmapLockFree
    /\ b \notin tbs
    /\ \A p \in b : "R" \in host[HostOf(p)].prot
    /\ thr' = [thr EXCEPT ![t] = Translating(b, TRUE)]
    /\ UNCHANGED <<flags, host, tbs, stale, raced>>

\* The host pages that tb_alloc_page protects for the pages of a TB.
MutToProtect(b) == {HostOf(p) : p \in {q \in b : q - 1 \notin b /\ "W" \in flags[q]}}
ToProtect(b) == {HostOf(p) : p \in {q \in b : "W" \in flags[q]}}

\* The protection of a host page whose target pages have the flags f.
HostProt(f, h) == UNION {f[p] : p \in PagesOf(h)} \cap PageBits

\* tb_link_page, tb_alloc_page: the TB is in the cache, and its pages are
\* made read-only on the host if they were writable.
tb_alloc_page(t) ==
    /\ thr[t].at = "translating"
    /\ LET b == thr[t].block
           H == ToProtect(b)
       IN /\ flags' = [p \in Pages |->
                         IF HostOf(p) \in H THEN flags[p] \ {"W"} ELSE flags[p]]
          /\ host' = [h \in HostPages |->
                        IF h \in H THEN MappedAs(HostProt(flags, h) \ {"W"})
                        ELSE host[h]]
          /\ tbs' = tbs \cup {b}
          /\ raced' = IF thr[t].clean THEN raced ELSE raced \cup {b}
    /\ thr' = [thr EXCEPT ![t] = Idle]
    /\ UNCHANGED stale

-----------------------------------------------------------------------------
\* A store of guest code to a page that the host lets it write.
Store(t, p) ==
    /\ thr[t] = Idle
    /\ Writable(p)
    /\ stale' = stale \cup Rewritten({p})
    /\ thr' = Disturbed({p})
    /\ UNCHANGED <<flags, host, tbs, raced>>

\* A store that the host refuses: SIGSEGV, handle_cpu_signal.
Fault(t, p) ==
    /\ thr[t] = Idle
    /\ ~Writable(p)
    /\ thr' = [thr EXCEPT ![t] = Faulted(p, "WriteOrg" \in flags[p])]
    /\ UNCHANGED <<flags, host, tbs, stale, raced>>

\* page_check_range for writing, on a page that was protected.
page_check_range(t, p) ==
    /\ thr[t] = Idle
    /\ {"Valid", "WriteOrg"} \subseteq flags[p]
    /\ "W" \notin flags[p]
    /\ thr' = [thr EXCEPT ![t] = Faulted(p, "WriteOrg" \in flags[p])]
    /\ UNCHANGED <<flags, host, tbs, stale, raced>>

\* The fault is one of a page protected for its code.
IsProtected(p) == "WriteOrg" \in flags[p] /\ "W" \notin flags[p]

\* The pages whose code page_unprotect drops: all of the host page.
ToInvalidate(p) == PagesOf(HostOf(p))

\* page_unprotect: takes mmap_lock, makes the host page writable again and
\* drops its code.  handle_cpu_signal then returns to the store, or to the
\* main loop if the code that stores was dropped too.
page_unprotect(t) ==
    /\ thr[t].at = "faulted"
    /\ MmapLockFree
    /\ IsProtected(thr[t].page)
    /\ LET h == HostOf(thr[t].page)
           opened == [p \in Pages |->
                        IF HostOf(p) = h THEN flags[p] \cup {"W"} ELSE flags[p]]
       IN /\ flags' = opened
          /\ host' = [host EXCEPT ![h] = MappedAs(HostProt(opened, h))]
          /\ Invalidate(ToInvalidate(thr[t].page))
    /\ thr' = [thr EXCEPT ![t] = Idle]

\* page_unprotect returns 0: the fault is taken for the guest's own.
NotHandled(t) ==
    /\ thr[t].at = "faulted"
    /\ MmapLockFree
    /\ ~IsProtected(thr[t].page)
    /\ thr' = [thr EXCEPT ![t] = Segv(thr[t].page)]
    /\ UNCHANGED <<flags, host, tbs, stale, raced>>

\* The guest is told (a signal, or EFAULT of the system call).
Report(t) ==
    /\ thr[t].at = "segv"
    /\ thr' = [thr EXCEPT ![t] = Idle]
    /\ UNCHANGED <<flags, host, tbs, stale, raced>>

-----------------------------------------------------------------------------
\* The mapping calls: first the host's part, then page_set_flags and the
\* invalidation, all under mmap_lock.  When the host's mmap or munmap fails,
\* target_mmap and target_munmap return with everything as it was, which is
\* no step here.
Begin(t, call, r, prot) == thr' = [thr EXCEPT ![t] = Changing(call, r, prot)]

Touched(r) == {HostOf(p) : p \in r}
Whole(r) == {h \in HostPages : PagesOf(h) \subseteq r}

\* The protection for a host page that is only partly in the range: that of
\* the other pages in it is kept.
WithNeighbours(prot, r, h) ==
    prot \cup (UNION {flags[p] : p \in PagesOf(h) \ r} \cap PageBits)

\* target_mprotect, the calls of mprotect.
MprotectHost(t, r, prot) ==
    /\ "mprotect" \in Calls
    /\ thr[t] = Idle
    /\ MmapLockFree
    /\ \A h \in Touched(r) : host[h].mapped
    /\ host' = [h \in HostPages |->
                  IF h \in Touched(r) THEN MappedAs(WithNeighbours(prot, r, h))
                  ELSE host[h]]
    /\ Begin(t, "mprotect", r, prot)
    /\ UNCHANGED <<flags, tbs, stale, raced>>

\* mprotect meets a page that is not mapped: it fails, and may have changed
\* some of the pages before (POSIX); target_mprotect returns the error.
MprotectFails(t, r, prot) ==
    /\ "mprotect" \in Calls /\ OverHoles
    /\ thr[t] = Idle
    /\ MmapLockFree
    /\ \E h \in Touched(r) : ~host[h].mapped
    /\ \E done \in SUBSET {h \in Touched(r) : host[h].mapped} :
          host' = [h \in HostPages |->
                     IF h \in done THEN MappedAs(WithNeighbours(prot, r, h))
                     ELSE host[h]]
    /\ UNCHANGED <<flags, tbs, stale, raced, thr>>

\* target_mmap with MAP_FIXED of whole host pages: fresh contents.
MmapHost(t, r, prot) ==
    /\ "mmap" \in Calls
    /\ thr[t] = Idle
    /\ MmapLockFree
    /\ Touched(r) = Whole(r)
    /\ host' = [h \in HostPages |-> IF h \in Touched(r) THEN MappedAs(prot) ELSE host[h]]
    /\ stale' = stale \cup Rewritten(r)
    /\ Begin(t, "mmap", r, prot)
    /\ UNCHANGED <<flags, tbs, raced>>

\* target_munmap: the host pages that hold no other page are unmapped.
MunmapHost(t, r) ==
    /\ "munmap" \in Calls
    /\ thr[t] = Idle
    /\ MmapLockFree
    /\ LET gone == {h \in Touched(r) : \A p \in PagesOf(h) \ r : flags[p] = {}}
       IN /\ host' = [h \in HostPages |-> IF h \in gone THEN Unmapped ELSE host[h]]
          /\ stale' = stale \cup Rewritten({p \in r : HostOf(p) \in gone})
    /\ Begin(t, "munmap", r, {"R"})
    /\ UNCHANGED <<flags, tbs, raced>>

\* The flags that page_set_flags gives the pages.
NewFlags(call, prot) ==
    IF call = "munmap" THEN {}
    ELSE prot \cup {"Valid"} \cup (IF "W" \in prot THEN {"WriteOrg"} ELSE {})

\* The pages whose code the call drops: in page_set_flags those that become
\* writable, after mmap and munmap all (tb_invalidate_phys_range).
MutDropped(call, r, prot) == {p \in r : "W" \in prot /\ "W" \notin flags[p]}
Dropped(call, r, prot) ==
    IF call = "mprotect" THEN {p \in r : "W" \in prot /\ "W" \notin flags[p]} ELSE r

page_set_flags(t) ==
    /\ thr[t].at = "changing"
    /\ LET call == thr[t].call
           r == thr[t].range
           prot == thr[t].prot
       IN /\ flags' = [p \in Pages |->
                         IF p \in r THEN NewFlags(call, prot) ELSE flags[p]]
          /\ Invalidate(Dropped(call, r, prot))
    /\ thr' = [thr EXCEPT ![t] = Idle]
    /\ UNCHANGED host

-----------------------------------------------------------------------------
Init ==
    /\ flags = [p \in Pages |-> {}]
    /\ host = [h \in HostPages |-> IF Registered THEN Unmapped ELSE MappedAs({"R", "W"})]
    /\ tbs = {} /\ stale = {} /\ raced = {}
    /\ thr = [t \in Threads |-> Idle]

Next ==
    \E t \in Threads :
        \/ \E b \in Blocks : Translate(t, b)
        \/ tb_alloc_page(t)
        \/ \E p \in Pages : Store(t, p) \/ Fault(t, p) \/ page_check_range(t, p)
        \/ page_unprotect(t)
        \/ NotHandled(t)
        \/ Report(t)
        \/ \E r \in Ranges, prot \in Prots :
               MprotectHost(t, r, prot) \/ MprotectFails(t, r, prot)
        \/ \E r \in Ranges, prot \in Prots : MmapHost(t, r, prot)
        \/ \E r \in Ranges : MunmapHost(t, r)
        \/ page_set_flags(t)

Spec == Init /\ [][Next]_vars

-----------------------------------------------------------------------------
\* The types of the variables.
TypeOK ==
    /\ flags \in [Pages -> SUBSET Flag]
    /\ host \in [HostPages -> HostState]
    /\ tbs \subseteq Blocks /\ stale \subseteq tbs /\ raced \subseteq tbs
    /\ thr \in [Threads -> ThreadState]

\* Once a TB is in the cache, no store and no mapping call changes its code
\* and leaves it there; while a mapping call is under way (mmap_lock held)
\* its own range may lag behind.
NoStaleCode == MmapLockFree => stale = {}

\* The cache holds the translation of what is in memory: also a store that
\* falls between the reading of the code and the protection of its page is
\* noticed.
CodeIsCurrent == MmapLockFree => raced = {}

\* A page with code in the cache is never marked writable: it is from this
\* mark that page_set_flags and page_unprotect know that there may be code to
\* drop.  Holds for host pages of any size and when mprotect fails halfway.
CodePagesMarked == \A b \in tbs : \A p \in b : "W" \notin flags[p]

\* A store to a page that the guest may write, when it faults and still when
\* the fault is handled, is never reported to the guest as its own fault.
NoSpuriousFault ==
    [][\A t \in Threads :
          thr[t].at = "faulted" /\ thr'[t].at = "segv" /\ thr[t].mine
            => "WriteOrg" \notin flags[thr[t].page]]_vars
=============================================================================
