------------------------------ MODULE GuestCode ------------------------------
(***************************************************************************)
(* What the emulator reads of the guest program, and what the front end    *)
(* of the translator makes of it.                                          *)
(*                                                                         *)
(* A guest state is a key: the (pc, flags) pair that cpu_get_tb_cpu_state  *)
(* extracts from the CPU and that a translation block (TB) records         *)
(* (cs_base is 0 on ARM).  Addresses are counted in halfwords; the         *)
(* instructions the library handles are all four bytes, two halfwords,     *)
(* long in both instruction sets.                                          *)
(*                                                                         *)
(* The kinds of instruction are told apart by how they end a TB:           *)
(*   "neon"  a NEON or VFP data or load/store instruction: translation     *)
(*           goes on with the next instruction;                            *)
(*   "vmsr"  an instruction that ends the TB with gen_lookup_tb            *)
(*           (DISAS_UPDATE): VMSR FPSCR, which may change the vector       *)
(*           length and stride of the flags;                               *)
(*   "cvmsr" the same instruction under a condition (condjmp): when the    *)
(*           condition fails control leaves through the goto_tb;           *)
(*   "bcond" a conditional branch: it leaves through goto_tb 0 when taken  *)
(*           and goto_tb 1 when not.  The library is not meant for it, but *)
(*           exec translates whatever it is called on;                     *)
(*   "other" anything else, which the caller never passes to exec.         *)
(* Thumb IT blocks, which change the flags from one instruction to the     *)
(* next, are left out.                                                     *)
(***************************************************************************)
EXTENDS Integers, FiniteSets

CONSTANTS
    Keys,        \* the guest states the library may be called in
    Kind,        \* the kind of the instruction at each key
    BranchDest,  \* where the branches go
    ThumbFlags,  \* the flags with the Thumb bit set
    TCG_MAX_INSNS,  \* instructions a TB can have; also where the buffer of
                    \* TCG operations is taken to be full
    PageSize     \* TARGET_PAGE_SIZE, in halfwords

InsnSize == 2

ASSUME GuestAssumption ==
    /\ \A k \in Keys : k = [pc |-> k.pc, flags |-> k.flags] /\ k.pc \in Nat
    /\ IsFiniteSet(Keys) /\ Keys # {}
    /\ Kind \in [Keys -> {"neon", "vmsr", "cvmsr", "bcond"}]
    /\ BranchDest \in [{k \in Keys : Kind[k] = "bcond"} -> Keys]
    /\ PageSize \in Nat /\ PageSize > InsnSize
    /\ TCG_MAX_INSNS \in Nat \ {0}

(* No TB has more instructions than this. *)
MaxInsns == Cardinality(Keys)

(* The guest state n instructions further on in straight-line code. *)
After(k, n) == [pc |-> k.pc + n * InsnSize, flags |-> k.flags]

InsnAt(k) == IF k \in Keys THEN Kind[k] ELSE "other"

(* is_arm_neon: does the library handle this instruction? *)
Handled(k) == InsnAt(k) \notin {"bcond", "other"}

PageOf(addr) == addr \div PageSize

(* neon_icount: the number of consecutive NEON or VFP instructions from k; *)
(* Thumb code, and a first instruction that is not one, count as 1.        *)
neon_icount(k) ==
    IF k.flags \in ThumbFlags \/ ~ Handled(k)
    THEN 1
    ELSE CHOOSE n \in 1 .. MaxInsns :
            /\ \A j \in 0 .. n - 1 : Handled(After(k, j))
            /\ ~ Handled(After(k, n))

(* The loop of gen_intermediate_code stops after n instructions from k:    *)
(* the instruction limit of cflags, or that of every TB, is reached, the   *)
(* last instruction ended the TB, or the next one starts in, or reaches    *)
(* into, another page.                                                     *)
TranslationStops(k, max_insns, n) ==
    \/ n = max_insns \/ n = TCG_MAX_INSNS
    \/ InsnAt(After(k, n - 1)) # "neon"
    \/ LET next == After(k, n)
       IN  \/ PageOf(next.pc) # PageOf(k.pc)
           \/ Handled(next) /\ PageOf(next.pc + InsnSize - 1) # PageOf(k.pc)

num_insns(k, max_insns) ==
    CHOOSE n \in 1 .. max_insns :
        /\ TranslationStops(k, max_insns, n)
        /\ \A m \in 1 .. n - 1 : ~ TranslationStops(k, max_insns, m)

(* How generated code can leave a TB: through a goto_tb slot (0 or 1),     *)
(* returning the TB and the slot until the slot is chained, or with        *)
(* exit_tb(0), which returns no TB.                                        *)
NoSlot == -1

(* The ways out of a TB whose last instruction is of this kind: DISAS_NEXT *)
(* ends with gen_goto_tb(dc, 1, pc), DISAS_UPDATE with exit_tb(0), and a   *)
(* pending condjmp adds the goto_tb of the failed condition.               *)
ExitsOf(kind) ==
    CASE kind = "vmsr"  -> {NoSlot}
      [] kind = "cvmsr" -> {NoSlot, 1}
      [] kind = "bcond" -> {0, 1}
      [] OTHER          -> {1}

(* The TB that translating from k with max_insns instructions at most      *)
(* yields; slots are the goto_tb slots whose jump is generated             *)
(* (jmp_reset_offset other than TB_JMP_RESET_OFFSET_INVALID).              *)
Translate(k, max_insns) ==
    LET n     == num_insns(k, max_insns)
        exits == ExitsOf(InsnAt(After(k, n - 1)))
    IN  [key |-> k, insns |-> n, exits |-> exits, slots |-> exits \ {NoSlot}]

(* The guest states in which a TB of these instructions can be left by     *)
(* the given exit: exit_tb(0) follows a write that may change the flags    *)
(* (but not the instruction set).                                          *)
StatesAfter(b, exit) ==
    LET k == After(b.key, b.insns)
    IN  IF exit = 1 THEN {k}
        ELSE IF exit = 0 THEN {BranchDest[After(b.key, b.insns - 1)]}
        ELSE {k} \cup {j \in Keys : /\ j.pc = k.pc
                                    /\ j.flags \in ThumbFlags <=> k.flags \in ThumbFlags}
==============================================================================
