------------------------------ MODULE ExecState ------------------------------
(***************************************************************************)
(* The status registers through exec(): CPSR, FPSCR and FPEXC are written  *)
(* to the CPU slot, changed by the guest instructions that run there, and  *)
(* read back to the caller.  The slot keeps them taken apart (flags, float *)
(* status, vector length), and keeps what one call leaves for the next.    *)
(*                                                                         *)
(* A word is the set of the numbers of its one bits.  a_cpsr and a_fpscr   *)
(* are what the registers are architecturally: the caller's words, changed *)
(* as a whole by the instructions.  The mutex of a slot makes calls on it  *)
(* sequential, so there is one slot and one call at a time.                *)
(***************************************************************************)
EXTENDS Naturals

CONSTANTS
    Calls,      \* CPSR, FPSCR and FPEXC that callers pass in
    Words,      \* values guests write to the FPSCR
    MaxInsns    \* bound: instructions per call

Bits == 0 .. 31

ASSUME ExecStateAssumption ==
    /\ Calls \subseteq [cpsr : SUBSET Bits, fpscr : SUBSET Bits, fpexc : SUBSET Bits]
    /\ Words \subseteq SUBSET Bits
    /\ MaxInsns \in Nat

VARIABLES
    xfpscr, vec_len, vec_stride,        \* vfp.xregs[FPSCR] and fields kept apart
    rmode, flush, default_nan, flags,   \* vfp.fp_status
    std_flags,                          \* of vfp.standard_fp_status
    xfpexc,                             \* vfp.xregs[FPEXC]
    NF, ZF, CF, VF, QF, thumb, condexec_bits, GE, daif, uncached_cpsr,
    cpsr, fpscr, fpexc,                 \* the caller's words
    pc, insns,
    a_cpsr, a_fpscr

fpVars   == <<xfpscr, vec_len, vec_stride, rmode, flush, default_nan, flags, std_flags>>
psrVars  == <<NF, ZF, CF, VF, QF, thumb, condexec_bits, GE, daif, uncached_cpsr>>
callVars == <<cpsr, fpscr, fpexc>>
vars == <<fpVars, xfpexc, psrVars, callVars, pc, insns, a_cpsr, a_fpscr>>

Shr(w, k) == {b - k : b \in {x \in w : x >= k}}
Shl(w, k) == {b + k : b \in {x \in w : x + k <= 31}}
Bit(on, b) == IF on THEN {b} ELSE {}

-----------------------------------------------------------------------------
(* target-arm/cpu.h and the masks of exec() *)

CPSR_NZCV == 28 .. 31
CPSR_AIF  == 6 .. 8
CPSR_IT   == {25, 26} \cup 10 .. 15
CACHED_CPSR_BITS == {5} \cup CPSR_AIF \cup 16 .. 19 \cup CPSR_IT \cup {27} \cup CPSR_NZCV

cpsr_mask  == Bits
fpscr_mask == Bits \ ({27, 19, 6, 5} \cup 8 .. 15)     \* 0xF7F7009F
fpexc_mask == 29 .. 31

FPSCR_STORED == Bits \ (16 .. 18 \cup {20, 21})         \* 0xffc8ffff
FPSCR_RMODE  == {22, 23}
FPSCR_FZ == 24
FPSCR_DN == 25
QC == 27

(* Exception flags of the float status, and the FPSCR bits they appear as. *)
Flags == {"invalid", "divbyzero", "overflow", "underflow", "inexact",
          "input_denormal", "output_denormal"}
FlagBit ==
    [f \in Flags |->
        CASE f = "invalid" -> 0 [] f = "divbyzero" -> 1 [] f = "overflow" -> 2
          [] f \in {"underflow", "output_denormal"} -> 3
          [] f = "inexact" -> 4 [] f = "input_denormal" -> 7]
vfp_exceptbits_from_host(fs) == {FlagBit[f] : f \in fs}
vfp_exceptbits_to_host(w) == {f \in Flags \ {"output_denormal"} : FlagBit[f] \in w}

Rounding(w) ==
    CASE w \cap FPSCR_RMODE = {}       -> "nearest_even"
      [] w \cap FPSCR_RMODE = {22}     -> "up"
      [] w \cap FPSCR_RMODE = {23}     -> "down"
      [] w \cap FPSCR_RMODE = {22, 23} -> "to_zero"

-----------------------------------------------------------------------------
(* target-arm/helper.c *)

vfp_get_fpscr ==
    (xfpscr \cap FPSCR_STORED) \cup Shl(vec_len, 16) \cup Shl(vec_stride, 20)
        \cup vfp_exceptbits_from_host(flags \cup std_flags)

MutChanged(val) == xfpscr \ val
(* The bits in which the stored register and the new value differ. *)
Changed(val) == (xfpscr \ val) \cup (val \ xfpscr)

MutStdFlags == std_flags
StdFlags == {}

(* Only what changed is passed on to the float status. *)
vfp_set_fpscr(val) ==
    /\ xfpscr' = val \cap FPSCR_STORED
    /\ vec_len' = Shr(val, 16) \cap 0 .. 2
    /\ vec_stride' = Shr(val, 20) \cap {0, 1}
    /\ rmode' = IF Changed(val) \cap FPSCR_RMODE # {} THEN Rounding(val) ELSE rmode
    /\ flush' = IF FPSCR_FZ \in Changed(val) THEN FPSCR_FZ \in val ELSE flush
    /\ default_nan' = IF FPSCR_DN \in Changed(val) THEN FPSCR_DN \in val ELSE default_nan
    /\ flags' = vfp_exceptbits_to_host(val)
    /\ std_flags' = StdFlags

cpsr_read ==
    uncached_cpsr \cup (NF \cap {31}) \cup Bit(ZF = {}, 30) \cup Shl(CF, 29)
        \cup Shr(VF \cap {31}, 3) \cup Bit(QF, 27) \cup Bit(thumb, 5)
        \cup Shl(condexec_bits \cap {0, 1}, 25) \cup Shl(condexec_bits \cap 2 .. 7, 8)
        \cup Shl(GE, 16) \cup (daif \cap CPSR_AIF)

MutWriteIT(val) == (condexec_bits \cap {0, 1}) \cup (Shr(val, 8) \cap 2 .. 7)
WriteIT(val) == (Shr(val, 25) \cap {0, 1}) \cup (Shr(val, 8) \cap 2 .. 7)

WriteNZCV(val) ==
    /\ ZF' = {30} \ val
    /\ NF' = val
    /\ CF' = Shr(val, 29) \cap {0}
    /\ VF' = Shl(val, 3) \cap {31}

(* cpsr_write with the mask cpsr_mask and CPSRWriteRaw *)
cpsr_write(val) ==
    /\ WriteNZCV(val)
    /\ QF' = (27 \in val)
    /\ thumb' = (5 \in val)
    /\ condexec_bits' = WriteIT(val)
    /\ GE' = Shr(val, 16) \cap 0 .. 3
    /\ daif' = (daif \ CPSR_AIF) \cup (val \cap CPSR_AIF)
    /\ uncached_cpsr' = (uncached_cpsr \cap CACHED_CPSR_BITS) \cup (val \ CACHED_CPSR_BITS)

-----------------------------------------------------------------------------
(* arm_cpu_reset, and a first caller outside. *)
Init ==
    /\ xfpscr = {} /\ vec_len = {} /\ vec_stride = {}
    /\ rmode = "nearest_even" /\ flush = FALSE /\ default_nan = FALSE
    /\ flags = {} /\ std_flags = {}
    /\ xfpexc = {30}
    /\ NF = {} /\ ZF = {} /\ CF = {} /\ VF = {} /\ QF = FALSE /\ thumb = FALSE
    /\ condexec_bits = {} /\ GE = {} /\ daif = {} /\ uncached_cpsr = {4}
    /\ cpsr = {} /\ fpscr = {} /\ fpexc = {}
    /\ pc = "outside" /\ insns = 0
    /\ a_cpsr = {} /\ a_fpscr = {}

MutMergeFpexc(word) == (xfpexc \ fpexc_mask) \cup (word \cap fpexc_mask)
MergeFpexc(word) == xfpexc \cup (word \cap fpexc_mask)

(* exec() writes the caller's words to the slot. *)
Enter ==
    /\ pc = "outside"
    /\ \E call \in Calls :
          /\ cpsr' = call.cpsr /\ fpscr' = call.fpscr /\ fpexc' = call.fpexc
          /\ cpsr_write(call.cpsr)
          /\ vfp_set_fpscr(call.fpscr)
          /\ xfpexc' = MergeFpexc(call.fpexc)
          /\ a_cpsr' = call.cpsr /\ a_fpscr' = call.fpscr
    /\ pc' = "guest" /\ insns' = 0

(* Guest instructions. *)
Insn ==
    /\ pc = "guest" /\ insns < MaxInsns
    /\ insns' = insns + 1
    /\ UNCHANGED <<xfpexc, callVars, pc>>

(* VMSR FPSCR *)
GuestVmsr ==
    /\ Insn
    /\ \E val \in Words : vfp_set_fpscr(val) /\ a_fpscr' = val
    /\ UNCHANGED <<psrVars, a_cpsr>>

(* A VFP operation raises a flag in fp_status, ... *)
GuestVfp ==
    /\ Insn
    /\ \E f \in Flags : flags' = flags \cup {f} /\ a_fpscr' = a_fpscr \cup {FlagBit[f]}
    /\ UNCHANGED <<xfpscr, vec_len, vec_stride, rmode, flush, default_nan, std_flags,
                   psrVars, a_cpsr>>

(* ... a NEON operation in standard_fp_status. *)
GuestNeon ==
    /\ Insn
    /\ \E f \in Flags : std_flags' = std_flags \cup {f} /\ a_fpscr' = a_fpscr \cup {FlagBit[f]}
    /\ UNCHANGED <<xfpscr, vec_len, vec_stride, rmode, flush, default_nan, flags,
                   psrVars, a_cpsr>>

(* SET_QC of a saturating NEON operation *)
GuestSaturate ==
    /\ Insn
    /\ xfpscr' = xfpscr \cup {QC}
    /\ a_fpscr' = a_fpscr \cup {QC}
    /\ UNCHANGED <<vec_len, vec_stride, rmode, flush, default_nan, flags, std_flags,
                   psrVars, a_cpsr>>

(* VCMP: equal, less, greater or unordered *)
GuestCompare ==
    /\ Insn
    /\ \E nzcv \in {{30, 29}, {31}, {29}, {29, 28}} :
          /\ xfpscr' = (xfpscr \ CPSR_NZCV) \cup nzcv
          /\ a_fpscr' = (a_fpscr \ CPSR_NZCV) \cup nzcv
    /\ UNCHANGED <<vec_len, vec_stride, rmode, flush, default_nan, flags, std_flags,
                   psrVars, a_cpsr>>

(* VMRS APSR_nzcv, FPSCR *)
GuestVmrsApsr ==
    /\ Insn
    /\ WriteNZCV(xfpscr \cap CPSR_NZCV)
    /\ a_cpsr' = (a_cpsr \ CPSR_NZCV) \cup (a_fpscr \cap CPSR_NZCV)
    /\ UNCHANGED <<fpVars, QF, thumb, condexec_bits, GE, daif, uncached_cpsr, a_fpscr>>

(* exec() reads the registers back. *)
Leave ==
    /\ pc = "guest"
    /\ fpscr' = (fpscr \ fpscr_mask) \cup (vfp_get_fpscr \cap fpscr_mask)
    /\ cpsr' = (cpsr \ cpsr_mask) \cup (cpsr_read \cap cpsr_mask)
    /\ fpexc' = (fpexc \ fpexc_mask) \cup (xfpexc \cap fpexc_mask)
    /\ pc' = "outside"
    /\ UNCHANGED <<fpVars, xfpexc, psrVars, insns, a_cpsr, a_fpscr>>

Next ==
    \/ Enter \/ Leave
    \/ GuestVmsr \/ GuestVfp \/ GuestNeon \/ GuestSaturate \/ GuestCompare \/ GuestVmrsApsr

Spec == Init /\ [][Next]_vars

-----------------------------------------------------------------------------
(* Properties.                                                             *)

(* The types of the variables. *)
TypeOK ==
    /\ \A w \in {xfpscr, vec_len, vec_stride, xfpexc, NF, ZF, CF, VF, condexec_bits, GE,
                 daif, uncached_cpsr, cpsr, fpscr, fpexc, a_cpsr, a_fpscr} : w \subseteq Bits
    /\ rmode \in {"nearest_even", "up", "down", "to_zero"}
    /\ flush \in BOOLEAN /\ default_nan \in BOOLEAN /\ QF \in BOOLEAN /\ thumb \in BOOLEAN
    /\ flags \subseteq Flags /\ std_flags \subseteq Flags
    /\ pc \in {"outside", "guest"} /\ insns \in 0 .. MaxInsns

(* While a guest runs, the parts of the slot put together are the FPSCR it *)
(* should see: nothing that an earlier call raised or set shows through.   *)
FpscrExact == pc = "guest" => vfp_get_fpscr = a_fpscr

(* vfp_set_fpscr passes on differences only; still the float status always *)
(* has the rounding mode, flush-to-zero and default-NaN modes of the FPSCR,*)
(* whatever calls and VMSRs came before.                                   *)
FpStatusCoherent ==
    pc = "guest" =>
        /\ rmode = Rounding(a_fpscr)
        /\ flush = (FPSCR_FZ \in a_fpscr)
        /\ default_nan = (FPSCR_DN \in a_fpscr)

(* The ten parts of the CPSR put together are the guest's CPSR. *)
CpsrExact == pc = "guest" => cpsr_read = a_cpsr

(* The VFP stays enabled whatever FPEXC callers pass: an instruction of a  *)
(* run never traps because an earlier caller cleared EN.                   *)
VfpEnabled == 30 \in xfpexc

(* "QEMU TCG is used to emulate NEON instructions" (README.md): the flag   *)
(* that a saturating instruction sets reaches the caller.                  *)
SaturationReturned == pc = "outside" /\ QC \in a_fpscr => QC \in fpscr
==============================================================================
