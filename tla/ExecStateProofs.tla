--------------------------- MODULE ExecStateProofs ---------------------------
(***************************************************************************)
(* The status registers of a CPU slot, proved for every FPSCR, CPSR and    *)
(* FPEXC that callers pass and every FPSCR that guests write: put together *)
(* again, the parts of the slot are the registers of the guest that runs,  *)
(* whatever the calls before it left there.                                *)
(***************************************************************************)
EXTENDS ExecState, Integers, TLAPS

-----------------------------------------------------------------------------
(* Bits of words.                                                          *)

LEMMA ShrBits ==
    ASSUME NEW w \in SUBSET Bits, NEW k \in Nat, NEW b \in Int
    PROVE  b \in Shr(w, k) <=> b >= 0 /\ b + k \in w
<1>1. ASSUME b \in Shr(w, k) PROVE b >= 0 /\ b + k \in w
  BY <1>1 DEF Shr, Bits
<1>2. ASSUME b >= 0, b + k \in w PROVE b \in Shr(w, k)
  <2>1. b + k \in {x \in w : x >= k} /\ b = (b + k) - k
    BY <1>2
  <2> QED
    BY <2>1 DEF Shr
<1> QED
  BY <1>1, <1>2

LEMMA ShrInt == ASSUME NEW w \in SUBSET Bits, NEW k \in Nat PROVE Shr(w, k) \subseteq Bits
BY DEF Shr, Bits

LEMMA ShlBits ==
    ASSUME NEW w \in SUBSET Bits, NEW k \in Nat, NEW b \in Int
    PROVE  b \in Shl(w, k) <=> b <= 31 /\ b - k \in w
<1>1. ASSUME b \in Shl(w, k) PROVE b <= 31 /\ b - k \in w
  BY <1>1 DEF Shl, Bits
<1>2. ASSUME b <= 31, b - k \in w PROVE b \in Shl(w, k)
  <2>1. b - k \in {x \in w : x + k <= 31} /\ b = (b - k) + k
    BY <1>2
  <2> QED
    BY <2>1 DEF Shl
<1> QED
  BY <1>1, <1>2

LEMMA ShlInt == ASSUME NEW w \in SUBSET Bits, NEW k \in Nat PROVE Shl(w, k) \subseteq Bits
BY DEF Shl, Bits

LEMMA FlagBits == \A f \in Flags : FlagBit[f] \in {0, 1, 2, 3, 4, 7}
<1>1. FlagBit["invalid"] = 0 /\ FlagBit["divbyzero"] = 1 /\ FlagBit["overflow"] = 2
  BY DEF FlagBit, Flags
<1>2. FlagBit["underflow"] = 3 /\ FlagBit["output_denormal"] = 3
  BY DEF FlagBit, Flags
<1>3. FlagBit["inexact"] = 4 /\ FlagBit["input_denormal"] = 7
  BY DEF FlagBit, Flags
<1> QED
  BY <1>1, <1>2, <1>3 DEF Flags

LEMMA RoundingOf ==
    ASSUME NEW v, NEW w, v \cap FPSCR_RMODE = w \cap FPSCR_RMODE
    PROVE  Rounding(v) = Rounding(w)
BY DEF Rounding

(* The FPSCR made of its parts. *)
Get(x, len, stride, fs) ==
    (x \cap FPSCR_STORED) \cup Shl(len, 16) \cup Shl(stride, 20)
        \cup vfp_exceptbits_from_host(fs)

LEMMA GetBits ==
    ASSUME NEW x \in SUBSET Bits, NEW len \in SUBSET (0 .. 2), NEW stride \in SUBSET (0 .. 1),
           NEW fs \in SUBSET Flags
    PROVE  /\ Get(x, len, stride, fs) \subseteq Bits
           /\ \A b \in Bits : b \in Get(x, len, stride, fs) <=>
                \/ b \in FPSCR_STORED /\ b \in x
                \/ b - 16 \in len
                \/ b - 20 \in stride
                \/ b \in vfp_exceptbits_from_host(fs)
           /\ vfp_exceptbits_from_host(fs) \subseteq {0, 1, 2, 3, 4, 7}
<1>1. len \in SUBSET Bits /\ stride \in SUBSET Bits
  BY DEF Bits
<1>2. vfp_exceptbits_from_host(fs) \subseteq {0, 1, 2, 3, 4, 7}
  BY FlagBits DEF vfp_exceptbits_from_host
<1>3. Shl(len, 16) \subseteq Bits /\ Shl(stride, 20) \subseteq Bits
  BY <1>1, ShlInt
<1>4. ASSUME NEW b \in Bits
      PROVE  (b \in Shl(len, 16) <=> b - 16 \in len) /\ (b \in Shl(stride, 20) <=> b - 20 \in stride)
  <2>1. b \in Int /\ b <= 31
    BY DEF Bits
  <2> QED
    BY <1>1, <2>1, ShlBits
<1>5. vfp_exceptbits_from_host(fs) \subseteq Bits
  BY <1>2 DEF Bits
<1>6. Get(x, len, stride, fs) \subseteq Bits
  BY <1>3, <1>5 DEF Get
<1> QED
  BY <1>2, <1>4, <1>6 DEF Get

(* What vfp_set_fpscr takes apart, vfp_get_fpscr puts together. *)
LEMMA SetThenGet ==
    ASSUME NEW val \in SUBSET Bits
    PROVE  Get(val \cap FPSCR_STORED, Shr(val, 16) \cap 0 .. 2, Shr(val, 20) \cap {0, 1},
               vfp_exceptbits_to_host(val) \cup {}) = val
<1> DEFINE x == val \cap FPSCR_STORED
           len == Shr(val, 16) \cap 0 .. 2
           stride == Shr(val, 20) \cap {0, 1}
           fs == vfp_exceptbits_to_host(val) \cup {}
           g == Get(x, len, stride, fs)
<1>1. x \in SUBSET Bits /\ len \in SUBSET (0 .. 2) /\ stride \in SUBSET (0 .. 1)
  <2>1. {0, 1} = 0 .. 1
    OBVIOUS
  <2> QED
    BY <2>1
<1>2. fs \in SUBSET Flags /\ vfp_exceptbits_from_host(fs) \subseteq val
  BY DEF vfp_exceptbits_to_host, vfp_exceptbits_from_host
<1>3. \A b \in Bits : /\ b - 16 \in len <=> b \in 16 .. 18 /\ b \in val
                      /\ b - 20 \in stride <=> b \in {20, 21} /\ b \in val
  <2> TAKE b \in Bits
  <2>1. b \in Int /\ b - 16 \in Int /\ b - 20 \in Int /\ (b - 16) + 16 = b /\ (b - 20) + 20 = b
    BY DEF Bits
  <2>2. /\ b - 16 \in Shr(val, 16) <=> b - 16 >= 0 /\ b \in val
        /\ b - 20 \in Shr(val, 20) <=> b - 20 >= 0 /\ b \in val
    BY <2>1, ShrBits
  <2> QED
    BY <2>1, <2>2
<1> HIDE DEF x, len, stride, fs
<1>4. /\ g \subseteq Bits
      /\ \A b \in Bits : b \in g <=>
            \/ b \in FPSCR_STORED /\ b \in x
            \/ b - 16 \in len
            \/ b - 20 \in stride
            \/ b \in vfp_exceptbits_from_host(fs)
  BY <1>1, <1>2, GetBits
<1>5. \A b \in Bits : b \in FPSCR_STORED \/ b \in 16 .. 18 \/ b \in {20, 21}
  BY DEF FPSCR_STORED
<1> HIDE DEF g
<1>6. \A b \in Bits : b \in g <=> b \in val
  BY <1>2, <1>3, <1>4, <1>5 DEF x
<1>7. g = val
  BY <1>4, <1>6
<1> QED
  BY <1>7 DEF g, x, len, stride, fs

-----------------------------------------------------------------------------
(* FPSCR.                                                                  *)

FpShape ==
    /\ xfpscr \in SUBSET Bits /\ a_fpscr \in SUBSET Bits
    /\ vec_len \in SUBSET (0 .. 2) /\ vec_stride \in SUBSET (0 .. 1)
    /\ flags \in SUBSET Flags /\ std_flags \in SUBSET Flags

(* The float status follows the stored register, between calls too: this   *)
(* is why passing on the differences is enough.                            *)
Modes ==
    /\ rmode = Rounding(xfpscr)
    /\ flush = (FPSCR_FZ \in xfpscr)
    /\ default_nan = (FPSCR_DN \in xfpscr)

FpInv == FpShape /\ Modes /\ FpscrExact

LEMMA GetIsGet == vfp_get_fpscr = Get(xfpscr, vec_len, vec_stride, flags \cup std_flags)
BY DEF vfp_get_fpscr, Get

LEMMA GetIsGetNext ==
    vfp_get_fpscr' = Get(xfpscr', vec_len', vec_stride', flags' \cup std_flags')
BY DEF vfp_get_fpscr, Get

LEMMA FpInit == Init => FpInv
<1> SUFFICES ASSUME Init PROVE FpInv
  OBVIOUS
<1>1. FpShape
  BY DEF Init, FpShape
<1>2. Rounding({}) = "nearest_even"
  BY DEF Rounding
<1>3. Modes
  <2>1. rmode = Rounding(xfpscr)
    BY <1>2 DEF Init
  <2>2. FPSCR_FZ \notin xfpscr /\ FPSCR_DN \notin xfpscr /\ flush = FALSE /\ default_nan = FALSE
    BY DEF Init
  <2>3. (FPSCR_FZ \in xfpscr) = FALSE /\ (FPSCR_DN \in xfpscr) = FALSE
    BY <2>2
  <2>4. flush = (FPSCR_FZ \in xfpscr) /\ default_nan = (FPSCR_DN \in xfpscr)
    BY <2>2, <2>3, Zenon
  <2> QED
    BY <2>1, <2>4, Zenon DEF Modes
<1> QED
  BY <1>1, <1>3 DEF Init, FpInv, FpscrExact

LEMMA SetFpscr ==
    ASSUME FpInv, NEW val \in SUBSET Bits, vfp_set_fpscr(val), a_fpscr' = val PROVE FpInv'
<1>1. /\ xfpscr' = val \cap FPSCR_STORED
      /\ vec_len' = Shr(val, 16) \cap 0 .. 2
      /\ vec_stride' = Shr(val, 20) \cap {0, 1}
      /\ flags' = vfp_exceptbits_to_host(val)
      /\ std_flags' = {}
  BY DEF vfp_set_fpscr, StdFlags
<1>2. FpShape'
  <2>1. {0, 1} = 0 .. 1
    OBVIOUS
  <2>2. flags' \in SUBSET Flags
    BY <1>1 DEF vfp_exceptbits_to_host
  <2> QED
    BY <1>1, <2>1, <2>2 DEF FpShape
<1>3. vfp_get_fpscr' = val
  BY <1>1, SetThenGet, GetIsGetNext
<1>4. FPSCR_RMODE \subseteq FPSCR_STORED /\ FPSCR_FZ \in FPSCR_STORED /\ FPSCR_DN \in FPSCR_STORED
  BY DEF FPSCR_RMODE, FPSCR_STORED, FPSCR_FZ, FPSCR_DN, Bits
<1>5. rmode' = Rounding(xfpscr')
  <2>1. xfpscr' \cap FPSCR_RMODE = val \cap FPSCR_RMODE
    BY <1>1, <1>4
  <2>2. Rounding(xfpscr') = Rounding(val)
    BY <2>1, RoundingOf
  <2>3. CASE Changed(val) \cap FPSCR_RMODE # {}
    BY <2>2, <2>3 DEF vfp_set_fpscr
  <2>4. CASE Changed(val) \cap FPSCR_RMODE = {}
    <3>1. xfpscr \cap FPSCR_RMODE = val \cap FPSCR_RMODE
      BY <2>4 DEF Changed
    <3>2. Rounding(xfpscr) = Rounding(val)
      BY <3>1, RoundingOf
    <3> QED
      BY <2>2, <2>4, <3>2 DEF vfp_set_fpscr, FpInv, Modes
  <2> QED
    BY <2>3, <2>4
<1>6. flush' = (FPSCR_FZ \in xfpscr') /\ default_nan' = (FPSCR_DN \in xfpscr')
  <2>1. /\ FPSCR_FZ \in xfpscr' <=> FPSCR_FZ \in val
        /\ FPSCR_DN \in xfpscr' <=> FPSCR_DN \in val
    BY <1>1, <1>4
  <2>2. /\ FPSCR_FZ \in Changed(val) <=> ~ (FPSCR_FZ \in xfpscr <=> FPSCR_FZ \in val)
        /\ FPSCR_DN \in Changed(val) <=> ~ (FPSCR_DN \in xfpscr <=> FPSCR_DN \in val)
    BY DEF Changed
  <2>3. /\ flush' = IF FPSCR_FZ \in Changed(val) THEN FPSCR_FZ \in val ELSE flush
        /\ default_nan' = IF FPSCR_DN \in Changed(val) THEN FPSCR_DN \in val ELSE default_nan
        /\ flush = (FPSCR_FZ \in xfpscr) /\ default_nan = (FPSCR_DN \in xfpscr)
    BY DEF vfp_set_fpscr, FpInv, Modes
  <2> QED
    BY <2>1, <2>2, <2>3
<1> QED
  BY <1>2, <1>3, <1>5, <1>6 DEF FpInv, Modes, FpscrExact

(* The steps that change the stored register in bits above the mode bits. *)
LEMMA ModesKept ==
    ASSUME Modes, UNCHANGED <<rmode, flush, default_nan>>,
           \A b \in {22, 23, 24, 25} : b \in xfpscr' <=> b \in xfpscr
    PROVE  Modes'
<1>1. xfpscr' \cap FPSCR_RMODE = xfpscr \cap FPSCR_RMODE
  BY DEF FPSCR_RMODE
<1>2. Rounding(xfpscr') = Rounding(xfpscr)
  BY <1>1, RoundingOf
<1>3. /\ FPSCR_FZ \in xfpscr' <=> FPSCR_FZ \in xfpscr
      /\ FPSCR_DN \in xfpscr' <=> FPSCR_DN \in xfpscr
  BY DEF FPSCR_FZ, FPSCR_DN
<1> QED
  BY <1>2, <1>3 DEF Modes

LEMMA RaiseFlag ==
    ASSUME FpInv, pc = "guest", NEW f \in Flags,
           (flags \cup std_flags)' = (flags \cup std_flags) \cup {f},
           flags' \in SUBSET Flags, std_flags' \in SUBSET Flags,
           a_fpscr' = a_fpscr \cup {FlagBit[f]},
           UNCHANGED <<xfpscr, vec_len, vec_stride, rmode, flush, default_nan>>
    PROVE  FpInv'
<1>1. vfp_exceptbits_from_host((flags \cup std_flags) \cup {f})
        = vfp_exceptbits_from_host(flags \cup std_flags) \cup {FlagBit[f]}
  BY DEF vfp_exceptbits_from_host
<1>2. vfp_get_fpscr' = vfp_get_fpscr \cup {FlagBit[f]}
  BY <1>1, GetIsGet, GetIsGetNext DEF Get
<1>3. FlagBit[f] \in Bits
  BY FlagBits DEF Bits
<1>4. FpShape' /\ Modes'
  BY <1>3 DEF FpInv, FpShape, Modes
<1> QED
  BY <1>2, <1>4 DEF FpInv, FpscrExact

LEMMA SaturateFp == ASSUME FpInv, GuestSaturate PROVE FpInv'
<1>1. QC \in FPSCR_STORED /\ QC \in Bits /\ QC \notin {22, 23, 24, 25}
  BY DEF QC, FPSCR_STORED, Bits
<1>2. vfp_get_fpscr' = vfp_get_fpscr \cup {QC}
  BY <1>1 DEF GuestSaturate, vfp_get_fpscr
<1>3. FpShape' /\ Modes'
  BY <1>1, ModesKept DEF GuestSaturate, FpInv, FpShape
<1> QED
  BY <1>2, <1>3 DEF GuestSaturate, Insn, FpInv, FpscrExact

LEMMA CompareFp == ASSUME FpInv, GuestCompare PROVE FpInv'
<1> PICK nzcv \in {{30, 29}, {31}, {29}, {29, 28}} :
          /\ xfpscr' = (xfpscr \ CPSR_NZCV) \cup nzcv
          /\ a_fpscr' = (a_fpscr \ CPSR_NZCV) \cup nzcv
  BY DEF GuestCompare
<1> DEFINE others == Shl(vec_len, 16) \cup Shl(vec_stride, 20)
                        \cup vfp_exceptbits_from_host(flags \cup std_flags)
<1>1. nzcv \subseteq CPSR_NZCV /\ CPSR_NZCV \subseteq FPSCR_STORED /\ CPSR_NZCV \subseteq Bits
  BY DEF CPSR_NZCV, FPSCR_STORED, Bits
<1>2. others \cap CPSR_NZCV = {}
  <2>1. vec_len \in SUBSET Bits /\ vec_stride \in SUBSET Bits
    BY DEF FpInv, FpShape, Bits
  <2>2. ASSUME NEW b \in CPSR_NZCV PROVE b \notin Shl(vec_len, 16) /\ b \notin Shl(vec_stride, 20)
    <3>1. b \in Int /\ b - 16 \notin 0 .. 2 /\ b - 20 \notin 0 .. 1
      BY DEF CPSR_NZCV
    <3> QED
      BY <2>1, <3>1, ShlBits DEF FpInv, FpShape
  <2>3. vfp_exceptbits_from_host(flags \cup std_flags) \subseteq {0, 1, 2, 3, 4, 7}
    BY FlagBits DEF vfp_exceptbits_from_host, FpInv, FpShape
  <2>4. {0, 1, 2, 3, 4, 7} \cap CPSR_NZCV = {}
    BY DEF CPSR_NZCV
  <2> QED
    BY <2>2, <2>3, <2>4
<1>3. vfp_get_fpscr = (xfpscr \cap FPSCR_STORED) \cup others
  BY DEF vfp_get_fpscr
<1>4. vfp_get_fpscr' = (xfpscr' \cap FPSCR_STORED) \cup others
  BY DEF vfp_get_fpscr, GuestCompare
<1> HIDE DEF others
<1>5. vfp_get_fpscr' = (vfp_get_fpscr \ CPSR_NZCV) \cup nzcv
  BY <1>1, <1>2, <1>3, <1>4
<1>6. \A b \in {22, 23, 24, 25} : b \notin CPSR_NZCV
  BY DEF CPSR_NZCV
<1>7. Modes'
  BY <1>1, <1>6, ModesKept DEF GuestCompare, FpInv
<1>8. FpShape'
  BY <1>1 DEF GuestCompare, FpInv, FpShape
<1> QED
  BY <1>5, <1>7, <1>8 DEF GuestCompare, Insn, FpInv, FpscrExact

LEMMA FpNext == FpInv /\ [Next]_vars => FpInv'
<1> SUFFICES ASSUME FpInv, [Next]_vars PROVE FpInv'
  OBVIOUS
<1>1. CASE Enter
  <2> PICK call \in Calls : vfp_set_fpscr(call.fpscr) /\ a_fpscr' = call.fpscr
    BY <1>1 DEF Enter
  <2>1. call.fpscr \in SUBSET Bits
    BY ExecStateAssumption
  <2> QED
    BY <2>1, SetFpscr
<1>2. CASE GuestVmsr
  <2> PICK val \in Words : vfp_set_fpscr(val) /\ a_fpscr' = val
    BY <1>2 DEF GuestVmsr
  <2>1. val \in SUBSET Bits
    BY ExecStateAssumption
  <2> QED
    BY <2>1, SetFpscr
<1>3. CASE GuestVfp
  <2> PICK f \in Flags : flags' = flags \cup {f} /\ a_fpscr' = a_fpscr \cup {FlagBit[f]}
    BY <1>3 DEF GuestVfp
  <2>1. (flags \cup std_flags)' = (flags \cup std_flags) \cup {f}
    BY <1>3 DEF GuestVfp
  <2>2. flags' \in SUBSET Flags /\ std_flags' \in SUBSET Flags
    BY <1>3 DEF GuestVfp, FpInv, FpShape
  <2> QED
    BY <1>3, <2>1, <2>2, RaiseFlag DEF GuestVfp, Insn
<1>4. CASE GuestNeon
  <2> PICK f \in Flags : std_flags' = std_flags \cup {f} /\ a_fpscr' = a_fpscr \cup {FlagBit[f]}
    BY <1>4 DEF GuestNeon
  <2>1. (flags \cup std_flags)' = (flags \cup std_flags) \cup {f}
    BY <1>4 DEF GuestNeon
  <2>2. flags' \in SUBSET Flags /\ std_flags' \in SUBSET Flags
    BY <1>4 DEF GuestNeon, FpInv, FpShape
  <2> QED
    BY <1>4, <2>1, <2>2, RaiseFlag DEF GuestNeon, Insn
<1>5. CASE GuestSaturate
  BY <1>5, SaturateFp
<1>6. CASE GuestCompare
  BY <1>6, CompareFp
<1>7. CASE GuestVmrsApsr \/ UNCHANGED vars
  <2>1. UNCHANGED <<fpVars, a_fpscr, pc>>
    BY <1>7 DEF GuestVmrsApsr, Insn, vars
  <2> QED
    BY <2>1 DEF fpVars, FpInv, FpShape, Modes, FpscrExact, vfp_get_fpscr
<1>8. CASE Leave
  BY <1>8 DEF Leave, fpVars, FpInv, FpShape, Modes, FpscrExact
<1> QED
  BY <1>1, <1>2, <1>3, <1>4, <1>5, <1>6, <1>7, <1>8 DEF Next

(* While a guest runs, vfp_get_fpscr is its FPSCR. *)
THEOREM FpscrIsExact == Spec => []FpscrExact
<1>1. FpInv => FpscrExact
  BY DEF FpInv
<1> QED
  BY <1>1, FpInit, FpNext, PTL DEF Spec

(* Passing on differences keeps the float status of every call that of its *)
(* own FPSCR.                                                              *)
THEOREM FpStatusIsCoherent == Spec => []FpStatusCoherent
<1>1. FpInv => FpStatusCoherent
  <2> SUFFICES ASSUME FpInv, pc = "guest"
               PROVE  /\ rmode = Rounding(a_fpscr)
                      /\ flush = (FPSCR_FZ \in a_fpscr)
                      /\ default_nan = (FPSCR_DN \in a_fpscr)
    BY DEF FpStatusCoherent
  <2>1. a_fpscr = Get(xfpscr, vec_len, vec_stride, flags \cup std_flags)
    BY GetIsGet DEF FpInv, FpscrExact
  <2>2. \A b \in {22, 23, 24, 25} : b \in a_fpscr <=> b \in xfpscr
    <3> TAKE b \in {22, 23, 24, 25}
    <3>1. /\ b \in Bits /\ b \in FPSCR_STORED /\ b - 16 \notin 0 .. 2 /\ b - 20 \notin 0 .. 1
          /\ b \notin {0, 1, 2, 3, 4, 7}
      BY DEF Bits, FPSCR_STORED
    <3>2. flags \cup std_flags \in SUBSET Flags
      BY DEF FpInv, FpShape
    <3>3. vec_len \in SUBSET (0 .. 2) /\ vec_stride \in SUBSET (0 .. 1) /\ xfpscr \in SUBSET Bits
      BY DEF FpInv, FpShape
    <3>4. /\ b \in a_fpscr <=> \/ b \in FPSCR_STORED /\ b \in xfpscr
                              \/ b - 16 \in vec_len
                              \/ b - 20 \in vec_stride
                              \/ b \in vfp_exceptbits_from_host(flags \cup std_flags)
          /\ vfp_exceptbits_from_host(flags \cup std_flags) \subseteq {0, 1, 2, 3, 4, 7}
      BY <2>1, <3>1, <3>2, <3>3, GetBits
    <3> QED
      BY <3>1, <3>3, <3>4
  <2>3. a_fpscr \cap FPSCR_RMODE = xfpscr \cap FPSCR_RMODE
    BY <2>2 DEF FPSCR_RMODE
  <2>4. Rounding(a_fpscr) = Rounding(xfpscr)
    BY <2>3, RoundingOf
  <2>5. /\ FPSCR_FZ \in xfpscr <=> FPSCR_FZ \in a_fpscr
        /\ FPSCR_DN \in xfpscr <=> FPSCR_DN \in a_fpscr
    BY <2>2 DEF FPSCR_FZ, FPSCR_DN
  <2> QED
    BY <2>4, <2>5 DEF FpInv, Modes
<1> QED
  BY <1>1, FpInit, FpNext, PTL DEF Spec

(* The VFP stays enabled, whatever FPEXC callers pass. *)
THEOREM VfpStaysEnabled == Spec => []VfpEnabled
<1>1. Init => VfpEnabled
  BY DEF Init, VfpEnabled
<1>2. VfpEnabled /\ [Next]_vars => VfpEnabled'
  BY DEF VfpEnabled, Next, vars, Enter, Leave, MergeFpexc, Insn, GuestVmsr, GuestVfp,
         GuestNeon, GuestSaturate, GuestCompare, GuestVmrsApsr
<1> QED
  BY <1>1, <1>2, PTL DEF Spec

-----------------------------------------------------------------------------
(* CPSR.                                                                   *)

PsrShape ==
    /\ NF \in SUBSET Bits /\ VF \in SUBSET Bits /\ daif \in SUBSET Bits
    /\ CF \in SUBSET {0} /\ GE \in SUBSET (0 .. 3) /\ condexec_bits \in SUBSET (0 .. 7)
    /\ uncached_cpsr \in SUBSET (Bits \ CACHED_CPSR_BITS)
    /\ a_cpsr \in SUBSET Bits

(* Part by part, the slot is the guest's CPSR. *)
NzcvExact ==
    /\ 31 \in NF <=> 31 \in a_cpsr
    /\ ZF = {} <=> 30 \in a_cpsr
    /\ 0 \in CF <=> 29 \in a_cpsr
    /\ 31 \in VF <=> 28 \in a_cpsr
OthersExact ==
    /\ QF <=> 27 \in a_cpsr
    /\ thumb <=> 5 \in a_cpsr
    /\ \A b \in {25, 26} : b - 25 \in condexec_bits <=> b \in a_cpsr
    /\ \A b \in 10 .. 15 : b - 8 \in condexec_bits <=> b \in a_cpsr
    /\ \A b \in 16 .. 19 : b - 16 \in GE <=> b \in a_cpsr
    /\ \A b \in CPSR_AIF : b \in daif <=> b \in a_cpsr
    /\ \A b \in Bits \ CACHED_CPSR_BITS : b \in uncached_cpsr <=> b \in a_cpsr

PsrInv == PsrShape /\ (pc = "guest" => NzcvExact /\ OthersExact)

(* cpsr_read, bit by bit. *)
LEMMA ReadBits ==
    ASSUME PsrShape
    PROVE  /\ cpsr_read \subseteq Bits
           /\ \A b \in Bits : b \in cpsr_read <=>
                \/ b \in uncached_cpsr
                \/ b = 31 /\ 31 \in NF
                \/ b = 30 /\ ZF = {}
                \/ b = 29 /\ 0 \in CF
                \/ b = 28 /\ 31 \in VF
                \/ b = 27 /\ QF
                \/ b = 5 /\ thumb
                \/ b \in {25, 26} /\ b - 25 \in condexec_bits
                \/ b \in 10 .. 15 /\ b - 8 \in condexec_bits
                \/ b \in 16 .. 19 /\ b - 16 \in GE
                \/ b \in CPSR_AIF /\ b \in daif
<1> DEFINE it1 == condexec_bits \cap {0, 1}
           it2 == condexec_bits \cap 2 .. 7
           vf  == VF \cap {31}
<1>1. /\ CF \in SUBSET Bits /\ it1 \in SUBSET Bits /\ it2 \in SUBSET Bits /\ vf \in SUBSET Bits
      /\ GE \in SUBSET Bits
  BY DEF PsrShape, Bits
<1>2. /\ Shl(CF, 29) \subseteq Bits /\ Shr(vf, 3) \subseteq Bits /\ Shl(it1, 25) \subseteq Bits
      /\ Shl(it2, 8) \subseteq Bits /\ Shl(GE, 16) \subseteq Bits
  BY <1>1, ShlInt, ShrInt
<1>3. /\ Bit(ZF = {}, 30) \subseteq Bits /\ Bit(QF, 27) \subseteq Bits /\ Bit(thumb, 5) \subseteq Bits
      /\ NF \cap {31} \subseteq Bits /\ daif \cap CPSR_AIF \subseteq Bits
      /\ uncached_cpsr \subseteq Bits
  <2>1. 30 \in Bits /\ 27 \in Bits /\ 5 \in Bits
    BY DEF Bits
  <2> QED
    BY <2>1 DEF Bit, PsrShape
<1>4. cpsr_read = uncached_cpsr \cup (NF \cap {31}) \cup Bit(ZF = {}, 30) \cup Shl(CF, 29)
                    \cup Shr(vf, 3) \cup Bit(QF, 27) \cup Bit(thumb, 5)
                    \cup Shl(it1, 25) \cup Shl(it2, 8) \cup Shl(GE, 16) \cup (daif \cap CPSR_AIF)
  BY DEF cpsr_read
<1>5. ASSUME NEW b \in Bits
      PROVE  /\ b \in Shl(CF, 29) <=> b = 29 /\ 0 \in CF
             /\ b \in Shr(vf, 3) <=> b = 28 /\ 31 \in VF
             /\ b \in Shl(it1, 25) <=> b \in {25, 26} /\ b - 25 \in condexec_bits
             /\ b \in Shl(it2, 8) <=> b \in 10 .. 15 /\ b - 8 \in condexec_bits
             /\ b \in Shl(GE, 16) <=> b \in 16 .. 19 /\ b - 16 \in GE
  <2>1. b \in Int /\ b >= 0 /\ b <= 31
    BY DEF Bits
  <2>2. b \in Shl(CF, 29) <=> b - 29 \in CF
    BY <1>1, <2>1, ShlBits
  <2>3. b - 29 \in CF <=> b = 29 /\ 0 \in CF
    BY <2>1 DEF PsrShape
  <2>4. b \in Shr(vf, 3) <=> b + 3 \in vf
    BY <1>1, <2>1, ShrBits
  <2>5. b + 3 \in vf <=> b = 28 /\ 31 \in VF
    BY <2>1
  <2>6. b \in Shl(it1, 25) <=> b - 25 \in it1
    BY <1>1, <2>1, ShlBits
  <2>7. b - 25 \in it1 <=> b \in {25, 26} /\ b - 25 \in condexec_bits
    BY <2>1
  <2>8. b \in Shl(it2, 8) <=> b - 8 \in it2
    BY <1>1, <2>1, ShlBits
  <2>9. b - 8 \in it2 <=> b \in 10 .. 15 /\ b - 8 \in condexec_bits
    BY <2>1
  <2>10. b \in Shl(GE, 16) <=> b - 16 \in GE
    BY <1>1, <2>1, ShlBits
  <2>11. b - 16 \in GE <=> b \in 16 .. 19 /\ b - 16 \in GE
    BY <2>1 DEF PsrShape
  <2> QED
    BY <2>2, <2>3, <2>4, <2>5, <2>6, <2>7, <2>8, <2>9, <2>10, <2>11
<1>6. ASSUME NEW b \in Bits
      PROVE  /\ b \in Bit(ZF = {}, 30) <=> b = 30 /\ ZF = {}
             /\ b \in Bit(QF, 27) <=> b = 27 /\ QF
             /\ b \in Bit(thumb, 5) <=> b = 5 /\ thumb
  BY DEF Bit
<1> HIDE DEF it1, it2, vf
<1>7. cpsr_read \subseteq Bits
  BY <1>2, <1>3, <1>4
<1> QED
  BY <1>4, <1>5, <1>6, <1>7

LEMMA PsrExact == ASSUME PsrInv PROVE CpsrExact
<1> SUFFICES ASSUME pc = "guest" PROVE cpsr_read = a_cpsr
  BY DEF CpsrExact
<1>1. \A b \in Bits : \/ b \in {31, 30, 29, 28, 27, 5} \/ b \in {25, 26} \/ b \in 10 .. 15
                      \/ b \in 16 .. 19 \/ b \in CPSR_AIF \/ b \in Bits \ CACHED_CPSR_BITS
  BY DEF CACHED_CPSR_BITS, CPSR_IT, CPSR_NZCV
<1>2. \A b \in CACHED_CPSR_BITS : b \notin uncached_cpsr
  BY DEF PsrInv, PsrShape
<1>3. ASSUME NEW b \in Bits PROVE b \in cpsr_read <=> b \in a_cpsr
  <2>1. CASE b \in Bits \ CACHED_CPSR_BITS
    BY <2>1, ReadBits DEF PsrInv, NzcvExact, OthersExact, CACHED_CPSR_BITS, CPSR_IT,
                          CPSR_NZCV
  <2>2. CASE b \in CACHED_CPSR_BITS
    BY <1>1, <1>2, <2>2, ReadBits DEF PsrInv, NzcvExact, OthersExact, CPSR_AIF
  <2> QED
    BY <2>1, <2>2
<1> QED
  BY <1>3, ReadBits DEF PsrInv, PsrShape

LEMMA WriteNzcvExact ==
    ASSUME NEW val \in SUBSET Bits, WriteNZCV(val),
           \A b \in 28 .. 31 : b \in a_cpsr' <=> b \in val
    PROVE  /\ NzcvExact'
           /\ NF' \in SUBSET Bits /\ VF' \in SUBSET Bits /\ CF' \in SUBSET {0}
<1>1. 31 \in Shl(val, 3) <=> 28 \in val
  <2>1. 31 \in Int /\ 31 <= 31 /\ 31 - 3 = 28 /\ 3 \in Nat
    OBVIOUS
  <2> QED
    BY <2>1, ShlBits
<1>2. 0 \in Shr(val, 29) <=> 29 \in val
  <2>1. 0 \in Int /\ 0 >= 0 /\ 0 + 29 = 29 /\ 29 \in Nat
    OBVIOUS
  <2> QED
    BY <2>1, ShrBits
<1>3. /\ 31 \in NF' <=> 31 \in val
      /\ ZF' = {} <=> 30 \in val
      /\ 0 \in CF' <=> 29 \in val
      /\ 31 \in VF' <=> 28 \in val
  BY <1>1, <1>2 DEF WriteNZCV
<1>4. /\ 31 \in a_cpsr' <=> 31 \in val
      /\ 30 \in a_cpsr' <=> 30 \in val
      /\ 29 \in a_cpsr' <=> 29 \in val
      /\ 28 \in a_cpsr' <=> 28 \in val
  OBVIOUS
<1>5. NF' \in SUBSET Bits /\ VF' \in SUBSET Bits /\ CF' \in SUBSET {0}
  BY DEF WriteNZCV, Bits
<1> QED
  BY <1>3, <1>4, <1>5 DEF NzcvExact

LEMMA WriteCpsr ==
    ASSUME PsrInv, NEW val \in SUBSET Bits, cpsr_write(val), a_cpsr' = val PROVE PsrInv'
<1>1. /\ NzcvExact'
      /\ NF' \in SUBSET Bits /\ VF' \in SUBSET Bits /\ CF' \in SUBSET {0}
  BY WriteNzcvExact DEF cpsr_write
<1>2. \A b \in Int, k \in Nat : b \in Shr(val, k) <=> b >= 0 /\ b + k \in val
  BY ShrBits
<1>3. \A b \in {25, 26} : b - 25 \in condexec_bits' <=> b \in val
  <2> TAKE b \in {25, 26}
  <2>1. b - 25 \in {0, 1} /\ b - 25 \in Int /\ (b - 25) + 25 = b /\ b - 25 >= 0
        /\ b - 25 \notin 2 .. 7
    OBVIOUS
  <2>2. b - 25 \in Shr(val, 25) <=> b \in val
    BY <1>2, <2>1
  <2> QED
    BY <2>1, <2>2 DEF cpsr_write, WriteIT
<1>4. \A b \in 10 .. 15 : b - 8 \in condexec_bits' <=> b \in val
  <2> TAKE b \in 10 .. 15
  <2>1. b - 8 \in 2 .. 7 /\ b - 8 \in Int /\ (b - 8) + 8 = b /\ b - 8 >= 0 /\ b - 8 \notin {0, 1}
    OBVIOUS
  <2>2. b - 8 \in Shr(val, 8) <=> b \in val
    BY <1>2, <2>1
  <2> QED
    BY <2>1, <2>2 DEF cpsr_write, WriteIT
<1>5. \A b \in 16 .. 19 : b - 16 \in GE' <=> b \in val
  <2> TAKE b \in 16 .. 19
  <2>1. b - 16 \in 0 .. 3 /\ b - 16 \in Int /\ (b - 16) + 16 = b /\ b - 16 >= 0
    OBVIOUS
  <2>2. b - 16 \in Shr(val, 16) <=> b \in val
    BY <1>2, <2>1
  <2> QED
    BY <2>1, <2>2 DEF cpsr_write
<1>6. \A b \in CPSR_AIF : b \in daif' <=> b \in val
  BY DEF cpsr_write
<1>7. /\ uncached_cpsr' \in SUBSET (Bits \ CACHED_CPSR_BITS)
      /\ \A b \in Bits \ CACHED_CPSR_BITS : b \in uncached_cpsr' <=> b \in val
  BY DEF cpsr_write, PsrInv, PsrShape
<1>8. (QF' <=> 27 \in val) /\ (thumb' <=> 5 \in val)
  BY DEF cpsr_write
<1>9. OthersExact'
  BY <1>3, <1>4, <1>5, <1>6, <1>7, <1>8 DEF OthersExact
<1>10. daif' \in SUBSET Bits /\ GE' \in SUBSET (0 .. 3)
  BY DEF cpsr_write, PsrInv, PsrShape, CPSR_AIF, Bits
<1>11. condexec_bits' \in SUBSET (0 .. 7)
  <2>1. {0, 1} \subseteq 0 .. 7 /\ 2 .. 7 \subseteq 0 .. 7
    OBVIOUS
  <2> QED
    BY <2>1 DEF cpsr_write, WriteIT
<1> QED
  BY <1>1, <1>7, <1>9, <1>10, <1>11 DEF PsrInv, PsrShape

LEMMA PsrInit == Init => PsrInv
BY DEF Init, PsrInv, PsrShape, Bits, CACHED_CPSR_BITS, CPSR_IT, CPSR_NZCV, CPSR_AIF

LEMMA VmrsPsr == ASSUME FpInv, PsrInv, GuestVmrsApsr PROVE PsrInv'
<1> DEFINE val == xfpscr \cap CPSR_NZCV
<1>1. val \in SUBSET Bits /\ WriteNZCV(val)
  BY DEF GuestVmrsApsr, FpInv, FpShape
<1>2. \A b \in 28 .. 31 : b \in a_fpscr <=> b \in xfpscr
  <2>1. a_fpscr = Get(xfpscr, vec_len, vec_stride, flags \cup std_flags)
    BY GetIsGet DEF FpInv, FpscrExact, GuestVmrsApsr, Insn
  <2> TAKE b \in 28 .. 31
  <2>2. /\ b \in Bits /\ b \in FPSCR_STORED /\ b - 16 \notin 0 .. 2 /\ b - 20 \notin 0 .. 1
        /\ b \notin {0, 1, 2, 3, 4, 7}
    BY DEF Bits, FPSCR_STORED
  <2>3. /\ vec_len \in SUBSET (0 .. 2) /\ vec_stride \in SUBSET (0 .. 1)
        /\ xfpscr \in SUBSET Bits /\ flags \cup std_flags \in SUBSET Flags
    BY DEF FpInv, FpShape
  <2>4. /\ b \in a_fpscr <=> \/ b \in FPSCR_STORED /\ b \in xfpscr
                            \/ b - 16 \in vec_len
                            \/ b - 20 \in vec_stride
                            \/ b \in vfp_exceptbits_from_host(flags \cup std_flags)
        /\ vfp_exceptbits_from_host(flags \cup std_flags) \subseteq {0, 1, 2, 3, 4, 7}
    BY <2>1, <2>2, <2>3, GetBits
  <2> QED
    BY <2>2, <2>3, <2>4
<1>3. \A b \in 28 .. 31 : b \in a_cpsr' <=> b \in val
  BY <1>2 DEF GuestVmrsApsr, CPSR_NZCV
<1>4. \A b \in Bits : b \notin 28 .. 31 => (b \in a_cpsr' <=> b \in a_cpsr)
  BY DEF GuestVmrsApsr, CPSR_NZCV
<1> HIDE DEF val
<1>5. /\ NzcvExact'
      /\ NF' \in SUBSET Bits /\ VF' \in SUBSET Bits /\ CF' \in SUBSET {0}
  BY <1>1, <1>3, WriteNzcvExact
<1>6. UNCHANGED <<QF, thumb, condexec_bits, GE, daif, uncached_cpsr, pc>>
  BY DEF GuestVmrsApsr, Insn
<1>7. OthersExact
  BY DEF GuestVmrsApsr, Insn, PsrInv
<1>8. OthersExact'
  <2>1. /\ {25, 26} \cap 28 .. 31 = {} /\ 10 .. 15 \cap 28 .. 31 = {} /\ 16 .. 19 \cap 28 .. 31 = {}
        /\ CPSR_AIF \cap 28 .. 31 = {} /\ 27 \notin 28 .. 31 /\ 5 \notin 28 .. 31
        /\ (Bits \ CACHED_CPSR_BITS) \cap 28 .. 31 = {}
    BY DEF CPSR_AIF, CACHED_CPSR_BITS, CPSR_NZCV
  <2>2. /\ {25, 26} \subseteq Bits /\ 10 .. 15 \subseteq Bits /\ 16 .. 19 \subseteq Bits
        /\ CPSR_AIF \subseteq Bits /\ 27 \in Bits /\ 5 \in Bits
    BY DEF CPSR_AIF, Bits
  <2> QED
    BY <1>4, <1>6, <1>7, <2>1, <2>2 DEF OthersExact
<1>9. a_cpsr' \in SUBSET Bits
  BY DEF GuestVmrsApsr, PsrInv, PsrShape, FpInv, FpShape
<1> QED
  BY <1>5, <1>6, <1>8, <1>9 DEF PsrInv, PsrShape

LEMMA PsrNext == FpInv /\ PsrInv /\ [Next]_vars => PsrInv'
<1> SUFFICES ASSUME FpInv, PsrInv, [Next]_vars PROVE PsrInv'
  OBVIOUS
<1>1. CASE Enter
  <2> PICK call \in Calls : cpsr_write(call.cpsr) /\ a_cpsr' = call.cpsr
    BY <1>1 DEF Enter
  <2>1. call.cpsr \in SUBSET Bits
    BY ExecStateAssumption
  <2> QED
    BY <2>1, WriteCpsr
<1>2. CASE GuestVmrsApsr
  BY <1>2, VmrsPsr
<1>3. CASE Leave \/ GuestVmsr \/ GuestVfp \/ GuestNeon \/ GuestSaturate \/ GuestCompare
             \/ UNCHANGED vars
  <2>1. UNCHANGED <<psrVars, a_cpsr>> /\ (pc' = "guest" => pc = "guest")
    BY <1>3 DEF Leave, GuestVmsr, GuestVfp, GuestNeon, GuestSaturate, GuestCompare, Insn, vars
  <2> QED
    BY <2>1 DEF psrVars, PsrInv, PsrShape, NzcvExact, OthersExact
<1> QED
  BY <1>1, <1>2, <1>3 DEF Next

(* While a guest runs, cpsr_read is its CPSR: nothing of an earlier call   *)
(* shows in any of the ten parts.                                          *)
THEOREM CpsrIsExact == Spec => []CpsrExact
<1>1. Init => FpInv /\ PsrInv
  BY FpInit, PsrInit
<1>2. FpInv /\ PsrInv /\ [Next]_vars => (FpInv /\ PsrInv)'
  BY FpNext, PsrNext
<1>3. FpInv /\ PsrInv => CpsrExact
  BY PsrExact
<1> QED
  BY <1>1, <1>2, <1>3, PTL DEF Spec
==============================================================================
