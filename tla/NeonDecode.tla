----------------------------- MODULE NeonDecode -----------------------------
(***************************************************************************)
(* The instruction classifier of tcg-arm/cpu-exec.c, whose functions are   *)
(* "extracted from" the decoders of target-arm/translate.c.                *)
(*                                                                         *)
(* Every instruction word is looked at twice: neon_icount classifies it to *)
(* find how many instructions the next TB may have, and                    *)
(* gen_intermediate_code later decodes the same word.  A NEON instruction  *)
(* that the classifier misses cuts the run short; a word that it counts    *)
(* and the decoder gives to no NEON or VFP function is translated inside   *)
(* the run although the library was not called on it.                      *)
(*                                                                         *)
(* A word is given by the fields that either of them tests:                *)
(*   cond  bits 31-28     op  bits 27-24     cp  bits 11-8                 *)
(*   b23, b20, b7, b4     single bits                                      *)
(* and, in Thumb code, bits 31-16 are the first halfword.  The CPU has     *)
(* NEON, VFP and Thumb-2 and is not an M profile one, so the tests of      *)
(* those features do not stop the decoders.                                *)
(***************************************************************************)
EXTENDS Integers

CONSTANTS
    Words,   \* the words to classify
    Modes    \* the instruction sets they are read in: "arm", "thumb"

VARIABLES
    insn, mode,
    phase,     \* "fetched", "counted" by neon_icount, then "translated"
    handled,   \* what the classifier said
    unit       \* the function the decoder gave the word to

vars == <<insn, mode, phase, handled, unit>>

NeonUnits == {"neon_data", "neon_ls", "vfp"}

-----------------------------------------------------------------------------
(* Bit tests of both sides.                                                *)

Bits27to25(w) == w.op \div 2

(* (insn >> 8) & 0xe is 10: coprocessor 10 or 11, which are VFP. *)
VfpCoproc(w) == w.cp \div 2 = 5

NeonData(w) == Bits27to25(w) = 1
NeonLoadStore(w) == w.op = 4 /\ w.b20 = 0
VfpData(w) == w.op = 14 /\ VfpCoproc(w) /\ w.b4 = 0

(* MOVW, MOVT and MSR; the miscellaneous instructions; data processing.    *)
MoveImmediate(w) == w.op = 3 /\ w.b23 = 0 /\ w.b20 = 0
Miscellaneous(w) ==
    w.op = 1 /\ w.b23 = 0 /\ w.b20 = 0 /\ ~ (w.b7 = 1 /\ w.b4 = 1)
DataProcessing(w) ==
    \/ Bits27to25(w) = 0 /\ ~ (w.b7 = 1 /\ w.b4 = 1)
    \/ Bits27to25(w) = 1

(* Bits 28-25, on which disas_thumb2_insn switches. *)
ThumbClass(w) == (w.cond % 2) * 8 + Bits27to25(w)
Coprocessor(w) == ThumbClass(w) \in {6, 7, 14, 15}
ThumbNeonData(w) == w.op % 4 = 3
ThumbNeonLoadStore(w) == w.op % 2 = 1 /\ w.b20 = 0

(* The first halfword starts a 32-bit instruction: 0b111 and bit 12 or 11. *)
Wide(w) == w.cond = 15 \/ (w.cond = 14 /\ w.op >= 8)

-----------------------------------------------------------------------------
(* The classifier.                                                         *)

MutCoprocSpace(w) == w.op \in {12, 13} /\ VfpCoproc(w)
CoprocSpace(w) == w.op \in {12, 13, 14} /\ VfpCoproc(w)

(* is_arm_neon: the test for coprocessor instructions is made whatever the *)
(* condition field.                                                        *)
IsArmNeon(w) ==
    \/ w.cond = 15 /\ (NeonData(w) \/ NeonLoadStore(w) \/ VfpData(w))
    \/ /\ ~ MoveImmediate(w) /\ ~ Miscellaneous(w) /\ ~ DataProcessing(w)
       /\ CoprocSpace(w)

(* is_thumb2_neon: the coprocessor cases have no break and go on to the    *)
(* test of case 12.                                                        *)
IsThumb2Neon(w) ==
    \/ Coprocessor(w) /\ (ThumbNeonData(w) \/ VfpCoproc(w))
    \/ (Coprocessor(w) \/ ThumbClass(w) = 12) /\ ThumbNeonLoadStore(w)

(* is_thumb_neon: case 14 has no break either, so that bit 11 of the first *)
(* halfword decides nothing.                                               *)
IsThumbNeon(w) == w.cond \in {14, 15} /\ IsThumb2Neon(w)

-----------------------------------------------------------------------------
(* The decoder.                                                            *)

(* disas_arm_insn. *)
DisasArm(w) ==
    CASE w.cond = 15 /\ NeonData(w)      -> "neon_data"
      [] w.cond = 15 /\ NeonLoadStore(w) -> "neon_ls"
      [] w.cond = 15 /\ VfpData(w)       -> "vfp"
      [] /\ w.cond # 15
         /\ ~ MoveImmediate(w) /\ ~ Miscellaneous(w) /\ ~ DataProcessing(w)
         /\ w.op \in {12, 13, 14}
                                         -> IF VfpCoproc(w) THEN "vfp" ELSE "coproc"
      [] OTHER                           -> "other"

(* disas_thumb_insn and disas_thumb2_insn. *)
DisasThumb(w) ==
    CASE Wide(w) /\ Coprocessor(w) ->
            IF ThumbNeonData(w) THEN "neon_data"
            ELSE IF VfpCoproc(w) THEN "vfp"
            ELSE IF w.cond % 2 = 1 THEN "other" ELSE "coproc"
      [] Wide(w) /\ ThumbClass(w) = 12 /\ ThumbNeonLoadStore(w) -> "neon_ls"
      [] OTHER -> "other"

-----------------------------------------------------------------------------
(* A word of the guest program is counted, then translated. *)
Init ==
    /\ insn \in Words
    /\ mode \in Modes
    /\ phase = "fetched"
    /\ handled = FALSE
    /\ unit = "none"

(* The loop body of neon_icount.  For Thumb code it is commented out, with *)
(* the classifier it would call.                                           *)
Count ==
    /\ phase = "fetched"
    /\ phase' = "counted"
    /\ handled' = IF mode = "arm" THEN IsArmNeon(insn) ELSE IsThumbNeon(insn)
    /\ UNCHANGED <<insn, mode, unit>>

(* gen_intermediate_code. *)
Disas ==
    /\ phase = "counted"
    /\ phase' = "translated"
    /\ unit' = IF mode = "arm" THEN DisasArm(insn) ELSE DisasThumb(insn)
    /\ UNCHANGED <<insn, mode, handled>>

Next == Count \/ Disas

Spec == Init /\ [][Next]_vars

-----------------------------------------------------------------------------
(* Every instruction that the decoders give to a NEON or VFP function is   *)
(* counted by the classifier, in both instruction sets, so that a run of   *)
(* them is never cut short.  Of the conditional ARM instructions, and of   *)
(* the Thumb ones outside the other coprocessors' space, it counts no      *)
(* other, although its switches fall through where the decoders' break.    *)
ClassifierRight ==
    phase = "translated" =>
        /\ unit \in NeonUnits => handled
        /\ (IF mode = "arm" THEN insn.cond # 15
                            ELSE ~ Coprocessor(insn) \/ VfpCoproc(insn))
           => (handled => unit \in NeonUnits)
=============================================================================
