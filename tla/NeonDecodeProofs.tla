-------------------------- MODULE NeonDecodeProofs --------------------------
(***************************************************************************)
(* The classifier of tcg-arm/cpu-exec.c agrees with the decoders of        *)
(* target-arm/translate.c on every instruction word, not only on the       *)
(* condition fields and coprocessor numbers that TLC is given.             *)
(***************************************************************************)
EXTENDS NeonDecode, TLAPS

(* All words, by the fields that are tested. *)
AllWords == [cond : 0 .. 15, op : 0 .. 15, cp : 0 .. 15,
             b23 : 0 .. 1, b20 : 0 .. 1, b7 : 0 .. 1, b4 : 0 .. 1]

(* What neon_icount and gen_intermediate_code have said of the word. *)
Inv ==
    /\ insn \in Words
    /\ phase \in {"fetched", "counted", "translated"}
    /\ phase # "fetched" =>
          handled = IF mode = "arm" THEN IsArmNeon(insn) ELSE IsThumbNeon(insn)
    /\ phase = "translated" =>
          unit = IF mode = "arm" THEN DisasArm(insn) ELSE DisasThumb(insn)

(* ARM code: a word that is_arm_neon counts is in the coprocessor space,   *)
(* where the tests for data processing instructions do not hold.           *)
LEMMA ArmAgrees ==
    ASSUME NEW w \in AllWords
    PROVE  /\ DisasArm(w) \in NeonUnits => IsArmNeon(w)
           /\ w.cond # 15 /\ IsArmNeon(w) => DisasArm(w) \in NeonUnits
<1>1. CASE w.cond = 15
  <2>1. CASE NeonData(w) \/ NeonLoadStore(w) \/ VfpData(w)
    BY <1>1, <2>1 DEF IsArmNeon
  <2>2. CASE ~ (NeonData(w) \/ NeonLoadStore(w) \/ VfpData(w))
    BY <1>1, <2>2 DEF DisasArm, NeonUnits
  <2> QED
    BY <1>1, <2>1, <2>2
<1>2. CASE w.cond # 15
  <2>1. CASE /\ ~ MoveImmediate(w) /\ ~ Miscellaneous(w) /\ ~ DataProcessing(w)
             /\ w.op \in {12, 13, 14}
    BY <1>2, <2>1 DEF DisasArm, IsArmNeon, CoprocSpace, NeonUnits
  <2>2. CASE ~ (/\ ~ MoveImmediate(w) /\ ~ Miscellaneous(w) /\ ~ DataProcessing(w)
                /\ w.op \in {12, 13, 14})
    BY <1>2, <2>2 DEF DisasArm, IsArmNeon, CoprocSpace, NeonUnits
  <2> QED
    BY <1>2, <2>1, <2>2
<1> QED
  BY <1>1, <1>2

(* Thumb code: bits 28-25 are those of a coprocessor instruction or of a   *)
(* load or store only in the first halfword of a 32-bit instruction.       *)
LEMMA ThumbAgrees ==
    ASSUME NEW w \in AllWords
    PROVE  /\ DisasThumb(w) \in NeonUnits => IsThumbNeon(w)
           /\ (~ Coprocessor(w) \/ VfpCoproc(w)) /\ IsThumbNeon(w) => DisasThumb(w) \in NeonUnits
<1> DEFINE a == w.op \div 2
<1>1. w.cond \in 0 .. 15 /\ w.op \in 0 .. 15
  BY DEF AllWords
<1>2. a \in 0 .. 7 /\ (w.op >= 8 <=> a >= 4) /\ w.cond % 2 \in 0 .. 1
  BY <1>1
<1>3. Wide(w) => w.cond \in {14, 15}
  BY DEF Wide
<1>4. w.cond \in {14, 15} /\ (Coprocessor(w) \/ ThumbClass(w) = 12) => Wide(w)
  BY <1>1, <1>2 DEF Wide, Coprocessor, ThumbClass, Bits27to25
<1>5. ThumbClass(w) = 12 => ~ Coprocessor(w)
  BY DEF Coprocessor
<1> HIDE DEF a
<1>6. CASE ~ Wide(w)
  <2>1. DisasThumb(w) = "other"
    BY <1>6 DEF DisasThumb
  <2>2. ~ IsThumbNeon(w)
    BY <1>4, <1>6 DEF IsThumbNeon, IsThumb2Neon
  <2> QED
    BY <2>1, <2>2 DEF NeonUnits
<1>7. CASE Wide(w) /\ Coprocessor(w)
  <2>1. CASE ThumbNeonData(w)
    BY <1>3, <1>5, <1>7, <2>1 DEF DisasThumb, IsThumbNeon, IsThumb2Neon, NeonUnits
  <2>2. CASE ~ ThumbNeonData(w) /\ VfpCoproc(w)
    BY <1>3, <1>5, <1>7, <2>2 DEF DisasThumb, IsThumbNeon, IsThumb2Neon, NeonUnits
  <2>3. CASE ~ ThumbNeonData(w) /\ ~ VfpCoproc(w)
    <3>1. DisasThumb(w) \in {"other", "coproc"}
      BY <1>5, <1>7, <2>3 DEF DisasThumb
    <3> QED
      BY <1>7, <2>3, <3>1 DEF NeonUnits
  <2> QED
    BY <2>1, <2>2, <2>3
<1>8. CASE Wide(w) /\ ~ Coprocessor(w)
  <2>1. CASE ThumbClass(w) = 12 /\ ThumbNeonLoadStore(w)
    BY <1>3, <1>8, <2>1 DEF DisasThumb, IsThumbNeon, IsThumb2Neon, NeonUnits
  <2>2. CASE ~ (ThumbClass(w) = 12 /\ ThumbNeonLoadStore(w))
    BY <1>8, <2>2 DEF DisasThumb, IsThumbNeon, IsThumb2Neon, NeonUnits
  <2> QED
    BY <2>1, <2>2
<1> QED
  BY <1>6, <1>7, <1>8

LEMMA InvNext == Inv /\ [Next]_vars => Inv'
<1> SUFFICES ASSUME Inv, [Next]_vars PROVE Inv'
  OBVIOUS
<1>1. CASE Count
  BY <1>1 DEF Inv, Count
<1>2. CASE Disas
  BY <1>2 DEF Inv, Disas
<1>3. CASE UNCHANGED vars
  BY <1>3 DEF Inv, vars
<1> QED
  BY <1>1, <1>2, <1>3 DEF Next

(* Every instruction that a decoder gives to a NEON or VFP function is     *)
(* counted by the classifier, and conditional ARM instructions and Thumb   *)
(* ones outside the other coprocessors' space only then.                   *)
THEOREM ClassifierAgrees == ASSUME Words \subseteq AllWords PROVE Spec => []ClassifierRight
<1>1. Init => Inv
  BY DEF Init, Inv
<1>2. Inv => ClassifierRight
  <2> SUFFICES ASSUME Inv, phase = "translated" PROVE ClassifierRight
    BY DEF ClassifierRight
  <2>1. insn \in AllWords
    BY DEF Inv
  <2>2. CASE mode = "arm"
    BY <2>1, <2>2, ArmAgrees DEF Inv, ClassifierRight
  <2>3. CASE mode # "arm"
    BY <2>1, <2>3, ThumbAgrees DEF Inv, ClassifierRight
  <2> QED
    BY <2>2, <2>3
<1> QED
  BY <1>1, <1>2, InvNext, PTL DEF Spec
=============================================================================
